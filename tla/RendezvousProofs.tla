-------------------------- MODULE RendezvousProofs --------------------------
(***************************************************************************)
(* Machine-checked proofs about Rendezvous, for any options, cookies and    *)
(* width of an int, for networks that lose and reorder, with and without    *)
(* other traffic: the roles of two sides that connect differ, each has read *)
(* the other's extensions, and they work with common settings.  First comes *)
(* what a side makes of a request and of a response, however often it reads *)
(* them; then the invariant of the two sides and the network.               *)
(***************************************************************************)
EXTENDS Rendezvous, TLAPS, SequenceTheorems

(* What a responder with options l and an initiator with options o settle.  *)

RcvDelayOf(l, o) == IF o.tsbpd /\ l.tsbpd THEN Max({l.rcv, o.snd}) ELSE l.rcv
SndDelayOf(l, o) == IF o.tsbpd THEN Max({l.snd, o.rcv}) ELSE l.snd
FilterOf(l, o) == IF l.filter = NoFilter THEN o.filter ELSE l.filter
KmAsked(o) == IF o.key = NoKey THEN NoKm ELSE KmReq(o.key)
KmOf(l, o) ==
    IF o.key = NoKey THEN IF l.key = NoKey THEN NoKm ELSE KmFail("unsecured")
    ELSE IF l.key = NoKey THEN KmFail("nosecret")
    ELSE IF l.key # o.key THEN KmFail("badsecret") ELSE KmRsp(o.key)
Accepts(l, o) ==
    /\ o.msg = l.msg
    /\ o.cc = "live" \/ o.cc = l.cc
    /\ o.key # l.key => ~l.strict

\* The blocks of the initiator's request and of the responder's answer to it.
IsReq(ext, o) ==
    /\ ext # NoExt /\ ext.hs.cmd = "hsreq" /\ ext.hs.tsbpdSnd = o.tsbpd /\ ext.hs.tsbpdRcv = o.tsbpd
    /\ o.tsbpd => ext.hs.snd = o.snd /\ ext.hs.rcv = o.rcv
    /\ ext.hs.nak = o.nak /\ ext.hs.msg = o.msg
    /\ ext.km = KmAsked(o) /\ ext.cc = o.cc /\ ext.filter = o.filter
IsRsp(ext, l, o) ==
    /\ ext # NoExt /\ ext.hs.cmd = "hsrsp" /\ ext.hs.tsbpdSnd = o.tsbpd /\ ext.hs.tsbpdRcv = l.tsbpd
    /\ o.tsbpd => ext.hs.snd = SndDelayOf(l, o)
    /\ l.tsbpd => ext.hs.rcv = RcvDelayOf(l, o)
    /\ ext.hs.nak = l.nak
    /\ ext.km = KmOf(l, o) /\ ext.cc = l.cc /\ ext.filter = FilterOf(l, o)

\* The responder's socket before it has read the request, at any time, and after it.
KmBefore(u) ==
    /\ u.sndKm = IF u.opt.key = NoKey THEN "unsecured" ELSE "securing"
    /\ u.rcvKm = "unsecured" /\ u.kmMsg = NoKey
KmRead(u, l, o) ==
    \/ o.key = l.key /\ l.key = NoKey /\ u.sndKm = "unsecured" /\ u.rcvKm = "unsecured" /\ u.kmMsg = NoKey
    \/ o.key = l.key /\ l.key # NoKey /\ u.sndKm = "secured" /\ u.rcvKm = "secured" /\ u.kmMsg = o.key
    \/ o.key # l.key /\ l.key = NoKey /\ u.sndKm = "unsecured" /\ u.rcvKm = "nosecret" /\ u.kmMsg = NoKey
    \/ o.key # l.key /\ l.key # NoKey /\ o.key = NoKey /\ u.sndKm = "nosecret" /\ u.rcvKm = "unsecured" /\ u.kmMsg = NoKey
    \/ /\ o.key # l.key /\ l.key # NoKey /\ o.key # NoKey
       /\ u.sndKm = "badsecret" /\ u.rcvKm = "badsecret" /\ u.kmMsg = NoKey
Answers(u, l, o) ==
    /\ u.opt = l /\ u.tsbpd = l.tsbpd
    /\ u.peerTsbpd \in {FALSE, o.tsbpd} /\ u.peerNak \in {FALSE, o.nak}
    /\ u.filter \in {l.filter, FilterOf(l, o)}
    /\ KmBefore(u) \/ KmRead(u, l, o)
HsRead(u, l, o) ==
    /\ u.started = TRUE /\ u.rcvDelay = RcvDelayOf(l, o) /\ u.sndDelay = SndDelayOf(l, o)
    /\ u.peerTsbpd = o.tsbpd /\ u.peerNak = o.nak
Answered(u, l, o) ==
    /\ Answers(u, l, o) /\ HsRead(u, l, o) /\ KmRead(u, l, o) /\ u.filter = FilterOf(l, o) /\ Accepts(l, o)

\* The initiator's socket before it has read the response, and after it; the last line
\* is only for a response that it did not refuse.
KmOpen(u, o) == u.kmMsg = o.key /\ u.rcvKm # "securing" /\ (o.key = NoKey => u.sndKm # "securing")
Asks(u, l, o) ==
    /\ u.opt = o /\ u.tsbpd = o.tsbpd
    /\ u.peerTsbpd \in {FALSE, l.tsbpd} /\ u.peerNak \in {FALSE, l.nak}
    /\ u.filter \in {o.filter, FilterOf(l, o)}
    /\ KmOpen(u, o)
HsHeard(u, l, o) ==
    /\ u.started = TRUE /\ u.peerTsbpd = l.tsbpd /\ u.peerNak = l.nak
    /\ o.tsbpd => u.rcvDelay = SndDelayOf(l, o)
    /\ l.tsbpd => u.sndDelay = RcvDelayOf(l, o)
Heard(u, l, o) == Asks(u, l, o) /\ HsHeard(u, l, o) /\ u.sndKm # "securing" /\ u.rcvKm # "securing"
AllHeard(u, l, o) == u.filter = FilterOf(l, o) /\ (l.cc = "live" \/ l.cc = o.cc)

-----------------------------------------------------------------------------
(* Reading one block after the other.  Each leaves alone what the others    *)
(* settle.                                                                 *)

Members == {"opt", "side", "tsbpd", "rcvDelay", "sndDelay", "peerTsbpd", "peerDrop", "peerNak", "peerRexmit", "started",
            "filter", "crypter", "sndKm", "rcvKm", "kmMsg", "reject"}
IsSocket(u) == u = [f \in Members |-> u[f]]
SameSelf(u, v) == IsSocket(v) /\ v.opt = u.opt /\ v.side = u.side /\ v.crypter = u.crypter /\ v.tsbpd = u.tsbpd
SameHs(u, v) ==
    /\ v.rcvDelay = u.rcvDelay /\ v.sndDelay = u.sndDelay
    /\ v.peerTsbpd = u.peerTsbpd /\ v.peerNak = u.peerNak /\ v.started = u.started
SameKm(u, v) == v.sndKm = u.sndKm /\ v.rcvKm = u.rcvKm /\ v.kmMsg = u.kmMsg
SameAll(u, v) == SameSelf(u, v) /\ SameHs(u, v) /\ SameKm(u, v) /\ v.filter = u.filter

\* The larger of two delays is a delay that neither exceeds.
LEMMA LargerOfTwo ==
  ASSUME NEW a \in Nat, NEW b \in Nat
  PROVE  Max({a, b}) \in Nat /\ Max({a, b}) >= a /\ Max({a, b}) >= b
  BY DEF Max

\* A rejection is recorded, and nothing else changes.
LEMMA Rejecting ==
  ASSUME NEW u, IsSocket(u), NEW why
  PROVE  SameAll(u, Reject(u, why)) /\ Reject(u, why).reject = why
<1>1. PICK v : v = [u EXCEPT !.reject = why]
  OBVIOUS
<1>2. v = Reject(u, why)
  BY <1>1 DEF Reject
<1>3. SameAll(u, v) /\ v.reject = why
  BY <1>1 DEF IsSocket, Members, SameAll, SameSelf, SameHs, SameKm
<1>4. QED
  BY <1>2, <1>3

\* What is the same twice is the same.
LEMMA SameTwice ==
  ASSUME NEW u, NEW v, NEW w, SameAll(u, v), SameAll(v, w)
  PROVE  SameAll(u, w)
  BY DEF SameAll, SameSelf, SameHs, SameKm
LEMMA SameOnce ==
  ASSUME NEW u, IsSocket(u)
  PROVE  SameAll(u, u)
  BY DEF SameAll, SameSelf, SameHs, SameKm

\* The key blocks are told apart by their commands and by what they carry.
LEMMA KmTold ==
  /\ NoKm.cmd = "none" /\ \A k : KmReq(k).cmd = "kmreq" /\ KmReq(k).key = k /\ KmReq(k) # NoKm
  /\ \A k : KmRsp(k).cmd = "kmrsp" /\ KmRsp(k).key = k /\ KmRsp(k).state = "secured" /\ KmRsp(k) # NoKm
  /\ \A z : KmFail(z).cmd = "kmrsp" /\ KmFail(z).key = NoKey /\ KmFail(z).state = z /\ KmFail(z) # NoKm
<1>1. /\ NoKm.cmd = "none" /\ \A k : KmReq(k).cmd = "kmreq" /\ KmReq(k).key = k
      /\ \A k : KmRsp(k).cmd = "kmrsp" /\ KmRsp(k).key = k /\ KmRsp(k).state = "secured"
      /\ \A z : KmFail(z).cmd = "kmrsp" /\ KmFail(z).key = NoKey /\ KmFail(z).state = z
  BY DEF NoKm, KmReq, KmRsp, KmFail
<1>2. QED
  BY <1>1

\* CUDT::checkApplyFilterConfig
TakenFilter(u, f) == IF u.filter = NoFilter THEN f ELSE u.filter
LEMMA FilterStage ==
  ASSUME NEW u, IsSocket(u), u.reject = "unknown", NEW f
  PROVE  LET v == TakeFilter(u, f) IN
         /\ SameSelf(u, v) /\ SameHs(u, v) /\ SameKm(u, v)
         /\ v.filter \in {u.filter, TakenFilter(u, f)}
         /\ ~Rejected(v) => v.filter = TakenFilter(u, f) /\ f \in {NoFilter, v.filter}
<1>1. CASE f = NoFilter \/ u.filter = f
  <2>1. TakeFilter(u, f) = u /\ u.filter = TakenFilter(u, f)
    BY <1>1 DEF TakeFilter, TakenFilter
  <2>2. SameAll(u, u)
    BY SameOnce
  <2>3. QED
    BY <1>1, <2>1, <2>2 DEF SameAll
<1>2. CASE ~(f = NoFilter \/ u.filter = f) /\ u.filter = NoFilter
  <2>1. PICK v : v = [u EXCEPT !.filter = f]
    OBVIOUS
  <2>2. TakeFilter(u, f) = v
    BY <1>2, <2>1 DEF TakeFilter
  <2>3. SameSelf(u, v) /\ SameHs(u, v) /\ SameKm(u, v) /\ v.filter = f
    BY <2>1 DEF IsSocket, Members, SameSelf, SameHs, SameKm
  <2>4. QED
    BY <1>2, <2>2, <2>3 DEF TakenFilter
<1>3. CASE ~(f = NoFilter \/ u.filter = f) /\ u.filter # NoFilter
  <2>1. PICK v : v = Reject(u, "filter")
    OBVIOUS
  <2>2. TakeFilter(u, f) = v
    BY <1>3, <2>1 DEF TakeFilter
  <2>3. SameAll(u, v) /\ v.reject = "filter"
    BY <2>1, Rejecting
  <2>4. QED
    BY <2>2, <2>3 DEF SameAll, Rejected
<1>4. QED
  BY <1>1, <1>2, <1>3

\* The last part of interpretSrtHandshake (core.cpp:2783-2903): the congestion control, the
\* filter, and a passphrase that the peer said nothing of.
Unanswered(u, ext) == ext.km = NoKm /\ u.opt.key # NoKey
Unkeyed(u, v) == v.sndKm = "nosecret" /\ v.rcvKm = "unsecured" /\ v.kmMsg = u.kmMsg
ConfigLike(u, ext, v) ==
    /\ SameSelf(u, v) /\ SameHs(u, v)
    /\ v.filter \in {u.filter, TakenFilter(u, ext.filter)}
    /\ SameKm(u, v) \/ (Unanswered(u, ext) /\ Unkeyed(u, v))
ConfigTakes(u, ext, v) ==
    /\ v.filter = TakenFilter(u, ext.filter) /\ ext.filter \in {NoFilter, v.filter}
    /\ ext.cc = "live" \/ ext.cc = u.opt.cc
    /\ Unanswered(u, ext) => ~u.opt.strict /\ Unkeyed(u, v)
LEMMA ConfigStage ==
  ASSUME NEW u, IsSocket(u), u.reject = "unknown", NEW ext, NEW km
  PROVE  LET i == InterpretConfig(u, ext, km) IN
         /\ ConfigLike(u, ext, i.u)
         /\ i.ok => i.km = km /\ ConfigTakes(u, ext, i.u)
<1> DEFINE checked == IF ext.cc # "live" /\ ext.cc # u.opt.cc THEN Reject(u, "congestion") ELSE TakeFilter(u, ext.filter)
<1>1. PICK w : w = checked
  OBVIOUS
<1>2. /\ SameSelf(u, w) /\ SameHs(u, w) /\ SameKm(u, w)
      /\ w.filter \in {u.filter, TakenFilter(u, ext.filter)}
      /\ ~Rejected(w) => /\ w.filter = TakenFilter(u, ext.filter) /\ ext.filter \in {NoFilter, w.filter}
                         /\ ext.cc = "live" \/ ext.cc = u.opt.cc
  <2>1. CASE ext.cc # "live" /\ ext.cc # u.opt.cc
    <3>1. SameAll(u, w) /\ w.reject = "congestion"
      BY <1>1, <2>1, Rejecting
    <3>2. QED
      BY <3>1 DEF SameAll, Rejected
  <2>2. CASE ~(ext.cc # "live" /\ ext.cc # u.opt.cc)
    <3>1. w = TakeFilter(u, ext.filter)
      BY <1>1, <2>2
    <3>2. QED
      BY <2>2, <3>1, FilterStage
  <2>3. QED
    BY <2>1, <2>2
<1>3. PICK i : i = InterpretConfig(u, ext, km)
  OBVIOUS
<1>4. i = IF Rejected(w) THEN Failed(w)
          ELSE IF Unanswered(u, ext)
          THEN IF u.opt.strict THEN Failed(Reject(w, "unsecure"))
               ELSE [ok |-> TRUE, km |-> km,
                     u  |-> [w EXCEPT !.sndKm = "nosecret", !.rcvKm = "unsecured"]]
          ELSE IF u.opt.cc # "live" /\ ext.cc = "live" THEN Failed(Reject(w, "congestion"))
          ELSE [ok |-> TRUE, u |-> w, km |-> km]
  BY <1>1, <1>3 DEF InterpretConfig, Unanswered
<1>5. \A x : Failed(x).ok = FALSE /\ Failed(x).u = x
  BY DEF Failed
<1>6. ASSUME NEW x, i = Failed(x), SameAll(w, x)
      PROVE  ConfigLike(u, ext, i.u) /\ ~i.ok
  <2>1. i.u = x /\ i.ok = FALSE
    BY <1>5, <1>6
  <2>2. /\ SameSelf(u, x) /\ SameHs(u, x) /\ SameKm(u, x)
        /\ x.filter \in {u.filter, TakenFilter(u, ext.filter)}
    BY <1>2, <1>6 DEF SameAll, SameSelf, SameHs, SameKm
  <2>3. ConfigLike(u, ext, x)
    BY <2>2, Zenon DEF ConfigLike
  <2>4. QED
    BY <2>1, <2>3
<1>7. IsSocket(w)
  BY <1>2 DEF SameSelf
<1>8. CASE Rejected(w)
  BY <1>3, <1>4, <1>6, <1>7, <1>8, SameOnce
<1>9. CASE ~Rejected(w) /\ Unanswered(u, ext) /\ u.opt.strict
  <2>1. i = Failed(Reject(w, "unsecure"))
    BY <1>4, <1>9
  <2>2. QED
    BY <1>3, <1>6, <1>7, <2>1, Rejecting
<1>10. CASE ~Rejected(w) /\ Unanswered(u, ext) /\ ~u.opt.strict
  <2>1. PICK v : v = [w EXCEPT !.sndKm = "nosecret", !.rcvKm = "unsecured"]
    OBVIOUS
  <2>2. i = [ok |-> TRUE, km |-> km, u |-> v]
    BY <1>4, <1>10, <2>1
  <2>3. /\ SameSelf(w, v) /\ SameHs(w, v) /\ v.filter = w.filter
        /\ v.sndKm = "nosecret" /\ v.rcvKm = "unsecured" /\ v.kmMsg = w.kmMsg
    BY <1>7, <2>1 DEF IsSocket, Members, SameSelf, SameHs
  <2>4. i.u = v /\ i.km = km
    BY <2>2
  <2>5. ConfigLike(u, ext, v) /\ ConfigTakes(u, ext, v)
    BY <1>2, <1>10, <2>3 DEF ConfigLike, ConfigTakes, SameSelf, SameHs, SameKm, Unkeyed
  <2>6. QED
    BY <1>3, <2>4, <2>5
<1>11. CASE ~Rejected(w) /\ ~Unanswered(u, ext) /\ u.opt.cc # "live" /\ ext.cc = "live"
  <2>1. i = Failed(Reject(w, "congestion"))
    BY <1>4, <1>11
  <2>2. QED
    BY <1>3, <1>6, <1>7, <2>1, Rejecting
<1>12. CASE ~Rejected(w) /\ ~Unanswered(u, ext) /\ ~(u.opt.cc # "live" /\ ext.cc = "live")
  <2>1. i = [ok |-> TRUE, u |-> w, km |-> km]
    BY <1>4, <1>12
  <2>2. i.u = w /\ i.km = km
    BY <2>1
  <2>3. ConfigLike(u, ext, w)
    BY <1>2, Zenon DEF ConfigLike
  <2>4. ConfigTakes(u, ext, w)
    BY <1>2, <1>12, Zenon DEF ConfigTakes
  <2>5. QED
    BY <1>3, <2>2, <2>3, <2>4
<1>13. QED
  BY <1>8, <1>9, <1>10, <1>11, <1>12

\* CUDT::processSrtMsg_HSREQ: the responder takes each delay from the two that the sides want.
LEMMA HsReqStage ==
  ASSUME NEW l, NEW o, IsOptions(o), NEW u, IsSocket(u), u.reject = "unknown", Answers(u, l, o),
         NEW ext, IsReq(ext, o)
  PROVE  LET v == TakeHs(u, ext.hs) IN
         /\ SameSelf(u, v) /\ SameKm(u, v) /\ v.filter = u.filter
         /\ Rejected(v) => SameHs(u, v)
         /\ ~Rejected(v) => v.reject = "unknown" /\ HsRead(v, l, o) /\ o.msg = l.msg
<1>1. PICK m : m = ext.hs
  OBVIOUS
<1>2. /\ m.cmd = "hsreq" /\ m.tsbpdSnd = o.tsbpd /\ m.tsbpdRcv = o.tsbpd
      /\ o.tsbpd => m.snd = o.snd /\ m.rcv = o.rcv
      /\ m.nak = o.nak /\ m.msg = o.msg
  BY <1>1 DEF IsReq
<1>3. /\ u.opt = l /\ u.tsbpd = l.tsbpd
      /\ u.peerTsbpd \in {FALSE, o.tsbpd} /\ u.peerNak \in {FALSE, o.nak}
      /\ o.tsbpd \in BOOLEAN /\ o.nak \in BOOLEAN
  BY DEF Answers, IsOptions
<1>4. m.cmd # "hsrsp"
  BY <1>2
<1>5. CASE m.msg # l.msg
  <2>1. TakeHs(u, m) = Reject(u, "messageapi")
    BY <1>3, <1>4, <1>5 DEF TakeHs
  <2>2. PICK v : v = Reject(u, "messageapi")
    OBVIOUS
  <2>3. SameAll(u, v) /\ v.reject = "messageapi"
    BY <2>2, Rejecting
  <2>4. QED
    BY <1>1, <2>1, <2>2, <2>3 DEF SameAll, Rejected
<1>6. CASE m.msg = l.msg
  <2>1. PICK x1, x2, x3, x4, x5, x6 :
          /\ x1 = IF m.tsbpdSnd /\ u.tsbpd THEN Max({u.opt.rcv, m.snd}) ELSE u.opt.rcv
          /\ x2 = IF m.tsbpdRcv THEN Max({u.opt.snd, m.rcv}) ELSE u.opt.snd
          /\ x3 = (u.peerTsbpd \/ m.tsbpdRcv) /\ x4 = (u.peerDrop \/ m.drop) /\ x5 = (u.peerNak \/ m.nak)
          /\ x6 = m.rexmit
    BY Zenon
  <2>2. PICK v : v = [u EXCEPT !.started = TRUE, !.rcvDelay = x1, !.sndDelay = x2, !.peerTsbpd = x3,
                               !.peerDrop = x4, !.peerNak = x5, !.peerRexmit = x6]
    OBVIOUS
  <2>3. TakeHsReq(u, m) = v
    BY <2>1, <2>2, Zenon DEF TakeHsReq
  <2>4. TakeHs(u, m) = v
    BY <1>3, <1>4, <1>6, <2>3 DEF TakeHs
  <2>5. /\ SameSelf(u, v) /\ SameKm(u, v) /\ v.filter = u.filter /\ v.reject = u.reject
        /\ v.started = TRUE /\ v.rcvDelay = x1 /\ v.sndDelay = x2 /\ v.peerTsbpd = x3 /\ v.peerNak = x5
    BY <2>2 DEF IsSocket, Members, SameSelf, SameKm
  <2>6. x1 = RcvDelayOf(l, o)
    BY <1>2, <1>3, <2>1 DEF RcvDelayOf
  <2>7. x2 = SndDelayOf(l, o)
    BY <1>2, <1>3, <2>1 DEF SndDelayOf
  <2>8. x3 = o.tsbpd /\ x5 = o.nak
    <3>1. x3 = (u.peerTsbpd \/ o.tsbpd) /\ x5 = (u.peerNak \/ o.nak)
      BY <1>2, <2>1, Zenon
    <3>2. QED
      BY <1>3, <3>1, Zenon
  <2>9. HsRead(v, l, o)
    BY <2>5, <2>6, <2>7, <2>8, Zenon DEF HsRead
  <2>10. v.reject = "unknown" /\ o.msg = l.msg
    BY <1>2, <1>6, <2>5
  <2>11. ~Rejected(v)
    BY <2>10 DEF Rejected
  <2>12. QED
    BY <1>1, <2>4, <2>5, <2>9, <2>10, <2>11
<1>7. QED
  BY <1>5, <1>6

\* CUDT::processSrtMsg_HSRSP: the initiator takes over the delays that the response names.
LEMMA HsRspStage ==
  ASSUME NEW l, NEW o, IsOptions(l), NEW u, IsSocket(u), u.reject = "unknown", Asks(u, l, o),
         NEW ext, IsRsp(ext, l, o)
  PROVE  LET v == TakeHs(u, ext.hs) IN
         SameSelf(u, v) /\ SameKm(u, v) /\ v.filter = u.filter /\ v.reject = "unknown" /\ HsHeard(v, l, o)
<1>1. PICK m : m = ext.hs
  OBVIOUS
<1>2. /\ m.cmd = "hsrsp" /\ m.tsbpdSnd = o.tsbpd /\ m.tsbpdRcv = l.tsbpd
      /\ o.tsbpd => m.snd = SndDelayOf(l, o)
      /\ l.tsbpd => m.rcv = RcvDelayOf(l, o)
      /\ m.nak = l.nak
  BY <1>1 DEF IsRsp
<1>3. /\ u.opt = o /\ u.tsbpd = o.tsbpd
      /\ u.peerTsbpd \in {FALSE, l.tsbpd} /\ u.peerNak \in {FALSE, l.nak}
      /\ l.tsbpd \in BOOLEAN /\ l.nak \in BOOLEAN
  BY DEF Asks, IsOptions
<1>4. PICK x1, x2, x3, x4, x5, x6 :
        /\ x1 = IF m.tsbpdSnd /\ u.tsbpd THEN m.snd ELSE u.rcvDelay
        /\ x2 = IF m.tsbpdRcv THEN m.rcv ELSE u.sndDelay
        /\ x3 = (u.peerTsbpd \/ m.tsbpdRcv) /\ x4 = (u.peerDrop \/ m.drop) /\ x5 = (u.peerNak \/ m.nak)
        /\ x6 = (u.peerRexmit \/ m.rexmit)
  BY Zenon
<1>5. PICK v : v = [u EXCEPT !.started = TRUE, !.rcvDelay = x1, !.sndDelay = x2, !.peerTsbpd = x3,
                             !.peerDrop = x4, !.peerNak = x5, !.peerRexmit = x6]
  OBVIOUS
<1>6. TakeHsRsp(u, m) = v
  BY <1>4, <1>5, Zenon DEF TakeHsRsp
<1>7. TakeHs(u, m) = v
  BY <1>2, <1>6 DEF TakeHs
<1>8. /\ SameSelf(u, v) /\ SameKm(u, v) /\ v.filter = u.filter /\ v.reject = u.reject
      /\ v.started = TRUE /\ v.rcvDelay = x1 /\ v.sndDelay = x2 /\ v.peerTsbpd = x3 /\ v.peerNak = x5
  BY <1>5 DEF IsSocket, Members, SameSelf, SameKm
<1>9. (o.tsbpd => x1 = SndDelayOf(l, o)) /\ (l.tsbpd => x2 = RcvDelayOf(l, o))
  BY <1>2, <1>3, <1>4
<1>10. x3 = l.tsbpd /\ x5 = l.nak
  <2>1. x3 = (u.peerTsbpd \/ l.tsbpd) /\ x5 = (u.peerNak \/ l.nak)
    BY <1>2, <1>4, Zenon
  <2>2. QED
    BY <1>3, <2>1, Zenon
<1>11. HsHeard(v, l, o)
  BY <1>8, <1>9, <1>10, Zenon DEF HsHeard
<1>12. QED
  BY <1>1, <1>7, <1>8, <1>11

\* CCryptoControl::processSrtMsg_KMREQ: what it makes of the key states depends on the two
\* passphrases only, and is the same the second time.
KmMade(l, o) ==
    IF l.key = NoKey THEN KmFail("nosecret")
    ELSE IF l.key # o.key THEN KmFail("badsecret") ELSE KmRsp(o.key)
LEMMA KmReqStage ==
  ASSUME NEW l, NEW o, o.key # NoKey, NEW u, IsSocket(u), u.opt = l, KmBefore(u) \/ KmRead(u, l, o)
  PROVE  LET t == TakeKmReq(u, KmReq(o.key)) IN
         /\ SameSelf(u, t.u) /\ SameHs(u, t.u) /\ t.u.filter = u.filter /\ t.u.reject = u.reject
         /\ KmRead(t.u, l, o) /\ t.km = KmMade(l, o)
<1>1. PICK m : m = KmReq(o.key)
  OBVIOUS
<1>2. m.key = o.key
  BY <1>1, KmTold
<1>3. PICK t : t = TakeKmReq(u, m)
  OBVIOUS
<1>4. CASE l.key = NoKey
  <2>1. PICK v : v = [u EXCEPT !.rcvKm = "nosecret"]
    OBVIOUS
  <2>2. t = [u |-> v, km |-> KmFail("nosecret")]
    BY <1>3, <1>4, <2>1 DEF TakeKmReq
  <2>3. /\ SameSelf(u, v) /\ SameHs(u, v) /\ v.filter = u.filter /\ v.reject = u.reject
        /\ v.rcvKm = "nosecret" /\ v.sndKm = u.sndKm /\ v.kmMsg = u.kmMsg
    BY <2>1 DEF IsSocket, Members, SameSelf, SameHs
  <2>4. u.sndKm = "unsecured" /\ u.kmMsg = NoKey
    BY <1>4 DEF KmBefore, KmRead
  <2>5. KmRead(v, l, o)
    BY <1>4, <2>3, <2>4 DEF KmRead
  <2>6. QED
    BY <1>1, <1>3, <1>4, <2>2, <2>3, <2>5 DEF KmMade
<1>5. CASE l.key # NoKey /\ l.key # o.key
  <2>1. PICK v : v = [u EXCEPT !.rcvKm = "badsecret", !.sndKm = "badsecret"]
    OBVIOUS
  <2>2. t = [u |-> v, km |-> KmFail("badsecret")]
    BY <1>2, <1>3, <1>5, <2>1 DEF TakeKmReq
  <2>3. /\ SameSelf(u, v) /\ SameHs(u, v) /\ v.filter = u.filter /\ v.reject = u.reject
        /\ v.rcvKm = "badsecret" /\ v.sndKm = "badsecret" /\ v.kmMsg = u.kmMsg
    BY <2>1 DEF IsSocket, Members, SameSelf, SameHs
  <2>4. u.kmMsg = NoKey
    BY <1>5 DEF KmBefore, KmRead
  <2>5. KmRead(v, l, o)
    BY <1>5, <2>3, <2>4 DEF KmRead
  <2>6. QED
    BY <1>1, <1>3, <1>5, <2>2, <2>3, <2>5 DEF KmMade
<1>6. CASE l.key # NoKey /\ l.key = o.key
  <2>1. PICK v : v = [u EXCEPT !.rcvKm = "secured",
                               !.sndKm = IF @ = "securing" THEN "secured" ELSE @,
                               !.kmMsg = IF u.sndKm = "securing" THEN m.key ELSE @]
    OBVIOUS
  <2>2. t = [u |-> v, km |-> KmRsp(m.key)]
    BY <1>2, <1>3, <1>6, <2>1 DEF TakeKmReq
  <2>3. /\ SameSelf(u, v) /\ SameHs(u, v) /\ v.filter = u.filter /\ v.reject = u.reject
        /\ v.rcvKm = "secured"
        /\ v.sndKm = (IF u.sndKm = "securing" THEN "secured" ELSE u.sndKm)
        /\ v.kmMsg = (IF u.sndKm = "securing" THEN m.key ELSE u.kmMsg)
    BY <2>1 DEF IsSocket, Members, SameSelf, SameHs
  <2>4. u.sndKm = "securing" \/ (u.sndKm = "secured" /\ u.kmMsg = o.key)
    BY <1>6 DEF KmBefore, KmRead
  <2>5. v.sndKm = "secured" /\ v.kmMsg = o.key
    BY <1>2, <2>3, <2>4
  <2>6. KmRead(v, l, o)
    BY <1>6, <2>3, <2>5 DEF KmRead
  <2>7. QED
    BY <1>1, <1>2, <1>3, <1>6, <2>2, <2>3, <2>6 DEF KmMade
<1>7. QED
  BY <1>4, <1>5, <1>6

\* CCryptoControl::processSrtMsg_KMRSP: whatever the answer is, no direction is still being
\* secured.
LEMMA KmRspStage ==
  ASSUME NEW u, IsSocket(u), NEW m
  PROVE  LET v == TakeKmRsp(u, m) IN
         /\ SameSelf(u, v) /\ SameHs(u, v) /\ v.filter = u.filter /\ v.reject = u.reject /\ v.kmMsg = u.kmMsg
         /\ v.sndKm # "securing" /\ v.rcvKm # "securing"
<1>1. PICK p : p = IF m.state = "secured"
                   THEN IF KmRspRefused(u, m) THEN <<"badsecret", "badsecret">> ELSE <<"secured", "secured">>
                   ELSE IF m.state = "badsecret" THEN <<"badsecret", "badsecret">>
                   ELSE IF m.state = "nosecret" THEN <<"nosecret", "unsecured">>
                   ELSE <<"unsecured", "nosecret">>
  OBVIOUS
<1>2. p[1] # "securing" /\ p[2] # "securing"
  BY <1>1
<1>3. PICK v : v = [u EXCEPT !.sndKm = p[1], !.rcvKm = p[2]]
  OBVIOUS
<1>4. v = TakeKmRsp(u, m)
  BY <1>1, <1>3 DEF TakeKmRsp
<1>5. /\ SameSelf(u, v) /\ SameHs(u, v) /\ v.filter = u.filter /\ v.reject = u.reject /\ v.kmMsg = u.kmMsg
      /\ v.sndKm = p[1] /\ v.rcvKm = p[2]
  BY <1>3 DEF IsSocket, Members, SameSelf, SameHs
<1>6. QED
  BY <1>2, <1>4, <1>5

\* A refusal keeps what was read so far.
LEMMA RefusedIs ==
  ASSUME NEW u, IsSocket(u), NEW why
  PROVE  Failed(Reject(u, why)).ok = FALSE /\ SameAll(u, Failed(Reject(u, why)).u)
<1>1. PICK v : v = Reject(u, why)
  OBVIOUS
<1>2. SameAll(u, v)
  BY <1>1, Rejecting
<1>3. Failed(v).ok = FALSE /\ Failed(v).u = v
  BY DEF Failed
<1>4. QED
  BY <1>1, <1>2, <1>3

\* The key block and what follows, at the responder.
KeysKept(u, v, l, o) == (KmBefore(v) \/ KmRead(v, l, o)) /\ (KmRead(u, l, o) => KmRead(v, l, o))
LEMMA SameKeys ==
  ASSUME NEW l, NEW o, NEW u, NEW v, KmBefore(u) \/ KmRead(u, l, o), SameSelf(u, v), SameKm(u, v)
  PROVE  KeysKept(u, v, l, o)
<1>1. v.opt = u.opt /\ v.sndKm = u.sndKm /\ v.rcvKm = u.rcvKm /\ v.kmMsg = u.kmMsg
  BY DEF SameSelf, SameKm
<1>2. KmBefore(u) => KmBefore(v)
  BY <1>1 DEF KmBefore
<1>3. KmRead(u, l, o) => KmRead(v, l, o)
  BY <1>1 DEF KmRead
<1>4. QED
  BY <1>2, <1>3 DEF KeysKept

KmReply(l, o) == IF o.key = NoKey THEN NoKm ELSE KmMade(l, o)
KeysRead(l, o, u, ext, i) ==
    /\ SameSelf(u, i.u) /\ SameHs(u, i.u) /\ i.u.filter \in {u.filter, TakenFilter(u, ext.filter)}
    /\ KeysKept(u, i.u, l, o)
    /\ i.ok => /\ i.u.filter = TakenFilter(u, ext.filter) /\ KmRead(i.u, l, o) /\ i.km = KmReply(l, o)
               /\ ext.cc = "live" \/ ext.cc = l.cc
               /\ o.key # l.key => ~l.strict
LEMMA ResponderKeys ==
  ASSUME NEW l, NEW o, NEW u, IsSocket(u), u.reject = "unknown", u.opt = l, KmBefore(u) \/ KmRead(u, l, o),
         NEW ext, ext.km = KmAsked(o)
  PROVE  KeysRead(l, o, u, ext, InterpretKm(u, ext, TRUE))
<1>1. PICK i : i = InterpretKm(u, ext, TRUE)
  OBVIOUS
<1> SUFFICES KeysRead(l, o, u, ext, i)
  BY <1>1
<1> USE DEF KeysRead
<1>2. CASE o.key = NoKey
  <2>1. ext.km = NoKm
    BY <1>2 DEF KmAsked
  <2>2. i = InterpretConfig(u, ext, NoKm)
    BY <1>1, <2>1 DEF InterpretKm
  <2>3. ConfigLike(u, ext, i.u) /\ (i.ok => i.km = NoKm /\ ConfigTakes(u, ext, i.u))
    BY <2>2, ConfigStage
  <2>4. SameSelf(u, i.u) /\ SameHs(u, i.u) /\ i.u.filter \in {u.filter, TakenFilter(u, ext.filter)}
    BY <2>3 DEF ConfigLike
  <2>5. CASE SameKm(u, i.u)
    <3>1. KeysKept(u, i.u, l, o)
      BY <2>4, <2>5, SameKeys
    <3>2. ASSUME i.ok PROVE KmRead(i.u, l, o) /\ (o.key # l.key => ~l.strict)
      <4>1. CASE l.key = NoKey
        <5>1. KmBefore(i.u) => KmRead(i.u, l, o)
          BY <1>2, <2>4, <4>1 DEF KmBefore, KmRead, SameSelf
        <5>2. QED
          BY <1>2, <3>1, <4>1, <5>1 DEF KeysKept
      <4>2. CASE l.key # NoKey
        <5>1. Unanswered(u, ext)
          BY <2>1, <4>2 DEF Unanswered
        <5>2. ~u.opt.strict /\ Unkeyed(u, i.u)
          BY <2>3, <3>2, <5>1 DEF ConfigTakes
        <5>3. u.kmMsg = NoKey
          BY <1>2, <4>2 DEF KmBefore, KmRead
        <5>4. KmRead(i.u, l, o)
          BY <1>2, <4>2, <5>2, <5>3 DEF KmRead, Unkeyed
        <5>5. QED
          BY <5>2, <5>4
      <4>3. QED
        BY <4>1, <4>2
    <3>3. i.ok => i.km = KmReply(l, o) /\ i.u.filter = TakenFilter(u, ext.filter) /\ (ext.cc = "live" \/ ext.cc = l.cc)
      BY <1>2, <2>3 DEF KmReply, ConfigTakes
    <3>4. QED
      BY <1>1, <2>4, <3>1, <3>2, <3>3
  <2>6. CASE ~SameKm(u, i.u)
    <3>1. Unanswered(u, ext) /\ Unkeyed(u, i.u)
      BY <2>3, <2>6 DEF ConfigLike
    <3>2. l.key # NoKey
      BY <3>1 DEF Unanswered
    <3>3. u.kmMsg = NoKey
      BY <1>2, <3>2 DEF KmBefore, KmRead
    <3>4. KmRead(i.u, l, o)
      BY <1>2, <3>1, <3>2, <3>3 DEF KmRead, Unkeyed
    <3>5. KeysKept(u, i.u, l, o)
      BY <3>4 DEF KeysKept
    <3>6. i.ok => i.km = KmReply(l, o) /\ i.u.filter = TakenFilter(u, ext.filter) /\ (ext.cc = "live" \/ ext.cc = l.cc)
                  /\ ~l.strict
      BY <1>2, <2>3, <3>1 DEF KmReply, ConfigTakes
    <3>7. QED
      BY <1>1, <2>4, <3>4, <3>5, <3>6
  <2>7. QED
    BY <2>5, <2>6
<1>3. CASE o.key # NoKey
  <2>1. ext.km = KmReq(o.key) /\ ext.km # NoKm /\ ext.km.cmd = "kmreq"
    BY <1>3, KmTold DEF KmAsked
  <2>2. CASE l.key = NoKey /\ l.strict
    <3>1. i = Failed(Reject(u, "unsecure"))
      BY <1>1, <2>1, <2>2 DEF InterpretKm
    <3>2. ~i.ok /\ SameAll(u, i.u)
      BY <3>1, RefusedIs
    <3>3. KeysKept(u, i.u, l, o)
      BY <3>2, SameKeys DEF SameAll
    <3>4. QED
      BY <1>1, <3>2, <3>3 DEF SameAll
  <2>3. CASE ~(l.key = NoKey /\ l.strict)
    <3>1. PICK t : t = TakeKmReq(u, ext.km)
      OBVIOUS
    <3>2. PICK v : v = t.u
      OBVIOUS
    <3>3. /\ SameSelf(u, v) /\ SameHs(u, v) /\ v.filter = u.filter /\ v.reject = u.reject
          /\ KmRead(v, l, o) /\ t.km = KmMade(l, o)
      BY <1>3, <2>1, <3>1, <3>2, KmReqStage
    <3>4. IsSocket(v)
      BY <3>3 DEF SameSelf
    <3>5. CASE t.km.state # "secured" /\ l.strict
      <4>1. PICK why : why = IF v.rcvKm = "badsecret" THEN "badsecret" ELSE "unsecure"
        OBVIOUS
      <4>2. i = Failed(Reject(v, why))
        BY <1>1, <2>1, <2>3, <3>1, <3>2, <3>5, <4>1 DEF InterpretKm
      <4>3. ~i.ok /\ SameAll(v, i.u)
        BY <3>4, <4>2, RefusedIs
      <4>4. KmRead(i.u, l, o)
        BY <3>3, <4>3 DEF KmRead, SameAll, SameKm
      <4>5. SameSelf(u, i.u) /\ SameHs(u, i.u) /\ i.u.filter = u.filter
        BY <3>3, <4>3 DEF SameAll, SameSelf, SameHs
      <4>6. QED
        BY <1>1, <4>3, <4>4, <4>5 DEF KeysKept
    <3>6. CASE ~(t.km.state # "secured" /\ l.strict)
      <4>1. i = InterpretConfig(v, ext, t.km)
        BY <1>1, <2>1, <2>3, <3>1, <3>2, <3>6 DEF InterpretKm
      <4>2. ConfigLike(v, ext, i.u) /\ (i.ok => i.km = t.km /\ ConfigTakes(v, ext, i.u))
        BY <3>3, <3>4, <4>1, ConfigStage
      <4>3. SameSelf(v, i.u) /\ SameHs(v, i.u) /\ SameKm(v, i.u) /\ i.u.filter \in {v.filter, TakenFilter(v, ext.filter)}
        BY <2>1, <4>2 DEF ConfigLike, Unanswered
      <4>4. KmRead(i.u, l, o)
        BY <3>3, <4>3 DEF KmRead, SameKm
      <4>5. TakenFilter(v, ext.filter) = TakenFilter(u, ext.filter)
        BY <3>3 DEF TakenFilter
      <4>6. SameSelf(u, i.u) /\ SameHs(u, i.u) /\ i.u.filter \in {u.filter, TakenFilter(u, ext.filter)}
        BY <3>3, <4>3, <4>5 DEF SameSelf, SameHs
      <4>7. o.key # l.key => ~l.strict
        <5>1. o.key # l.key => t.km.state # "secured"
          BY <3>3, KmTold DEF KmMade
        <5>2. QED
          BY <3>6, <5>1
      <4>8. i.ok => i.km = KmReply(l, o) /\ i.u.filter = TakenFilter(u, ext.filter) /\ (ext.cc = "live" \/ ext.cc = l.cc)
        BY <1>3, <3>3, <4>2, <4>5 DEF KmReply, ConfigTakes, SameSelf
      <4>9. QED
        BY <1>1, <4>4, <4>6, <4>7, <4>8 DEF KeysKept
    <3>7. QED
      BY <3>5, <3>6
  <2>4. QED
    BY <2>2, <2>3
<1>4. QED
  BY <1>2, <1>3

\* The same at the initiator, for the answer that a responder gives.
LEMMA InitiatorKeys ==
  ASSUME NEW l, NEW o, NEW u, IsSocket(u), u.reject = "unknown", u.opt = o, KmOpen(u, o),
         NEW ext, ext.km = KmOf(l, o), NEW answering
  PROVE  LET i == InterpretKm(u, ext, answering) IN
         /\ SameSelf(u, i.u) /\ SameHs(u, i.u) /\ i.u.filter \in {u.filter, TakenFilter(u, ext.filter)}
         /\ KmOpen(i.u, o) /\ i.u.sndKm # "securing" /\ i.u.rcvKm # "securing"
         /\ i.ok => ext.filter \in {NoFilter, i.u.filter} /\ (ext.cc = "live" \/ ext.cc = o.cc)
<1>1. PICK i : i = InterpretKm(u, ext, answering)
  OBVIOUS
<1>2. CASE ext.km = NoKm
  <2>1. o.key = NoKey
    BY <1>2, KmTold DEF KmOf
  <2>2. i = InterpretConfig(u, ext, NoKm)
    BY <1>1, <1>2 DEF InterpretKm
  <2>3. ConfigLike(u, ext, i.u) /\ (i.ok => ConfigTakes(u, ext, i.u))
    BY <2>2, ConfigStage
  <2>4. SameSelf(u, i.u) /\ SameHs(u, i.u) /\ SameKm(u, i.u) /\ i.u.filter \in {u.filter, TakenFilter(u, ext.filter)}
    BY <2>1, <2>3 DEF ConfigLike, Unanswered
  <2>5. KmOpen(i.u, o) /\ i.u.sndKm # "securing" /\ i.u.rcvKm # "securing"
    BY <2>1, <2>4 DEF KmOpen, SameKm
  <2>6. i.ok => ext.filter \in {NoFilter, i.u.filter} /\ (ext.cc = "live" \/ ext.cc = o.cc)
    BY <2>3 DEF ConfigTakes
  <2>7. QED
    BY <1>1, <2>4, <2>5, <2>6
<1>3. CASE ext.km # NoKm
  <2>1. ext.km.cmd = "kmrsp"
    BY <1>3, KmTold DEF KmOf
  <2>2. ext.km.cmd # "kmreq"
    BY <2>1
  <2>3. CASE o.key = NoKey /\ o.strict
    <3>1. i = Failed(Reject(u, "unsecure"))
      BY <1>1, <1>3, <2>3 DEF InterpretKm
    <3>2. ~i.ok /\ SameAll(u, i.u)
      BY <3>1, RefusedIs
    <3>3. KmOpen(i.u, o) /\ i.u.sndKm # "securing" /\ i.u.rcvKm # "securing"
      BY <2>3, <3>2 DEF KmOpen, SameAll, SameKm
    <3>4. QED
      BY <1>1, <3>2, <3>3 DEF SameAll
  <2>4. CASE ~(o.key = NoKey /\ o.strict)
    <3>1. PICK v : v = TakeKmRsp(u, ext.km)
      OBVIOUS
    <3>2. /\ SameSelf(u, v) /\ SameHs(u, v) /\ v.filter = u.filter /\ v.reject = u.reject /\ v.kmMsg = u.kmMsg
          /\ v.sndKm # "securing" /\ v.rcvKm # "securing"
      BY <3>1, KmRspStage
    <3>3. IsSocket(v)
      BY <3>2 DEF SameSelf
    <3>4. CASE KmRspRefused(u, ext.km) /\ o.strict
      <4>1. i = Failed(Reject(v, "unsecure"))
        BY <1>1, <1>3, <2>2, <2>4, <3>1, <3>4 DEF InterpretKm
      <4>2. ~i.ok /\ SameAll(v, i.u)
        BY <3>3, <4>1, RefusedIs
      <4>3. KmOpen(i.u, o) /\ i.u.sndKm # "securing" /\ i.u.rcvKm # "securing"
        BY <3>2, <4>2 DEF KmOpen, SameAll, SameKm
      <4>4. SameSelf(u, i.u) /\ SameHs(u, i.u) /\ i.u.filter = u.filter
        BY <3>2, <4>2 DEF SameAll, SameSelf, SameHs
      <4>5. QED
        BY <1>1, <4>2, <4>3, <4>4
    <3>5. CASE ~(KmRspRefused(u, ext.km) /\ o.strict)
      <4>1. i = InterpretConfig(v, ext, NoKm)
        BY <1>1, <1>3, <2>2, <2>4, <3>1, <3>5 DEF InterpretKm
      <4>2. ConfigLike(v, ext, i.u) /\ (i.ok => ConfigTakes(v, ext, i.u))
        BY <3>2, <3>3, <4>1, ConfigStage
      <4>3. SameSelf(v, i.u) /\ SameHs(v, i.u) /\ SameKm(v, i.u) /\ i.u.filter \in {v.filter, TakenFilter(v, ext.filter)}
        BY <1>3, <4>2 DEF ConfigLike, Unanswered
      <4>4. KmOpen(i.u, o) /\ i.u.sndKm # "securing" /\ i.u.rcvKm # "securing"
        BY <3>2, <4>3 DEF KmOpen, SameKm
      <4>5. TakenFilter(v, ext.filter) = TakenFilter(u, ext.filter)
        BY <3>2 DEF TakenFilter
      <4>6. SameSelf(u, i.u) /\ SameHs(u, i.u) /\ i.u.filter \in {u.filter, TakenFilter(u, ext.filter)}
        BY <3>2, <4>3, <4>5 DEF SameSelf, SameHs
      <4>7. i.ok => ext.filter \in {NoFilter, i.u.filter} /\ (ext.cc = "live" \/ ext.cc = o.cc)
        BY <3>2, <4>2, <4>5 DEF ConfigTakes, SameSelf
      <4>8. QED
        BY <1>1, <4>4, <4>6, <4>7
    <3>6. QED
      BY <3>4, <3>5
  <2>5. QED
    BY <2>3, <2>4
<1>4. QED
  BY <1>2, <1>3


-----------------------------------------------------------------------------
(* interpretSrtHandshake as a whole.                                       *)

\* It begins with no reason to reject, and ends with the key block unless the first block
\* was refused.
LEMMA InterpretIs ==
  ASSUME NEW u0, IsSocket(u0), NEW ext, ext # NoExt, NEW answering
  PROVE  \E u : /\ SameAll(u0, u) /\ u.reject = "unknown"
                /\ Interpret(u0, ext, answering) = IF Rejected(TakeHs(u, ext.hs)) THEN Failed(TakeHs(u, ext.hs))
                                                   ELSE InterpretKm(TakeHs(u, ext.hs), ext, answering)
<1>1. PICK u : u = [u0 EXCEPT !.reject = "unknown"]
  OBVIOUS
<1>2. u = Reject(u0, "unknown")
  BY <1>1 DEF Reject
<1>3. SameAll(u0, u) /\ u.reject = "unknown"
  BY <1>2, Rejecting
<1>4. Interpret(u0, ext, answering) = IF Rejected(TakeHs(u, ext.hs)) THEN Failed(TakeHs(u, ext.hs))
                                      ELSE InterpretKm(TakeHs(u, ext.hs), ext, answering)
  BY <1>1 DEF Interpret
<1>5. WITNESS u
<1>6. QED
  BY <1>3, <1>4

\* A handshake without blocks is refused, and nothing is read.
LEMMA NothingRead ==
  ASSUME NEW u, IsSocket(u), NEW answering
  PROVE  LET i == Interpret(u, NoExt, answering) IN i.ok = FALSE /\ SameAll(u, i.u)
<1>1. PICK v : v = [u EXCEPT !.reject = "unknown"]
  OBVIOUS
<1>2. v = Reject(u, "unknown")
  BY <1>1 DEF Reject
<1>3. SameAll(u, v)
  BY <1>2, Rejecting
<1>4. Interpret(u, NoExt, answering) = Failed(Reject(v, "rogue"))
  BY <1>1 DEF Interpret
<1>5. IsSocket(v)
  BY <1>3 DEF SameAll, SameSelf
<1>6. Failed(Reject(v, "rogue")).ok = FALSE /\ SameAll(v, Failed(Reject(v, "rogue")).u)
  BY <1>5, RefusedIs
<1>7. PICK i : i = Interpret(u, NoExt, answering)
  OBVIOUS
<1>8. i.ok = FALSE /\ SameAll(v, i.u)
  BY <1>4, <1>6, <1>7
<1>9. SameAll(u, i.u)
  BY <1>3, <1>8, SameTwice
<1>10. QED
  BY <1>7, <1>8, <1>9

\* A filter that was taken over is not changed by the same offer.
LEMMA FilterAgain ==
  ASSUME NEW l, NEW o, NEW u, u.filter \in {l.filter, FilterOf(l, o)}
  PROVE  TakenFilter(u, o.filter) = FilterOf(l, o)
  BY DEF TakenFilter, FilterOf

\* What was settled stays so when nothing that it speaks of changes.
LEMMA AnswersSame ==
  ASSUME NEW l, NEW o, NEW u, NEW v, SameAll(u, v)
  PROVE  /\ Answers(u, l, o) => Answers(v, l, o)
         /\ Answered(u, l, o) => Answered(v, l, o)
<1>1. /\ v.opt = u.opt /\ v.tsbpd = u.tsbpd /\ v.filter = u.filter
      /\ v.rcvDelay = u.rcvDelay /\ v.sndDelay = u.sndDelay /\ v.started = u.started
      /\ v.peerTsbpd = u.peerTsbpd /\ v.peerNak = u.peerNak
      /\ v.sndKm = u.sndKm /\ v.rcvKm = u.rcvKm /\ v.kmMsg = u.kmMsg
  BY DEF SameAll, SameSelf, SameHs, SameKm
<1>2. (KmBefore(u) => KmBefore(v)) /\ (KmRead(u, l, o) => KmRead(v, l, o))
  BY <1>1 DEF KmBefore, KmRead
<1>3. Answers(u, l, o) => Answers(v, l, o)
  BY <1>1, <1>2 DEF Answers
<1>4. HsRead(u, l, o) => HsRead(v, l, o)
  BY <1>1 DEF HsRead
<1>5. QED
  BY <1>1, <1>2, <1>3, <1>4 DEF Answered

\* The responder and the request: read without error, it settles everything; and what was
\* settled before stays, whatever comes of reading it again.
LEMMA ResponderReads ==
  ASSUME NEW l, NEW o, IsOptions(o), NEW u0, IsSocket(u0), Answers(u0, l, o), NEW ext, IsReq(ext, o)
  PROVE  LET i == Interpret(u0, ext, TRUE) IN
         /\ SameSelf(u0, i.u) /\ Answers(i.u, l, o)
         /\ Answered(u0, l, o) => Answered(i.u, l, o)
         /\ i.ok => Answered(i.u, l, o) /\ i.km = KmReply(l, o)
<1>1. ext # NoExt /\ ext.km = KmAsked(o) /\ ext.cc = o.cc /\ ext.filter = o.filter
  BY DEF IsReq
<1>2. PICK i : i = Interpret(u0, ext, TRUE)
  OBVIOUS
<1>3. PICK u : /\ SameAll(u0, u) /\ u.reject = "unknown"
               /\ Interpret(u0, ext, TRUE) = IF Rejected(TakeHs(u, ext.hs)) THEN Failed(TakeHs(u, ext.hs))
                                             ELSE InterpretKm(TakeHs(u, ext.hs), ext, TRUE)
  BY <1>1, InterpretIs
<1>4. PICK v : v = TakeHs(u, ext.hs)
  OBVIOUS
<1>5. IsSocket(u) /\ Answers(u, l, o) /\ (Answered(u0, l, o) => Answered(u, l, o))
  BY <1>3, AnswersSame DEF SameAll, SameSelf
<1>6. /\ SameSelf(u, v) /\ SameKm(u, v) /\ v.filter = u.filter
      /\ Rejected(v) => SameHs(u, v)
      /\ ~Rejected(v) => v.reject = "unknown" /\ HsRead(v, l, o) /\ o.msg = l.msg
  BY <1>3, <1>4, <1>5, HsReqStage
<1>7. CASE Rejected(v)
  <2>1. i = Failed(v)
    BY <1>2, <1>3, <1>4, <1>7
  <2>2. i.ok = FALSE /\ i.u = v
    BY <2>1 DEF Failed
  <2>3. SameAll(u, v)
    BY <1>6, <1>7 DEF SameAll
  <2>4. SameAll(u0, v)
    BY <1>3, <2>3, SameTwice
  <2>5. Answers(v, l, o) /\ (Answered(u0, l, o) => Answered(v, l, o))
    BY <2>4, AnswersSame
  <2>6. QED
    BY <1>2, <2>2, <2>4, <2>5 DEF SameAll
<1>8. CASE ~Rejected(v)
  <2>1. i = InterpretKm(v, ext, TRUE)
    BY <1>2, <1>3, <1>4, <1>8
  <2>2. IsSocket(v) /\ v.opt = l /\ v.reject = "unknown"
    BY <1>5, <1>6, <1>8 DEF SameSelf, Answers
  <2>3. KmBefore(v) \/ KmRead(v, l, o)
    BY <1>5, <1>6, SameKeys DEF KeysKept, Answers
  <2>4. /\ SameSelf(v, i.u) /\ SameHs(v, i.u) /\ i.u.filter \in {v.filter, TakenFilter(v, ext.filter)}
        /\ KeysKept(v, i.u, l, o)
        /\ i.ok => /\ i.u.filter = TakenFilter(v, ext.filter) /\ KmRead(i.u, l, o) /\ i.km = KmReply(l, o)
                   /\ ext.cc = "live" \/ ext.cc = l.cc
                   /\ o.key # l.key => ~l.strict
    <3>1. KeysRead(l, o, v, ext, i)
      BY <1>1, <2>1, <2>2, <2>3, ResponderKeys
    <3>2. QED
      BY <3>1 DEF KeysRead
  <2>5. v.filter \in {l.filter, FilterOf(l, o)}
    BY <1>5, <1>6 DEF Answers
  <2>6. TakenFilter(v, ext.filter) = FilterOf(l, o)
    BY <1>1, <2>5, FilterAgain
  <2>7. i.u.filter \in {l.filter, FilterOf(l, o)}
    BY <2>4, <2>5, <2>6
  <2>8. HsRead(v, l, o) /\ o.msg = l.msg
    BY <1>6, <1>8
  <2>9. HsRead(i.u, l, o)
    BY <2>4, <2>8 DEF HsRead, SameHs
  <2>10. SameSelf(u0, i.u)
    BY <1>3, <1>6, <2>4 DEF SameAll, SameSelf
  <2>11. i.u.opt = l /\ i.u.tsbpd = l.tsbpd
    BY <1>5, <1>6, <2>4 DEF SameSelf, Answers
  <2>12. KmBefore(i.u) \/ KmRead(i.u, l, o)
    BY <2>4 DEF KeysKept
  <2>13. Answers(i.u, l, o)
    BY <2>7, <2>9, <2>11, <2>12 DEF Answers, HsRead
  <2>14. ASSUME i.ok PROVE Answered(i.u, l, o) /\ i.km = KmReply(l, o)
    <3>1. Accepts(l, o)
      BY <1>1, <2>4, <2>8, <2>14 DEF Accepts
    <3>2. i.u.filter = FilterOf(l, o) /\ KmRead(i.u, l, o)
      BY <2>4, <2>6, <2>14
    <3>3. QED
      BY <2>4, <2>9, <2>13, <2>14, <3>1, <3>2 DEF Answered
  <2>15. ASSUME Answered(u0, l, o) PROVE Answered(i.u, l, o)
    <3>1. Accepts(l, o) /\ KmRead(u, l, o) /\ u.filter = FilterOf(l, o)
      BY <1>5, <2>15 DEF Answered
    <3>2. KmRead(v, l, o)
      BY <1>6, <3>1 DEF KmRead, SameKm
    <3>3. KmRead(i.u, l, o)
      BY <2>4, <3>2 DEF KeysKept
    <3>4. i.u.filter = FilterOf(l, o)
      BY <1>6, <2>4, <2>6, <3>1
    <3>5. QED
      BY <2>9, <2>13, <3>1, <3>3, <3>4 DEF Answered
  <2>16. QED
    BY <1>2, <2>10, <2>13, <2>14, <2>15
<1>9. QED
  BY <1>7, <1>8

\* The initiator and the response: it has heard the responder whatever comes of it, and
\* all of it when the response is not refused.
LEMMA InitiatorReads ==
  ASSUME NEW l, NEW o, IsOptions(l), NEW u0, IsSocket(u0), Asks(u0, l, o), NEW ext, IsRsp(ext, l, o),
         NEW answering
  PROVE  LET i == Interpret(u0, ext, answering) IN
         /\ SameSelf(u0, i.u) /\ Heard(i.u, l, o)
         /\ i.ok => AllHeard(i.u, l, o)
         /\ AllHeard(u0, l, o) => AllHeard(i.u, l, o)
<1>1. ext # NoExt /\ ext.km = KmOf(l, o) /\ ext.cc = l.cc /\ ext.filter = FilterOf(l, o)
  BY DEF IsRsp
<1>2. PICK i : i = Interpret(u0, ext, answering)
  OBVIOUS
<1>3. PICK u : /\ SameAll(u0, u) /\ u.reject = "unknown"
               /\ Interpret(u0, ext, answering) = IF Rejected(TakeHs(u, ext.hs)) THEN Failed(TakeHs(u, ext.hs))
                                                  ELSE InterpretKm(TakeHs(u, ext.hs), ext, answering)
  BY <1>1, InterpretIs
<1>4. PICK v : v = TakeHs(u, ext.hs)
  OBVIOUS
<1>5. IsSocket(u) /\ SameSelf(u0, u) /\ u.filter = u0.filter
  BY <1>3 DEF SameAll, SameSelf
<1>6. Asks(u, l, o)
  BY <1>3 DEF SameAll, SameSelf, SameHs, SameKm, Asks, KmOpen
<1>7. SameSelf(u, v) /\ SameKm(u, v) /\ v.filter = u.filter /\ v.reject = "unknown" /\ HsHeard(v, l, o)
  BY <1>3, <1>4, <1>5, <1>6, HsRspStage
<1>8. i = InterpretKm(v, ext, answering)
  BY <1>2, <1>3, <1>4, <1>7 DEF Rejected
<1>9. IsSocket(v) /\ v.opt = o /\ KmOpen(v, o)
  BY <1>6, <1>7 DEF SameSelf, SameKm, Asks, KmOpen
<1>10. /\ SameSelf(v, i.u) /\ SameHs(v, i.u) /\ i.u.filter \in {v.filter, TakenFilter(v, ext.filter)}
       /\ KmOpen(i.u, o) /\ i.u.sndKm # "securing" /\ i.u.rcvKm # "securing"
       /\ i.ok => ext.filter \in {NoFilter, i.u.filter} /\ (ext.cc = "live" \/ ext.cc = o.cc)
  BY <1>1, <1>7, <1>8, <1>9, InitiatorKeys
<1>11. u.filter \in {o.filter, FilterOf(l, o)}
  BY <1>6 DEF Asks
<1>12. TakenFilter(v, ext.filter) \in {o.filter, FilterOf(l, o)}
  BY <1>1, <1>7, <1>11 DEF TakenFilter
<1>13. i.u.filter \in {o.filter, FilterOf(l, o)}
  BY <1>7, <1>10, <1>11, <1>12
<1>14. HsHeard(i.u, l, o)
  BY <1>7, <1>10 DEF HsHeard, SameHs
<1>15. SameSelf(u0, i.u)
  BY <1>5, <1>7, <1>10 DEF SameSelf
<1>16. i.u.opt = o /\ i.u.tsbpd = o.tsbpd
  BY <1>6, <1>7, <1>10 DEF SameSelf, Asks
<1>17. Heard(i.u, l, o)
  <2>1. Asks(i.u, l, o)
    BY <1>10, <1>13, <1>14, <1>16 DEF Asks, HsHeard
  <2>2. QED
    BY <1>10, <1>14, <2>1 DEF Heard
<1>18. ASSUME i.ok PROVE AllHeard(i.u, l, o)
  <2>1. FilterOf(l, o) \in {NoFilter, i.u.filter} /\ (l.cc = "live" \/ l.cc = o.cc)
    BY <1>1, <1>10, <1>18
  <2>2. FilterOf(l, o) = NoFilter => o.filter = NoFilter
    BY DEF FilterOf
  <2>3. i.u.filter = FilterOf(l, o)
    BY <1>13, <2>1, <2>2
  <2>4. QED
    BY <2>1, <2>3 DEF AllHeard
<1>19. ASSUME AllHeard(u0, l, o) PROVE AllHeard(i.u, l, o)
  <2>1. v.filter = FilterOf(l, o) /\ (l.cc = "live" \/ l.cc = o.cc)
    BY <1>5, <1>7, <1>19 DEF AllHeard
  <2>2. TakenFilter(v, ext.filter) = FilterOf(l, o)
    BY <1>1, <2>1 DEF TakenFilter
  <2>3. QED
    BY <1>10, <2>1, <2>2 DEF AllHeard
<1>20. QED
  BY <1>2, <1>15, <1>17, <1>18, <1>19

-----------------------------------------------------------------------------
(* What the sides put into their handshakes, and what they work with then.  *)

\* As opened, but for the side that the contest gives.
Fresh(u) ==
    /\ u.crypter = FALSE /\ u.tsbpd = u.opt.tsbpd /\ u.peerTsbpd = FALSE /\ u.peerNak = FALSE
    /\ u.filter = u.opt.filter /\ u.started = FALSE
    /\ u.sndKm = "unsecured" /\ u.rcvKm = "unsecured" /\ u.kmMsg = NoKey

\* CUDT::createCrypter of a socket that has none: the responder waits for a request, and
\* the initiator has the key to ask with.
Crypted(u, side, v) ==
    /\ IsSocket(v) /\ v.opt = u.opt /\ v.side = side /\ v.crypter = TRUE
    /\ v.started = FALSE /\ v.filter = u.opt.filter
    /\ side = "responder" => \A o : Answers(v, u.opt, o)
    /\ side = "initiator" => \A l : Asks(v, l, u.opt)
LEMMA CrypterMade ==
  ASSUME NEW u, IsSocket(u), Fresh(u), NEW side
  PROVE  Crypted(u, side, CreateCrypter(u, side))
<1>1. PICK v : v = [u EXCEPT !.crypter = TRUE, !.side = side,
                             !.sndKm = IF u.opt.key = NoKey THEN "unsecured" ELSE "securing",
                             !.kmMsg = IF side = "initiator" THEN u.opt.key ELSE NoKey]
  OBVIOUS
<1>2. CreateCrypter(u, side) = v
  BY <1>1 DEF CreateCrypter, Fresh
<1>3. /\ IsSocket(v) /\ v.opt = u.opt /\ v.side = side /\ v.crypter = TRUE /\ v.tsbpd = u.tsbpd
      /\ v.started = u.started /\ v.filter = u.filter /\ v.peerTsbpd = u.peerTsbpd /\ v.peerNak = u.peerNak
      /\ v.sndKm = (IF u.opt.key = NoKey THEN "unsecured" ELSE "securing") /\ v.rcvKm = u.rcvKm
      /\ v.kmMsg = (IF side = "initiator" THEN u.opt.key ELSE NoKey)
  BY <1>1 DEF IsSocket, Members
<1>4. /\ v.started = FALSE /\ v.filter = u.opt.filter /\ v.tsbpd = u.opt.tsbpd
      /\ v.peerTsbpd = FALSE /\ v.peerNak = FALSE /\ v.rcvKm = "unsecured"
  BY <1>3 DEF Fresh
<1>5. ASSUME side = "responder", NEW o PROVE Answers(v, u.opt, o)
  <2>1. v.kmMsg = NoKey
    BY <1>3, <1>5
  <2>2. KmBefore(v)
    BY <1>3, <1>4, <2>1 DEF KmBefore
  <2>3. QED
    BY <1>3, <1>4, <2>2 DEF Answers
<1>6. ASSUME side = "initiator", NEW l PROVE Asks(v, l, u.opt)
  <2>1. KmOpen(v, u.opt)
    BY <1>3, <1>4, <1>6 DEF KmOpen
  <2>2. QED
    BY <1>3, <1>4, <2>1 DEF Asks
<1>7. Crypted(u, side, v)
  BY <1>3, <1>4, <1>5, <1>6 DEF Crypted
<1>8. QED
  BY <1>2, <1>7

\* CUDT::createSrtHandshake of a request: the initiator's options, as often as it is made.
RequestIs(l, o, u, r) ==
    /\ r.ok = TRUE /\ IsReq(r.ext, o)
    /\ SameSelf(u, r.u) /\ Asks(r.u, l, o) /\ r.u.filter = o.filter /\ r.u.started = u.started
LEMMA RequestMade ==
  ASSUME NEW l, NEW o, NEW u, IsSocket(u), u.side = "initiator", Asks(u, l, o), u.filter = o.filter
  PROVE  RequestIs(l, o, u, CreateReq(u))
<1>1. u.opt = o /\ u.tsbpd = o.tsbpd /\ u.kmMsg = o.key
  BY DEF Asks, KmOpen
<1>2. PICK v : v = AnnounceOptions(u)
  OBVIOUS
<1>3. /\ SameSelf(u, v) /\ SameKm(u, v) /\ v.filter = u.filter /\ v.started = u.started
      /\ v.peerTsbpd = u.peerTsbpd /\ v.peerNak = u.peerNak
  <2>1. CASE ~o.tsbpd
    <3>1. v = u
      BY <1>1, <1>2, <2>1 DEF AnnounceOptions
    <3>2. QED
      BY <3>1, SameOnce DEF SameAll, SameHs
  <2>2. CASE o.tsbpd
    <3>1. v = [u EXCEPT !.rcvDelay = u.opt.rcv, !.sndDelay = u.opt.snd, !.tsbpd = TRUE]
      BY <1>1, <1>2, <2>2 DEF AnnounceOptions
    <3>2. /\ IsSocket(v) /\ v.opt = u.opt /\ v.side = u.side /\ v.crypter = u.crypter /\ v.tsbpd = TRUE
          /\ SameKm(u, v) /\ v.filter = u.filter /\ v.started = u.started
          /\ v.peerTsbpd = u.peerTsbpd /\ v.peerNak = u.peerNak
      BY <3>1 DEF IsSocket, Members, SameKm
    <3>3. v.tsbpd = u.tsbpd
      BY <1>1, <2>2, <3>2, Zenon
    <3>4. QED
      BY <3>2, <3>3 DEF SameSelf
  <2>3. QED
    BY <2>1, <2>2
<1>4. PICK e : e = [hs |-> HsReq(u), km |-> IF u.opt.key = NoKey THEN NoKm ELSE KmReq(u.kmMsg),
                    cc |-> u.opt.cc, filter |-> u.filter]
  OBVIOUS
<1>5. CreateReq(u) = [ok |-> TRUE, u |-> v, ext |-> e]
  BY <1>1, <1>2, <1>4 DEF CreateReq
<1>6. IsReq(e, o)
  <2>1. /\ e.hs = HsReq(u) /\ e.km = (IF u.opt.key = NoKey THEN NoKm ELSE KmReq(u.kmMsg))
        /\ e.cc = u.opt.cc /\ e.filter = u.filter /\ e # NoExt
    BY <1>4 DEF NoExt
  <2>2. PICK h : h = HsReq(u)
    OBVIOUS
  <2>3. /\ h.cmd = "hsreq" /\ h.tsbpdSnd = o.tsbpd /\ h.tsbpdRcv = o.tsbpd
        /\ o.tsbpd => h.snd = o.snd /\ h.rcv = o.rcv
        /\ h.nak = o.nak /\ h.msg = o.msg
    BY <1>1, <2>2 DEF HsReq
  <2>4. e.km = KmAsked(o)
    BY <1>1, <2>1 DEF KmAsked
  <2>5. QED
    BY <1>1, <2>1, <2>2, <2>3, <2>4 DEF IsReq
<1>7. Asks(v, l, o)
  BY <1>1, <1>3 DEF Asks, KmOpen, SameSelf, SameKm
<1>8. PICK r : r = CreateReq(u)
  OBVIOUS
<1>9. r.ok = TRUE /\ r.u = v /\ r.ext = e
  BY <1>5, <1>8
<1>10. RequestIs(l, o, u, r)
  BY <1>3, <1>6, <1>7, <1>9 DEF RequestIs
<1>11. QED
  BY <1>8, <1>10

\* A responder that would repeat its answer as a request fails.
LEMMA RequestRefused ==
  ASSUME NEW u, IsSocket(u), u.side = "responder"
  PROVE  LET r == CreateReq(u) IN r.ok = FALSE /\ SameAll(u, r.u)
<1>1. PICK v : v = Reject(u, "ipe")
  OBVIOUS
<1>2. CreateReq(u) = [ok |-> FALSE, u |-> v, ext |-> NoExt]
  BY <1>1 DEF CreateReq
<1>3. SameAll(u, v)
  BY <1>1, Rejecting
<1>4. QED
  BY <1>2, <1>3

\* CUDT::createSrtHandshake of the response, by a responder that has read the request.
LEMMA ResponseMade ==
  ASSUME NEW l, NEW o, NEW u, IsSocket(u), Answered(u, l, o)
  PROVE  LET r == CreateRsp(u, KmReply(l, o)) IN IsRsp(r.ext, l, o) /\ SameAll(u, r.u)
<1>1. /\ u.opt = l /\ u.tsbpd = l.tsbpd /\ u.started = TRUE /\ u.filter = FilterOf(l, o) /\ KmRead(u, l, o)
      /\ u.rcvDelay = RcvDelayOf(l, o) /\ u.sndDelay = SndDelayOf(l, o) /\ u.peerTsbpd = o.tsbpd
  BY DEF Answered, Answers, HsRead
<1>2. PICK km : km = KmReply(l, o)
  OBVIOUS
<1>3. km = NoKm <=> o.key = NoKey
  BY <1>2, KmTold DEF KmReply, KmMade
<1>4. PICK silent \in BOOLEAN : silent <=> (o.key = NoKey /\ l.key # NoKey)
  OBVIOUS
<1>5. PICK v : v = IF silent THEN [u EXCEPT !.sndKm = "nosecret", !.rcvKm = "unsecured"] ELSE u
  OBVIOUS
<1>6. PICK e : e = [hs |-> HsRsp(u), km |-> IF silent THEN KmFail("unsecured") ELSE km,
                    cc |-> u.opt.cc, filter |-> u.filter]
  OBVIOUS
<1>7. CreateRsp(u, km) = [ok |-> TRUE, u |-> v, ext |-> e]
  BY <1>1, <1>3, <1>4, <1>5, <1>6 DEF CreateRsp
<1>8. SameAll(u, v)
  <2>1. CASE ~silent
    BY <1>5, <2>1, SameOnce
  <2>2. CASE silent
    <3>1. v = [u EXCEPT !.sndKm = "nosecret", !.rcvKm = "unsecured"]
      BY <1>5, <2>2
    <3>2. u.sndKm = "nosecret" /\ u.rcvKm = "unsecured"
      BY <1>1, <1>4, <2>2 DEF KmRead
    <3>3. SameSelf(u, v) /\ SameHs(u, v) /\ v.filter = u.filter /\ v.kmMsg = u.kmMsg
          /\ v.sndKm = "nosecret" /\ v.rcvKm = "unsecured"
      BY <3>1 DEF IsSocket, Members, SameSelf, SameHs
    <3>4. QED
      BY <3>2, <3>3 DEF SameAll, SameKm
  <2>3. QED
    BY <2>1, <2>2
<1>9. IsRsp(e, l, o)
  <2>1. /\ e.hs = HsRsp(u) /\ e.km = (IF silent THEN KmFail("unsecured") ELSE km)
        /\ e.cc = u.opt.cc /\ e.filter = u.filter /\ e # NoExt
    BY <1>6 DEF NoExt
  <2>2. PICK h : h = HsRsp(u)
    OBVIOUS
  <2>3. /\ h.cmd = "hsrsp" /\ h.tsbpdSnd = o.tsbpd /\ h.tsbpdRcv = l.tsbpd
        /\ o.tsbpd => h.snd = SndDelayOf(l, o)
        /\ l.tsbpd => h.rcv = RcvDelayOf(l, o)
        /\ h.nak = l.nak
    BY <1>1, <2>2 DEF HsRsp
  <2>4. e.km = KmOf(l, o)
    BY <1>2, <1>4, <2>1 DEF KmOf, KmReply, KmMade
  <2>5. QED
    BY <1>1, <2>1, <2>2, <2>3, <2>4 DEF IsRsp
<1>10. QED
  BY <1>2, <1>7, <1>8, <1>9

\* The settings agree once the request is answered and the response not refused, seen from
\* either side.
LEMMA SettingsSettled ==
  ASSUME NEW l, NEW o, IsOptions(l), IsOptions(o), NEW b, Answered(b, l, o),
         NEW a, Heard(a, l, o), AllHeard(a, l, o)
  PROVE  SettingsAgree(a, b) /\ SettingsAgree(b, a)
<1>1. /\ b.opt = l /\ b.tsbpd = l.tsbpd /\ b.filter = FilterOf(l, o) /\ Accepts(l, o)
      /\ b.rcvDelay = RcvDelayOf(l, o) /\ b.sndDelay = SndDelayOf(l, o)
      /\ b.peerTsbpd = o.tsbpd /\ b.peerNak = o.nak
  BY DEF Answered, Answers, HsRead
<1>2. /\ a.opt = o /\ a.tsbpd = o.tsbpd /\ a.peerTsbpd = l.tsbpd /\ a.peerNak = l.nak
      /\ o.tsbpd => a.rcvDelay = SndDelayOf(l, o)
      /\ l.tsbpd => a.sndDelay = RcvDelayOf(l, o)
      /\ a.filter = FilterOf(l, o) /\ (l.cc = "live" \/ l.cc = o.cc)
  BY DEF Heard, Asks, HsHeard, AllHeard
<1>3. l.rcv \in Nat /\ l.snd \in Nat /\ o.rcv \in Nat /\ o.snd \in Nat
  BY DEF IsOptions
<1>4. l.tsbpd => RcvDelayOf(l, o) >= l.rcv
  BY <1>3, LargerOfTwo DEF RcvDelayOf
<1>5. o.tsbpd => SndDelayOf(l, o) >= o.rcv
  BY <1>3, LargerOfTwo DEF SndDelayOf
<1>6. DelaysAgree(a, b)
  BY <1>1, <1>2, <1>5 DEF DelaysAgree
<1>7. DelaysAgree(b, a)
  BY <1>1, <1>2, <1>4 DEF DelaysAgree
<1>8. o.msg = l.msg /\ o.cc = l.cc
  BY <1>1, <1>2 DEF Accepts
<1>9. QED
  BY <1>1, <1>2, <1>6, <1>7, <1>8 DEF SettingsAgree

\* A responder that enforces encryption has answered only the same passphrase.
LEMMA PassphraseShared ==
  ASSUME NEW l, NEW o, NEW b, Answered(b, l, o), NEW a, a.opt = o
  PROVE  Enforced(b, a)
<1>1. b.opt = l /\ KmRead(b, l, o) /\ (o.key # l.key => ~l.strict)
  BY DEF Answered, Answers, Accepts
<1>2. QED
  BY <1>1 DEF Enforced, KmRead

\* Who has answered has read the peer's blocks, and its key state is settled.
LEMMA AnswerPrepares ==
  ASSUME NEW l, NEW o, NEW b, Answered(b, l, o)
  PROVE  b.started = TRUE /\ b.sndKm # "securing" /\ b.rcvKm # "securing"
<1>1. KmRead(b, l, o) /\ b.started = TRUE
  BY DEF Answered, HsRead
<1>2. QED
  BY <1>1 DEF KmRead

-----------------------------------------------------------------------------
(* The two sides.  a and b are the roles that the cookies give to a side and *)
(* to its peer; x and y are what they know.                                *)

Fields == {"u", "status", "rdv", "type", "ext", "res", "pkt", "known", "mine"}
IsSide(x) == x = [f \in Fields |-> x[f]]

Reached(x) == x.status \in {"connected", "broken"}
HasAnswered(a, b, x, y) ==
    /\ a = "responder" /\ b = "initiator" /\ y.u.crypter = TRUE
    /\ x.u.side = "responder" /\ Answered(x.u, x.u.opt, y.u.opt)

\* A packet that the side may have sent.  Blocks come with a conclusion only: a request
\* from the initiator, a response from a responder that has read the request.
IsFrom(a, b, x, y, m) ==
    /\ m = Msg(m.to, m.type, m.ext)
    /\ m.ext # NoExt => /\ m.type = "concl"
                        /\ \/ a = "initiator" /\ x.u.crypter = TRUE /\ IsReq(m.ext, x.u.opt)
                           \/ HasAnswered(a, b, x, y) /\ IsRsp(m.ext, x.u.opt, y.u.opt)
    /\ m.type \in {"agree", "data"} => Reached(x)

\* The socket u, for a peer with options p.
Well(a, u, p) ==
    /\ IsSocket(u) /\ IsOptions(u.opt) /\ u.side \in {"draw", a}
    /\ \/ u.crypter = FALSE /\ Fresh(u)
       \/ u.crypter = TRUE /\ u.side = a /\ a # "draw"
    /\ u.crypter = TRUE /\ a = "responder" => Answers(u, u.opt, p)
Asking(a, u, p) == a = "initiator" => Asks(u, p, u.opt) /\ u.filter = u.opt.filter

\* While it tries: a responder beyond "attention" has read the request, and an initiator
\* has read nothing.  The last packet, if it was this socket's, had blocks if any were read.
Stands(a, b, x, y) ==
    /\ x.type \in {"wave", "concl"} /\ x.ext \in BOOLEAN /\ x.mine \in BOOLEAN
    /\ x.rdv \in {"waving", "attention", "fine", "initiated"}
    /\ x.ext = TRUE => x.type = "concl" /\ x.u.crypter = TRUE
    /\ x.u.crypter = TRUE => x.rdv # "waving" /\ Asking(a, x.u, y.u.opt)
    /\ a = "initiator" => x.rdv # "initiated"
    /\ \/ x.u.started = TRUE /\ HasAnswered(a, b, x, y) /\ x.rdv \in {"fine", "initiated"}
       \/ x.u.started = FALSE /\ (a = "initiator" \/ x.rdv \in {"waving", "attention"})
LastRead(x) == x.mine = TRUE => x.u.crypter = TRUE /\ (x.res.ext # NoExt <=> x.u.started = TRUE)
Trying(a, b, x, y) == x.status = "connecting" => Stands(a, b, x, y) /\ LastRead(x)
Carries(a, b, x, y) == IsFrom(b, a, y, x, x.res) /\ IsFrom(a, b, x, y, x.pkt)

\* Who is connected is the responder, which has answered and whose peer is connected, or
\* the initiator, which has heard the answer.
Arrived(a, b, x, y) ==
    Reached(x) =>
        \/ HasAnswered(a, b, x, y) /\ Reached(y)
        \/ /\ HasAnswered(b, a, y, x) /\ Heard(x.u, y.u.opt, x.u.opt)
           /\ ~(x.pkt.type = "fail") => AllHeard(x.u, y.u.opt, x.u.opt)
Holds(a, b, x, y) ==
    IsSide(x) /\ Well(a, x.u, y.u.opt) /\ Trying(a, b, x, y) /\ Carries(a, b, x, y) /\ Arrived(a, b, x, y)

\* What a side never takes back, and what a decision of it owes.
Grows(x, z, y) ==
    /\ z.u.opt = x.u.opt
    /\ x.u.crypter = TRUE => z.u.crypter = TRUE
    /\ x.u.side = "responder" /\ Answered(x.u, x.u.opt, y.u.opt)
         => z.u.side = "responder" /\ Answered(z.u, z.u.opt, y.u.opt)
    /\ Reached(x) => Reached(z)
IsSeq(w) == \E S : w \in Seq(S)
Good(a, b, x, y, r) ==
    /\ Grows(x, r.x, y) /\ Holds(a, b, r.x, y)
    /\ IsSeq(r.out) /\ \A n \in 1..Len(r.out) : IsFrom(a, b, r.x, y, r.out[n])

\* A side that goes on leaves true what is known of its packets and of its peer.
LEMMA Kept ==
  ASSUME NEW a, NEW b, NEW x, NEW y, NEW z, Grows(x, z, y)
  PROVE  /\ \A m : IsFrom(a, b, x, y, m) => IsFrom(a, b, z, y, m)
         /\ \A m : IsFrom(b, a, y, x, m) => IsFrom(b, a, y, z, m)
         /\ Holds(b, a, y, x) => Holds(b, a, y, z)
<1>1. /\ z.u.opt = x.u.opt
      /\ x.u.crypter = TRUE => z.u.crypter = TRUE
      /\ x.u.side = "responder" /\ Answered(x.u, x.u.opt, y.u.opt)
           => z.u.side = "responder" /\ Answered(z.u, z.u.opt, y.u.opt)
      /\ Reached(x) => Reached(z)
  BY DEF Grows
<1>2. HasAnswered(a, b, x, y) => HasAnswered(a, b, z, y)
  BY <1>1 DEF HasAnswered
<1>3. HasAnswered(b, a, y, x) => HasAnswered(b, a, y, z)
  BY <1>1 DEF HasAnswered
<1>4. ASSUME NEW m, IsFrom(a, b, x, y, m) PROVE IsFrom(a, b, z, y, m)
  BY <1>1, <1>2, <1>4 DEF IsFrom
<1>5. ASSUME NEW m, IsFrom(b, a, y, x, m) PROVE IsFrom(b, a, y, z, m)
  BY <1>1, <1>3, <1>5 DEF IsFrom
<1>6. ASSUME Holds(b, a, y, x) PROVE Holds(b, a, y, z)
  <2>1. IsSide(y) /\ Well(b, y.u, x.u.opt) /\ Trying(b, a, y, x) /\ Carries(b, a, y, x) /\ Arrived(b, a, y, x)
    BY <1>6 DEF Holds
  <2>2. Well(b, y.u, z.u.opt)
    BY <1>1, <2>1
  <2>3. Trying(b, a, y, z)
    BY <1>1, <1>3, <2>1 DEF Trying, Stands
  <2>4. Carries(b, a, y, z)
    BY <1>4, <1>5, <2>1 DEF Carries
  <2>5. Arrived(b, a, y, z)
    BY <1>1, <1>2, <1>3, <2>1 DEF Arrived
  <2>6. QED
    BY <2>1, <2>2, <2>3, <2>4, <2>5 DEF Holds
<1>7. QED
  BY <1>4, <1>5, <1>6

LEMMA GrowsTwice ==
  ASSUME NEW x, NEW y, NEW z, NEW w, Grows(x, z, y), Grows(z, w, y)
  PROVE  Grows(x, w, y)
  BY DEF Grows
LEMMA GoodAfter ==
  ASSUME NEW a, NEW b, NEW x, NEW y, NEW z, Grows(x, z, y), NEW r, Good(a, b, z, y, r)
  PROVE  Good(a, b, x, y, r)
<1>1. Grows(z, r.x, y)
  BY DEF Good
<1>2. Grows(x, r.x, y)
  BY <1>1, GrowsTwice
<1>3. QED
  BY <1>2 DEF Good

\* What a side carries after it went on: what it carried, or a packet that came or went.
LEMMA Onward ==
  ASSUME NEW a, NEW b, NEW x, NEW y, NEW z, Carries(a, b, x, y), Grows(x, z, y),
         z.res = x.res \/ IsFrom(b, a, y, x, z.res),
         z.pkt = x.pkt \/ IsFrom(a, b, z, y, z.pkt)
  PROVE  Carries(a, b, z, y)
<1>1. /\ \A m : IsFrom(a, b, x, y, m) => IsFrom(a, b, z, y, m)
      /\ \A m : IsFrom(b, a, y, x, m) => IsFrom(b, a, y, z, m)
  BY Kept
<1>2. IsFrom(b, a, y, x, x.res) /\ IsFrom(a, b, x, y, x.pkt)
  BY DEF Carries
<1>3. IsFrom(b, a, y, z, z.res)
  BY <1>1, <1>2
<1>4. IsFrom(a, b, z, y, z.pkt)
  BY <1>1, <1>2
<1>5. QED
  BY <1>3, <1>4 DEF Carries

\* The same socket, or one that differs in what nobody asks for.
LEMMA WellSame ==
  ASSUME NEW a, NEW u, NEW v, NEW p, Well(a, u, p), SameAll(u, v)
  PROVE  Well(a, v, p)
<1>1. /\ IsSocket(v) /\ v.opt = u.opt /\ v.side = u.side /\ v.crypter = u.crypter /\ v.tsbpd = u.tsbpd
      /\ v.started = u.started /\ v.peerTsbpd = u.peerTsbpd /\ v.peerNak = u.peerNak
      /\ v.sndKm = u.sndKm /\ v.rcvKm = u.rcvKm /\ v.kmMsg = u.kmMsg /\ v.filter = u.filter
  BY DEF SameAll, SameSelf, SameHs, SameKm
<1>2. Fresh(u) => Fresh(v)
  BY <1>1 DEF Fresh
<1>3. Answers(u, u.opt, p) => Answers(v, v.opt, p)
  BY <1>1, AnswersSame
<1>4. QED
  BY <1>1, <1>2, <1>3 DEF Well
LEMMA GrowsSame ==
  ASSUME NEW x, NEW y, NEW z, SameAll(x.u, z.u), Reached(x) => Reached(z)
  PROVE  Grows(x, z, y)
<1>1. z.u.opt = x.u.opt /\ z.u.crypter = x.u.crypter /\ z.u.side = x.u.side
  BY DEF SameAll, SameSelf
<1>2. Answered(x.u, x.u.opt, y.u.opt) => Answered(z.u, z.u.opt, y.u.opt)
  BY <1>1, AnswersSame
<1>3. QED
  BY <1>1, <1>2 DEF Grows

\* Sequences of no packet, of one, and of one twice.
LEMMA FewPackets ==
  /\ IsSeq(<< >>) /\ Len(<< >>) = 0
  /\ \A m : IsSeq(<<m>>) /\ Len(<<m>>) = 1 /\ <<m>>[1] = m
<1>1. << >> \in Seq({}) /\ Len(<< >>) = 0
  OBVIOUS
<1>2. ASSUME NEW m PROVE <<m>> \in Seq({m}) /\ Len(<<m>>) = 1 /\ <<m>>[1] = m
  OBVIOUS
<1>3. QED
  BY <1>1, <1>2 DEF IsSeq

\* A packet without blocks that says nothing of the connection.
LEMMA PlainIsFrom ==
  ASSUME NEW a, NEW b, NEW x, NEW y, NEW to, NEW type, ~(type \in {"agree", "data"})
  PROVE  IsFrom(a, b, x, y, Msg(to, type, NoExt))
  BY DEF IsFrom, Msg

\* The attempt ends, whatever was read before.
LEMMA GivesUp ==
  ASSUME NEW a, NEW b, NEW x, NEW y, IsSide(x), Well(a, x.u, y.u.opt), Carries(a, b, x, y), ~Reached(x)
  PROVE  Good(a, b, x, y, GiveUp(x))
<1>1. PICK z : z = [x EXCEPT !.status = "failed"]
  OBVIOUS
<1>2. IsSide(z) /\ z.u = x.u /\ z.res = x.res /\ z.pkt = x.pkt /\ z.status = "failed"
  BY <1>1 DEF IsSide, Fields
<1>3. PICK r : r = GiveUp(x)
  OBVIOUS
<1>4. r.x = z /\ r.out \in {<< >>, <<Msg("id", "shut", NoExt)>>}
  BY <1>1, <1>3 DEF GiveUp, Result, Shutdown
<1>5. ~Reached(z) /\ z.status # "connecting"
  BY <1>2 DEF Reached
<1>6. Grows(x, z, y)
  BY <1>2 DEF Grows
<1>7. Carries(a, b, z, y)
  BY <1>2, <1>6, Onward
<1>8. Holds(a, b, z, y)
  BY <1>2, <1>5, <1>7 DEF Holds, Trying, Arrived
<1>9. IsFrom(a, b, z, y, Msg("id", "shut", NoExt))
  BY PlainIsFrom
<1>10. IsSeq(r.out) /\ \A n \in 1..Len(r.out) : IsFrom(a, b, z, y, r.out[n])
  <2>1. CASE r.out = << >>
    BY <2>1, FewPackets
  <2>2. CASE r.out = <<Msg("id", "shut", NoExt)>>
    BY <1>9, <2>2, FewPackets
  <2>3. QED
    BY <1>4, <2>1, <2>2
<1>11. QED
  BY <1>3, <1>4, <1>6, <1>8, <1>10 DEF Good

\* It ends with another reason.
LEMMA GivesUpLike ==
  ASSUME NEW a, NEW b, NEW x, NEW y, Carries(a, b, x, y), ~Reached(x),
         NEW z, IsSide(z), Well(a, z.u, y.u.opt), Grows(x, z, y), ~Reached(z), z.res = x.res, z.pkt = x.pkt
  PROVE  Good(a, b, x, y, GiveUp(z))
<1>1. Carries(a, b, z, y)
  BY Onward
<1>2. Good(a, b, z, y, GiveUp(z))
  BY <1>1, GivesUp
<1>3. QED
  BY <1>2, GoodAfter

-----------------------------------------------------------------------------
(* The decisions.                                                          *)

\* Where the state machine stands and what came last are as they were.
Alike(x, z) ==
    /\ IsSide(z) /\ z.status = x.status /\ z.rdv = x.rdv /\ z.type = x.type /\ z.ext = x.ext
    /\ z.res = x.res /\ z.mine = x.mine
LEMMA TryingAlike ==
  ASSUME NEW a, NEW b, NEW x, NEW y, NEW z, Trying(a, b, x, y), Alike(x, z), Grows(x, z, y),
         z.u.started = x.u.started, z.u.crypter = x.u.crypter,
         Asking(a, x.u, y.u.opt) => Asking(a, z.u, y.u.opt)
  PROVE  Trying(a, b, z, y)
<1>1. HasAnswered(a, b, x, y) => HasAnswered(a, b, z, y)
  BY DEF HasAnswered, Grows
<1>2. QED
  BY <1>1 DEF Trying, Stands, LastRead, Alike

\* A packet is made and sent.
LEMMA SentIs ==
  ASSUME NEW x, IsSide(x), NEW type, NEW ext
  PROVE  LET r == Sent(x, type, ext) IN
         Alike(x, r.x) /\ r.x.u = x.u /\ r.x.pkt = Msg(To(x), type, ext) /\ r.out = <<r.x.pkt>>
<1>1. PICK m : m = Msg(To(x), type, ext)
  OBVIOUS
<1>2. PICK z : z = [x EXCEPT !.pkt = m]
  OBVIOUS
<1>3. Alike(x, z) /\ z.u = x.u /\ z.pkt = m
  BY <1>2 DEF IsSide, Fields, Alike
<1>4. PICK r : r = Sent(x, type, ext)
  OBVIOUS
<1>5. r.x = z /\ r.out = <<m>>
  BY <1>1, <1>2, <1>4 DEF Sent, Result
<1>6. QED
  BY <1>1, <1>3, <1>4, <1>5
LEMMA SendsOne ==
  ASSUME NEW a, NEW b, NEW x, NEW y, NEW r, Grows(x, r.x, y), Holds(a, b, r.x, y), r.out = <<r.x.pkt>>
  PROVE  Good(a, b, x, y, r)
<1>1. IsFrom(a, b, r.x, y, r.x.pkt)
  BY DEF Holds, Carries
<1>2. IsSeq(r.out) /\ \A n \in 1..Len(r.out) : IsFrom(a, b, r.x, y, r.out[n])
  BY <1>1, FewPackets
<1>3. QED
  BY <1>2 DEF Good

\* Another socket in the same place.
LEMMA SocketPut ==
  ASSUME NEW x, IsSide(x), NEW v
  PROVE  LET z == [x EXCEPT !.u = v] IN Alike(x, z) /\ z.u = v /\ z.pkt = x.pkt
<1>1. PICK z : z = [x EXCEPT !.u = v]
  OBVIOUS
<1>2. Alike(x, z) /\ z.u = v /\ z.pkt = x.pkt
  BY <1>1 DEF IsSide, Fields, Alike
<1>3. QED
  BY <1>1, <1>2

\* The request is made again: by the initiator with its blocks, by a responder that has
\* answered not at all.
LEMMA Repeats ==
  ASSUME NEW a, NEW b, NEW x, NEW y, Holds(a, b, x, y), x.status = "connecting",
         a \in {"draw", "initiator", "responder"}
  PROVE  Good(a, b, x, y, RepeatRequest(x))
<1>1. IsSide(x) /\ Well(a, x.u, y.u.opt) /\ Trying(a, b, x, y) /\ Carries(a, b, x, y)
  BY DEF Holds
<1>2. /\ ~Reached(x) /\ x.type \in {"wave", "concl"} /\ x.ext \in BOOLEAN
      /\ x.ext = TRUE => x.type = "concl" /\ x.u.crypter = TRUE
      /\ x.u.crypter = TRUE => Asking(a, x.u, y.u.opt)
      /\ IsSocket(x.u)
  BY <1>1 DEF Trying, Stands, Reached, Well
<1>3. CASE x.ext = FALSE
  <2>1. PICK r : r = RepeatRequest(x)
    OBVIOUS
  <2>2. r = Sent(x, x.type, NoExt)
    BY <1>3, <2>1 DEF RepeatRequest
  <2>3. Alike(x, r.x) /\ r.x.u = x.u /\ r.x.pkt = Msg(To(x), x.type, NoExt) /\ r.out = <<r.x.pkt>>
    BY <1>1, <2>2, SentIs
  <2>4. Grows(x, r.x, y)
    BY <1>2, <2>3 DEF Grows, Reached
  <2>5. IsFrom(a, b, r.x, y, r.x.pkt)
    BY <1>2, <2>3, PlainIsFrom
  <2>6. Carries(a, b, r.x, y)
    BY <1>1, <2>3, <2>4, <2>5, Onward DEF Alike
  <2>7. Trying(a, b, r.x, y)
    BY <1>1, <2>3, <2>4, TryingAlike
  <2>8. Holds(a, b, r.x, y)
    BY <1>1, <1>2, <2>3, <2>6, <2>7 DEF Holds, Alike, Arrived, Reached
  <2>9. QED
    BY <2>1, <2>3, <2>4, <2>8, SendsOne
<1>4. CASE x.ext = TRUE
  <2>1. PICK made : made = CreateReq(x.u)
    OBVIOUS
  <2>2. x.u.crypter = TRUE /\ x.u.side = a /\ a # "draw" /\ x.type = "concl"
    BY <1>1, <1>2, <1>4 DEF Well
  <2>3. PICK w : w = [x EXCEPT !.u = made.u]
    OBVIOUS
  <2>4. Alike(x, w) /\ w.u = made.u /\ w.pkt = x.pkt
    BY <1>1, <2>3, SocketPut
  <2>5. RepeatRequest(x) = IF made.ok THEN Sent(w, x.type, made.ext) ELSE GiveUp(w)
    BY <1>4, <2>1, <2>3 DEF RepeatRequest
  <2>6. IsSide(w) /\ ~Reached(w) /\ w.res = x.res
    BY <1>2, <2>4 DEF Alike, Reached
  <2>7. CASE a = "responder"
    <3>1. made.ok = FALSE /\ SameAll(x.u, made.u)
      BY <1>2, <2>1, <2>2, <2>7, RequestRefused
    <3>2. Well(a, w.u, y.u.opt)
      BY <1>1, <2>4, <3>1, WellSame
    <3>3. Grows(x, w, y)
      BY <1>2, <2>4, <3>1, GrowsSame
    <3>4. Good(a, b, x, y, GiveUp(w))
      BY <1>1, <1>2, <2>4, <2>6, <3>2, <3>3, GivesUpLike
    <3>5. QED
      BY <2>5, <3>1, <3>4
  <2>8. CASE a = "initiator"
    <3>1. Asks(x.u, y.u.opt, x.u.opt) /\ x.u.filter = x.u.opt.filter
      BY <1>2, <2>2, <2>8 DEF Asking
    <3>2. /\ made.ok = TRUE /\ IsReq(made.ext, x.u.opt)
          /\ SameSelf(x.u, made.u) /\ Asks(made.u, y.u.opt, x.u.opt) /\ made.u.filter = x.u.opt.filter
          /\ made.u.started = x.u.started
      <4>1. x.u.side = "initiator"
        BY <2>2, <2>8
      <4>2. RequestIs(y.u.opt, x.u.opt, x.u, made)
        BY <1>2, <2>1, <3>1, <4>1, RequestMade
      <4>3. QED
        BY <4>2 DEF RequestIs
    <3>3. PICK r : r = Sent(w, x.type, made.ext)
      OBVIOUS
    <3>4. Alike(w, r.x) /\ r.x.u = w.u /\ r.x.pkt = Msg(To(w), "concl", made.ext) /\ r.out = <<r.x.pkt>>
      BY <2>2, <2>6, <3>3, SentIs
    <3>5. Alike(x, r.x) /\ r.x.u = made.u
      BY <2>4, <3>4 DEF Alike
    <3>6. made.u.opt = x.u.opt /\ made.u.side = a /\ made.u.crypter = TRUE /\ IsSocket(made.u)
      BY <2>2, <3>2 DEF SameSelf
    <3>7. ~Answered(x.u, x.u.opt, y.u.opt)
      <4>1. x.u.started = FALSE
        BY <1>1, <2>8 DEF Trying, Stands, HasAnswered
      <4>2. QED
        BY <4>1 DEF Answered, HsRead
    <3>8. Grows(x, r.x, y)
      BY <1>2, <3>5, <3>6, <3>7 DEF Grows
    <3>9. Asking(a, r.x.u, y.u.opt)
      BY <3>2, <3>5, <3>6 DEF Asking
    <3>10. IsFrom(a, b, r.x, y, r.x.pkt)
      BY <2>8, <3>2, <3>4, <3>5, <3>6 DEF IsFrom, Msg
    <3>11. Carries(a, b, r.x, y)
      BY <1>1, <3>5, <3>8, <3>10, Onward DEF Alike
    <3>12. Trying(a, b, r.x, y)
      BY <1>1, <2>2, <3>2, <3>5, <3>6, <3>8, <3>9, TryingAlike
    <3>13. Well(a, r.x.u, y.u.opt)
      BY <1>1, <2>2, <2>8, <3>5, <3>6 DEF Well
    <3>14. Holds(a, b, r.x, y)
      BY <1>2, <3>5, <3>11, <3>12, <3>13 DEF Holds, Alike, Arrived, Reached
    <3>15. Good(a, b, x, y, r)
      BY <3>4, <3>8, <3>14, SendsOne
    <3>16. QED
      BY <2>5, <3>2, <3>3, <3>15
  <2>9. QED
    BY <2>2, <2>7, <2>8
<1>5. QED
  BY <1>2, <1>3, <1>4

\* The role that the cookies give to a side; not both are the initiator, however the
\* difference overflows.
Role(s) ==
    LET better == WrapInt(cookie[s] - cookie[Peer(s)]) IN
    IF cookie[1] = 0 \/ cookie[2] = 0 \/ better = 0 THEN "draw"
    ELSE IF better > 0 THEN "initiator" ELSE "responder"
Roles == {"draw", "initiator", "responder"}

LEMMA WrapsAway ==
  ASSUME NEW h \in Nat \ {0}, NEW d \in Int, -2 * h < d, d < 2 * h
  PROVE  ((d + h) % (2 * h)) - h > 0 => ~(((-d + h) % (2 * h)) - h > 0)
<1>1. CASE d < -h
  <2>1. (d + h) % (2 * h) = d + 3 * h
    BY <1>1
  <2>2. (-d + h) % (2 * h) = -d - h
    BY <1>1
  <2>3. QED
    BY <1>1, <2>1, <2>2
<1>2. CASE d = -h
  <2>1. (d + h) % (2 * h) = 0
    BY <1>2
  <2>2. QED
    BY <2>1
<1>3. CASE -h < d /\ d < h
  <2>1. (d + h) % (2 * h) = d + h
    BY <1>3
  <2>2. (-d + h) % (2 * h) = -d + h
    BY <1>3
  <2>3. QED
    BY <1>3, <2>1, <2>2
<1>4. CASE d >= h
  <2>1. (d + h) % (2 * h) = d - h
    BY <1>4
  <2>2. QED
    BY <1>4, <2>1
<1>5. QED
  BY <1>1, <1>2, <1>3, <1>4

LEMMA OneInitiator ==
  ASSUME cookie \in Cookies, NEW s \in Sides
  PROVE  /\ Role(s) \in Roles /\ Role(Peer(s)) \in Roles /\ Peer(s) \in Sides /\ Peer(Peer(s)) = s /\ Peer(s) # s
         /\ ~(Role(s) = "initiator" /\ Role(Peer(s)) = "initiator")
<1>1. Peer(s) \in Sides /\ Peer(Peer(s)) = s /\ Peer(s) # s
  BY DEF Peer, Sides
<1>2. Role(s) \in Roles /\ Role(Peer(s)) \in Roles
  BY DEF Role, Roles
<1>3. PICK h : h = CookieHalf
  OBVIOUS
<1>4. PICK k : k = cookie
  OBVIOUS
<1>5. h \in Nat \ {0} /\ k[s] \in -h .. h - 1 /\ k[Peer(s)] \in -h .. h - 1
  BY <1>1, <1>3, <1>4, CookieAssumption
<1>6. PICK d : d = k[s] - k[Peer(s)]
  OBVIOUS
<1>7. d \in Int /\ -2 * h < d /\ d < 2 * h /\ k[Peer(s)] - k[s] = -d
  BY <1>5, <1>6
<1>8. Role(s) = "initiator" => ((d + h) % (2 * h)) - h > 0
  BY <1>3, <1>4, <1>6 DEF Role, WrapInt
<1>9. Role(Peer(s)) = "initiator" => ((-d + h) % (2 * h)) - h > 0
  BY <1>1, <1>3, <1>4, <1>7 DEF Role, WrapInt
<1>10. ((d + h) % (2 * h)) - h > 0 => ~(((-d + h) % (2 * h)) - h > 0)
  BY <1>5, <1>7, WrapsAway
<1>11. QED
  BY <1>1, <1>2, <1>8, <1>9, <1>10

\* CUDT::cookieContest gives the role, if it was not given before.
LEMMA ContestIs ==
  ASSUME NEW s \in Sides, NEW u, NEW p, Well(Role(s), u, p)
  PROVE  LET v == Contest(s, u) IN
         /\ Well(Role(s), v, p) /\ v.side = Role(s) /\ v.opt = u.opt /\ v.started = u.started
         /\ u.crypter = TRUE => v = u
         /\ v.crypter = u.crypter
         /\ Answered(u, u.opt, p) => Answered(v, v.opt, p)
<1>1. PICK a : a = Role(s)
  OBVIOUS
<1>2. /\ IsSocket(u) /\ IsOptions(u.opt) /\ u.side \in {"draw", a}
      /\ \/ u.crypter = FALSE /\ Fresh(u)
         \/ u.crypter = TRUE /\ u.side = a /\ a # "draw"
  BY <1>1 DEF Well
<1>3. PICK v : v = Contest(s, u)
  OBVIOUS
<1>4. CASE u.side = a /\ a # "draw"
  <2>1. v = u
    BY <1>3, <1>4 DEF Contest
  <2>2. QED
    BY <1>1, <1>3, <1>4, <2>1
<1>5. CASE a = "draw"
  <2>1. v = u
    <3>1. u.side = "draw"
      BY <1>2, <1>5
    <3>2. PICK better : better = WrapInt(cookie[s] - cookie[Peer(s)])
      OBVIOUS
    <3>3. cookie[1] = 0 \/ cookie[2] = 0 \/ better = 0
      BY <1>1, <1>5, <3>2 DEF Role
    <3>4. QED
      BY <1>3, <3>2, <3>3 DEF Contest
  <2>2. QED
    BY <1>1, <1>2, <1>3, <1>5, <2>1
<1>6. CASE a # "draw" /\ u.side = "draw"
  <2>1. PICK w : w = [u EXCEPT !.side = a]
    OBVIOUS
  <2>2. v = w
    BY <1>1, <1>3, <1>6, <2>1 DEF Contest, Role
  <2>3. u.crypter = FALSE /\ Fresh(u)
    BY <1>2, <1>6
  <2>4. /\ IsSocket(w) /\ w.side = a /\ w.opt = u.opt /\ w.crypter = u.crypter /\ w.started = u.started
        /\ w.tsbpd = u.tsbpd /\ w.peerTsbpd = u.peerTsbpd /\ w.peerNak = u.peerNak /\ w.filter = u.filter
        /\ w.sndKm = u.sndKm /\ w.rcvKm = u.rcvKm /\ w.kmMsg = u.kmMsg
    BY <1>2, <2>1 DEF IsSocket, Members
  <2>5. Fresh(w)
    BY <2>3, <2>4 DEF Fresh
  <2>6. Well(a, w, p)
    BY <1>2, <2>3, <2>4, <2>5 DEF Well
  <2>7. ~Answered(u, u.opt, p)
    BY <2>3 DEF Fresh, Answered, HsRead
  <2>8. QED
    BY <1>1, <1>3, <2>2, <2>3, <2>4, <2>6, <2>7
<1>7. QED
  BY <1>2, <1>4, <1>5, <1>6

\* The contest decided, the socket gets its crypter, once.
LEMMA Prepares ==
  ASSUME NEW a \in {"initiator", "responder"}, NEW u, NEW p, Well(a, u, p), u.side = a,
         u.crypter = TRUE => Asking(a, u, p)
  PROVE  LET v == CreateCrypter(u, a) IN
         /\ Well(a, v, p) /\ v.crypter = TRUE /\ Asking(a, v, p)
         /\ v.opt = u.opt /\ v.started = u.started
         /\ Answered(u, u.opt, p) => Answered(v, v.opt, p)
<1>1. PICK v : v = CreateCrypter(u, a)
  OBVIOUS
<1>2. CASE u.crypter = TRUE
  <2>1. v = u
    BY <1>1, <1>2 DEF CreateCrypter
  <2>2. QED
    BY <1>1, <1>2, <2>1
<1>3. CASE u.crypter = FALSE
  <2>1. IsSocket(u) /\ Fresh(u) /\ IsOptions(u.opt)
    BY <1>3 DEF Well
  <2>2. /\ IsSocket(v) /\ v.opt = u.opt /\ v.side = a /\ v.crypter = TRUE
        /\ v.started = FALSE /\ v.filter = u.opt.filter
        /\ a = "responder" => \A o : Answers(v, u.opt, o)
        /\ a = "initiator" => \A l : Asks(v, l, u.opt)
    <3>1. Crypted(u, a, CreateCrypter(u, a))
      BY <2>1, CrypterMade
    <3>2. Crypted(u, a, v)
      BY <1>1, <3>1
    <3>3. QED
      BY <3>2 DEF Crypted
  <2>3. Well(a, v, p)
    BY <2>1, <2>2 DEF Well
  <2>4. Asking(a, v, p)
    BY <2>2 DEF Asking
  <2>5. u.started = FALSE
    BY <2>1 DEF Fresh
  <2>6. ~Answered(u, u.opt, p)
    BY <2>5 DEF Answered, HsRead
  <2>7. QED
    BY <1>1, <2>2, <2>3, <2>4, <2>5, <2>6
<1>4. QED
  BY <1>2, <1>3 DEF Well

\* CUDT::rendezvousSwitchState, for what the sides can meet: an agreement comes only to a
\* responder that has answered.
SwitchFails(sw) == sw.type = "fail"
SwitchResponds(sw, rdv, hasExt, mine) ==
    /\ sw.type = "concl" /\ sw.rsp = TRUE /\ ~mine /\ sw.rdv \in {"fine", "initiated"}
    /\ rdv = "attention" => hasExt
SwitchAgrees(sw, rdv, hasExt, mine) == sw.type = "agree" /\ sw.rsp = FALSE /\ mine /\ hasExt /\ rdv # "waving"
SwitchIsDone(sw, req) == sw.type = "done" /\ sw.rsp = FALSE /\ req = "agree"
SwitchRepeats(sw, rdv, req, hasExt, mine) ==
    /\ sw.type = "concl" /\ sw.rsp = FALSE /\ sw.ext \in BOOLEAN /\ sw.rdv \in {"attention", "fine"}
    /\ req = "wave" \/ ~hasExt \/ (rdv = "waving" /\ mine)
    /\ ~mine => sw.rdv = "attention" /\ rdv \in {"waving", "attention"}
Switched(sw, rdv, req, hasExt, mine) ==
    \/ SwitchFails(sw)
    \/ SwitchResponds(sw, rdv, hasExt, mine)
    \/ SwitchAgrees(sw, rdv, hasExt, mine)
    \/ SwitchIsDone(sw, req)
    \/ SwitchRepeats(sw, rdv, req, hasExt, mine)
LEMMA SwitchIs ==
  ASSUME NEW rdv \in {"waving", "attention", "fine", "initiated"}, NEW req, NEW hasExt \in BOOLEAN,
         NEW mine \in BOOLEAN, mine => rdv # "initiated",
         ~(req = "agree" /\ rdv = "attention")
  PROVE  Switched(SwitchState(rdv, req, hasExt, mine), rdv, req, hasExt, mine)
<1> USE DEF Switched, SwitchFails, SwitchResponds, SwitchAgrees, SwitchIsDone, SwitchRepeats
<1> DEFINE Row(w, p, t, e, r) == w.rdv = p /\ w.type = t /\ w.ext = e /\ w.rsp = r
<1>1. PICK sw : sw = SwitchState(rdv, req, hasExt, mine)
  OBVIOUS
<1> SUFFICES Switched(sw, rdv, req, hasExt, mine)
  BY <1>1, Zenon
<1>2. CASE rdv = "waving"
  <2>1. CASE mine = TRUE
    <3>1. sw = InWaving(req, TRUE)
      BY <1>1, <1>2, <2>1 DEF SwitchState
    <3>2. /\ req = "wave" => Row(sw, "attention", "concl", TRUE, FALSE)
          /\ req = "concl" => Row(sw, "fine", "concl", TRUE, FALSE)
          /\ req # "wave" /\ req # "concl" => sw.type = "fail"
      BY <3>1 DEF InWaving, Switch, Refuse
    <3>3. QED
      BY <1>2, <2>1, <3>2
  <2>2. CASE mine = FALSE
    <3>1. sw = InWaving(req, FALSE)
      BY <1>1, <1>2, <2>2 DEF SwitchState
    <3>2. /\ req = "wave" => Row(sw, "attention", "concl", FALSE, FALSE)
          /\ req = "concl" => Row(sw, "fine", "concl", TRUE, TRUE)
          /\ req # "wave" /\ req # "concl" => sw.type = "fail"
      BY <3>1 DEF InWaving, Switch, Refuse
    <3>3. QED
      BY <1>2, <2>2, <3>2
  <2>3. QED
    BY <2>1, <2>2
<1>3. CASE rdv = "attention"
  <2>1. CASE mine = TRUE
    <3>1. sw = InAttention(req, hasExt, TRUE)
      BY <1>1, <1>3, <2>1 DEF SwitchState
    <3>2. /\ req = "wave" => Row(sw, "attention", "concl", TRUE, FALSE)
          /\ req = "concl" /\ ~hasExt => Row(sw, "attention", "concl", TRUE, FALSE)
          /\ req = "concl" /\ hasExt => Row(sw, "connected", "agree", FALSE, FALSE)
          /\ req # "wave" /\ req # "concl" /\ req # "agree" => sw.type = "fail"
      BY <3>1 DEF InAttention, Switch, Refuse, Again, Agreement, Done
    <3>3. QED
      BY <1>3, <2>1, <3>2
  <2>2. CASE mine = FALSE
    <3>1. sw = InAttention(req, hasExt, FALSE)
      BY <1>1, <1>3, <2>2 DEF SwitchState
    <3>2. /\ req = "wave" => Row(sw, "attention", "concl", FALSE, FALSE)
          /\ req = "concl" /\ ~hasExt => Row(sw, "attention", "concl", FALSE, FALSE)
          /\ req = "concl" /\ hasExt => Row(sw, "initiated", "concl", TRUE, TRUE)
          /\ req # "wave" /\ req # "concl" /\ req # "agree" => sw.type = "fail"
      BY <3>1 DEF InAttention, Switch, Refuse, Again, Agreement, Done
    <3>3. QED
      BY <1>3, <2>2, <3>2
  <2>3. QED
    BY <2>1, <2>2
<1>4. CASE rdv = "fine"
  <2>1. CASE mine = TRUE
    <3>1. sw = InFine(req, hasExt, TRUE)
      BY <1>1, <1>4, <2>1 DEF SwitchState
    <3>2. /\ req = "concl" /\ ~hasExt => Row(sw, "fine", "concl", TRUE, FALSE)
          /\ req = "concl" /\ hasExt => Row(sw, "connected", "agree", FALSE, FALSE)
          /\ req = "agree" => Row(sw, "connected", "done", FALSE, FALSE)
          /\ req # "concl" /\ req # "agree" => sw.type = "fail"
      BY <3>1 DEF InFine, Switch, Refuse, Again, Agreement, Done
    <3>3. QED
      BY <1>4, <2>1, <3>2
  <2>2. CASE mine = FALSE
    <3>1. sw = InFine(req, hasExt, FALSE)
      BY <1>1, <1>4, <2>2 DEF SwitchState
    <3>2. /\ req = "concl" => Row(sw, "fine", "concl", TRUE, TRUE)
          /\ req = "agree" => Row(sw, "connected", "done", FALSE, FALSE)
          /\ req # "concl" /\ req # "agree" => sw.type = "fail"
      BY <3>1 DEF InFine, Switch, Refuse, Again, Agreement, Done
    <3>3. QED
      BY <1>4, <2>2, <3>2
  <2>3. QED
    BY <2>1, <2>2
<1>5. CASE rdv = "initiated"
  <2>1. CASE mine = FALSE
    <3>1. sw = InInitiated(req, FALSE)
      BY <1>1, <1>5, <2>1 DEF SwitchState
    <3>2. /\ req = "concl" => Row(sw, "initiated", "concl", TRUE, TRUE)
          /\ req = "agree" => Row(sw, "connected", "done", FALSE, FALSE)
          /\ req # "concl" /\ req # "agree" => sw.type = "fail"
      BY <3>1 DEF InInitiated, Switch, Refuse, Done
    <3>3. QED
      BY <1>5, <2>1, <3>2
  <2>2. QED
    BY <1>5, <2>1
<1>6. QED
  BY <1>2, <1>3, <1>4, <1>5

\* What a side that is connected says of its peer.
LEMMA PeerReached ==
  ASSUME NEW a, NEW b, NEW x, NEW y, Holds(b, a, y, x), Reached(y), ~Reached(x)
  PROVE  HasAnswered(a, b, x, y)
  BY DEF Holds, Arrived

\* CUDT::processRendezvous at the responder: it reads the request, if it has just come, and
\* answers it.
LEMMA Responds ==
  ASSUME NEW b \in Roles, NEW x, NEW y, IsSide(x), Well("responder", x.u, y.u.opt), x.u.crypter = TRUE,
         IsOptions(y.u.opt), Carries("responder", b, x, y), x.status = "connecting", x.type = "concl",
         x.rdv \in {"fine", "initiated"}, x.mine \in BOOLEAN, NEW fresh \in BOOLEAN,
         fresh = FALSE => HasAnswered("responder", b, x, y) /\ x.res.ext # NoExt
  PROVE  Good("responder", b, x, y, Respond(x, fresh))
<1>1. PICK l, o, ext : l = x.u.opt /\ o = y.u.opt /\ ext = x.res.ext
  OBVIOUS
<1>2. IsSocket(x.u) /\ x.u.side = "responder" /\ Answers(x.u, l, o) /\ ~Reached(x) /\ IsOptions(l) /\ IsOptions(o)
  BY <1>1 DEF Well, Reached
<1>3. PICK read : read = IF fresh THEN Interpret(x.u, ext, TRUE) ELSE [ok |-> TRUE, u |-> x.u, km |-> StoredKm(x)]
  OBVIOUS
<1>4. PICK rsp : rsp = CreateRsp(read.u, read.km)
  OBVIOUS
<1>5. PICK w : w = [x EXCEPT !.u = read.u]
  OBVIOUS
<1>6. PICK z : z = [x EXCEPT !.u = rsp.u, !.ext = (rsp.ext # NoExt)]
  OBVIOUS
<1>7. Respond(x, fresh) = IF ~read.ok THEN GiveUp(w) ELSE Sent(z, x.type, rsp.ext)
  BY <1>1, <1>3, <1>4, <1>5, <1>6 DEF Respond
<1>8. Alike(x, w) /\ w.u = read.u /\ w.pkt = x.pkt /\ w.res = x.res /\ IsSide(w)
  BY <1>5, SocketPut DEF Alike
<1>9. ~Reached(w)
  BY <1>8 DEF Alike, Reached
<1>10. IsFrom(b, "responder", y, x, x.res)
  BY DEF Carries
<1>11. CASE ext = NoExt
  <2>1. read = Interpret(x.u, NoExt, TRUE)
    BY <1>1, <1>3, <1>11
  <2>2. read.ok = FALSE /\ SameAll(x.u, read.u)
    BY <1>2, <2>1, NothingRead
  <2>3. Well("responder", w.u, y.u.opt)
    BY <1>8, <2>2, WellSame
  <2>4. Grows(x, w, y)
    BY <1>2, <1>8, <2>2, GrowsSame
  <2>5. Good("responder", b, x, y, GiveUp(w))
    BY <1>2, <1>8, <1>9, <2>3, <2>4, GivesUpLike
  <2>6. QED
    BY <1>7, <2>2, <2>5
<1>12. CASE ext # NoExt
  <2>1. b = "initiator" /\ y.u.crypter = TRUE /\ IsReq(ext, o)
    BY <1>1, <1>10, <1>12 DEF IsFrom, HasAnswered
  <2>2. CASE fresh = TRUE /\ ~read.ok
    <3>1. read = Interpret(x.u, ext, TRUE)
      BY <1>3, <2>2
    <3>2. SameSelf(x.u, read.u) /\ Answers(read.u, l, o) /\ (Answered(x.u, l, o) => Answered(read.u, l, o))
      BY <1>2, <2>1, <3>1, ResponderReads
    <3>3. /\ IsSocket(read.u) /\ read.u.opt = l /\ read.u.side = "responder" /\ read.u.crypter = TRUE
      BY <1>1, <1>2, <3>2 DEF SameSelf
    <3>4. Well("responder", w.u, y.u.opt)
      BY <1>1, <1>2, <1>8, <3>2, <3>3 DEF Well
    <3>5. Grows(x, w, y)
      BY <1>1, <1>2, <1>8, <3>2, <3>3 DEF Grows
    <3>6. Good("responder", b, x, y, GiveUp(w))
      BY <1>2, <1>8, <1>9, <3>4, <3>5, GivesUpLike
    <3>7. QED
      BY <1>7, <2>2, <3>6
  <2>3. CASE ~(fresh = TRUE /\ ~read.ok)
    <3>1. Answered(read.u, l, o) /\ SameSelf(x.u, read.u) /\ read.km = KmReply(l, o) /\ read.ok
      <4>1. CASE fresh = TRUE
        <5>1. read = Interpret(x.u, ext, TRUE) /\ read.ok
          BY <1>3, <2>3, <4>1
        <5>2. QED
          BY <1>2, <2>1, <5>1, ResponderReads
      <4>2. CASE fresh = FALSE
        <5>1. read.u = x.u /\ read.km = StoredKm(x) /\ read.ok
          BY <1>3, <4>2
        <5>2. Answered(x.u, l, o)
          BY <1>1, <4>2 DEF HasAnswered
        <5>3. StoredKm(x) = KmReply(l, o)
          <6>1. KmRead(x.u, l, o)
            BY <5>2 DEF Answered
          <6>2. ext.km = KmAsked(o)
            BY <2>1 DEF IsReq
          <6>3. CASE o.key = NoKey
            BY <1>1, <6>2, <6>3 DEF KmAsked, KmReply, StoredKm
          <6>4. CASE o.key # NoKey
            <7>1. ext.km # NoKm
              BY <6>2, <6>4, KmTold DEF KmAsked
            <7>2. StoredKm(x) = IF x.u.kmMsg # NoKey THEN KmRsp(x.u.kmMsg) ELSE KmFail(x.u.rcvKm)
              BY <1>1, <1>12, <7>1 DEF StoredKm
            <7>3. QED
              BY <6>1, <6>4, <7>2 DEF KmRead, KmReply, KmMade
          <6>5. QED
            BY <6>3, <6>4
        <5>4. SameSelf(x.u, x.u)
          BY <1>2 DEF SameSelf
        <5>5. QED
          BY <5>1, <5>2, <5>3, <5>4
      <4>3. QED
        BY <4>1, <4>2
    <3>2. IsSocket(read.u)
      BY <3>1 DEF SameSelf
    <3>3. IsRsp(rsp.ext, l, o) /\ SameAll(read.u, rsp.u)
      BY <1>4, <3>1, <3>2, ResponseMade
    <3>4. Answered(rsp.u, l, o)
      BY <3>1, <3>3, AnswersSame
    <3>5. IsSocket(rsp.u) /\ rsp.u.opt = l /\ rsp.u.side = "responder" /\ rsp.u.crypter = TRUE
      BY <1>1, <1>2, <3>1, <3>3 DEF SameSelf, SameAll
    <3>6. rsp.ext # NoExt
      BY <3>3 DEF IsRsp
    <3>7. /\ IsSide(z) /\ z.u = rsp.u /\ z.ext = TRUE /\ z.status = x.status /\ z.rdv = x.rdv /\ z.type = x.type
          /\ z.res = x.res /\ z.mine = x.mine
      BY <1>6, <3>6 DEF IsSide, Fields
    <3>8. PICK r : r = Sent(z, x.type, rsp.ext)
      OBVIOUS
    <3>9. Alike(z, r.x) /\ r.x.u = rsp.u /\ r.x.pkt = Msg(To(z), "concl", rsp.ext) /\ r.out = <<r.x.pkt>>
      BY <3>7, <3>8, SentIs
    <3>10. Grows(x, r.x, y)
      BY <1>1, <1>2, <3>4, <3>5, <3>9 DEF Grows
    <3>11. HasAnswered("responder", b, r.x, y)
      BY <1>1, <2>1, <3>4, <3>5, <3>9 DEF HasAnswered
    <3>12. IsFrom("responder", b, r.x, y, r.x.pkt)
      BY <1>1, <3>3, <3>5, <3>9, <3>11 DEF IsFrom, Msg
    <3>13. Carries("responder", b, r.x, y)
      BY <3>7, <3>9, <3>10, <3>12, Onward DEF Alike
    <3>14. Well("responder", r.x.u, y.u.opt)
      BY <1>1, <1>2, <3>4, <3>5, <3>9 DEF Well, Answered
    <3>15. r.x.u.started = TRUE
      BY <3>4, <3>9 DEF Answered, HsRead
    <3>16. Trying("responder", b, r.x, y)
      BY <1>1, <1>12, <3>5, <3>7, <3>9, <3>11, <3>15 DEF Trying, Stands, LastRead, Alike, Asking
    <3>17. Holds("responder", b, r.x, y)
      BY <3>7, <3>9, <3>13, <3>14, <3>16 DEF Holds, Arrived, Reached, Alike
    <3>18. Good("responder", b, x, y, r)
      BY <3>9, <3>10, <3>17, SendsOne
    <3>19. QED
      BY <1>7, <3>1, <3>8, <3>18
  <2>4. QED
    BY <2>2, <2>3
<1>13. QED
  BY <1>11, <1>12

\* At the initiator: it reads the response, and is connected whether it takes it or not.
LEMMA AgreesTo ==
  ASSUME NEW b \in Roles, b # "initiator", NEW x, NEW y, IsSide(x), Well("initiator", x.u, y.u.opt),
         x.u.crypter = TRUE, Asking("initiator", x.u, y.u.opt), x.u.started = FALSE,
         IsOptions(y.u.opt), Carries("initiator", b, x, y), x.status = "connecting", x.res.ext # NoExt
  PROVE  Good("initiator", b, x, y, Agree(x, TRUE))
<1>1. PICK l, o, ext : l = y.u.opt /\ o = x.u.opt /\ ext = x.res.ext
  OBVIOUS
<1>2. IsSocket(x.u) /\ x.u.side = "initiator" /\ Asks(x.u, l, o) /\ ~Reached(x) /\ IsOptions(l) /\ IsOptions(o)
  BY <1>1 DEF Well, Reached, Asking
<1>3. HasAnswered(b, "initiator", y, x) /\ IsRsp(ext, l, o)
  BY <1>1 DEF Carries, IsFrom
<1>4. PICK read : read = Interpret(x.u, ext, FALSE)
  OBVIOUS
<1>5. SameSelf(x.u, read.u) /\ Heard(read.u, l, o) /\ (read.ok => AllHeard(read.u, l, o))
  BY <1>2, <1>3, <1>4, InitiatorReads
<1>6. PICK z : z = Connected([x EXCEPT !.u = read.u])
  OBVIOUS
<1>7. /\ IsSide(z) /\ z.u = read.u /\ z.status = "connected" /\ z.res = x.res
  BY <1>6 DEF Connected, IsSide, Fields
<1>8. PICK r : r = Agree(x, TRUE)
  OBVIOUS
<1>9. PICK type : type = IF read.ok THEN "agree" ELSE "fail"
  OBVIOUS
<1>10. r = Sent(z, type, NoExt)
  BY <1>1, <1>4, <1>6, <1>8, <1>9 DEF Agree
<1>11. Alike(z, r.x) /\ r.x.u = read.u /\ r.x.pkt = Msg(To(z), type, NoExt) /\ r.out = <<r.x.pkt>>
  BY <1>7, <1>10, SentIs
<1>12. IsSocket(read.u) /\ read.u.opt = o /\ read.u.side = "initiator" /\ read.u.crypter = TRUE
  BY <1>1, <1>2, <1>5 DEF SameSelf
<1>13. Reached(r.x) /\ r.x.status # "connecting" /\ r.x.pkt.type = type /\ r.x.res = x.res /\ IsSide(r.x)
  BY <1>7, <1>11 DEF Reached, Alike, Msg
<1>14. ~Answered(x.u, x.u.opt, y.u.opt)
  BY DEF Answered, HsRead
<1>15. Grows(x, r.x, y)
  BY <1>1, <1>11, <1>12, <1>13, <1>14 DEF Grows
<1>16. IsFrom("initiator", b, r.x, y, r.x.pkt)
  BY <1>11, <1>13 DEF IsFrom, Msg
<1>17. Carries("initiator", b, r.x, y)
  BY <1>13, <1>15, <1>16, Onward
<1>18. Well("initiator", r.x.u, y.u.opt)
  BY <1>2, <1>11, <1>12 DEF Well
<1>19. HasAnswered(b, "initiator", y, r.x)
  BY <1>1, <1>3, <1>11, <1>12 DEF HasAnswered
<1>20. Arrived("initiator", b, r.x, y)
  <2>1. ~(r.x.pkt.type = "fail") => AllHeard(read.u, l, o)
    BY <1>5, <1>9, <1>13
  <2>2. QED
    BY <1>1, <1>5, <1>11, <1>12, <1>19, <2>1 DEF Arrived
<1>21. Holds("initiator", b, r.x, y)
  BY <1>13, <1>17, <1>18, <1>20 DEF Holds, Trying
<1>22. Good("initiator", b, x, y, r)
  BY <1>11, <1>15, <1>21, SendsOne
<1>23. QED
  BY <1>8, <1>22

\* The responder is connected by the agreement, or by data of a peer that is.
LEMMA Arrives ==
  ASSUME NEW a, NEW b, NEW x, NEW y, IsSide(x), Well(a, x.u, y.u.opt), Carries(a, b, x, y),
         HasAnswered(a, b, x, y), Reached(y)
  PROVE  Good(a, b, x, y, Result(Connected(x), << >>))
<1>1. PICK z : z = Connected(x)
  OBVIOUS
<1>2. IsSide(z) /\ z.u = x.u /\ z.status = "connected" /\ z.res = x.res /\ z.pkt = x.pkt
  BY <1>1 DEF Connected, IsSide, Fields
<1>3. PICK r : r = Result(z, << >>)
  OBVIOUS
<1>4. r.x = z /\ r.out = << >>
  BY <1>3 DEF Result
<1>5. Reached(z) /\ z.status # "connecting"
  BY <1>2 DEF Reached
<1>6. Grows(x, z, y)
  BY <1>2, <1>5 DEF Grows
<1>7. Carries(a, b, z, y)
  BY <1>2, <1>6, Onward
<1>8. HasAnswered(a, b, z, y)
  BY <1>2 DEF HasAnswered
<1>9. Holds(a, b, z, y)
  BY <1>2, <1>5, <1>7, <1>8 DEF Holds, Trying, Arrived
<1>10. IsSeq(r.out) /\ \A n \in 1..Len(r.out) : IsFrom(a, b, z, y, r.out[n])
  BY <1>4, FewPackets
<1>11. QED
  BY <1>1, <1>3, <1>4, <1>6, <1>9, <1>10 DEF Good

\* CUDT::processRendezvous as a whole, for a packet that has just come, and for the last one
\* when the timer goes through it again.
LEMMA Processes ==
  ASSUME NEW s \in Sides, NEW a \in Roles, NEW b \in Roles, a = Role(s), ~(a = "initiator" /\ b = "initiator"),
         NEW x, NEW y, IsSide(x), Well(a, x.u, y.u.opt), x.status = "connecting", Stands(a, b, x, y),
         Carries(a, b, x, y), Holds(b, a, y, x), NEW fresh \in BOOLEAN,
         fresh = FALSE => x.mine = TRUE /\ LastRead(x)
  PROVE  Good(a, b, x, y, ProcessRendezvous(s, x, fresh))
<1>1. PICK p : p = y.u.opt
  OBVIOUS
<1>2. IsOptions(p) /\ ~Reached(x) /\ IsFrom(b, a, y, x, x.res)
  BY <1>1 DEF Holds, Well, Reached, Carries
<1>3. PICK v : v = Contest(s, x.u)
  OBVIOUS
<1>4. /\ Well(a, v, p) /\ v.side = a /\ v.opt = x.u.opt /\ v.started = x.u.started
      /\ x.u.crypter = TRUE => v = x.u
      /\ v.crypter = x.u.crypter
      /\ Answered(x.u, x.u.opt, p) => Answered(v, v.opt, p)
  BY <1>1, <1>3, ContestIs
<1>5. PICK has, mine : has = (x.res.ext # NoExt) /\ mine = (v.side = "initiator")
  OBVIOUS
<1>6. has \in BOOLEAN /\ mine \in BOOLEAN /\ (has <=> x.res.ext # NoExt) /\ (mine <=> a = "initiator")
  BY <1>4, <1>5
<1>7. PICK sw : sw = SwitchState(x.rdv, x.res.type, has, mine)
  OBVIOUS
<1>8. PICK w : w = CreateCrypter(v, v.side)
  OBVIOUS
<1>9. PICK z : z = [x EXCEPT !.u = w, !.rdv = sw.rdv, !.type = sw.type, !.ext = sw.ext, !.known = TRUE]
  OBVIOUS
<1>10. PICK k : k = [x EXCEPT !.u = Reject(v, "rdvcookie")]
  OBVIOUS
<1>11. PICK g : g = [x EXCEPT !.u = Reject(v, "rogue"), !.rdv = sw.rdv]
  OBVIOUS
<1>12. PICK r : r = ProcessRendezvous(s, x, fresh)
  OBVIOUS
<1>13. r = IF v.side = "draw" THEN GiveUp(k)
           ELSE IF sw.type = "fail" THEN GiveUp(g)
           ELSE IF sw.rsp THEN Respond(z, fresh)
           ELSE IF sw.type = "agree" THEN Agree(z, fresh)
           ELSE IF sw.type = "done" THEN Result(Connected(z), << >>)
           ELSE RepeatRequest(z)
  <2>1. sw = SwitchState(x.rdv, x.res.type, x.res.ext # NoExt, v.side = "initiator")
    BY <1>5, <1>7
  <2>2. z = [x EXCEPT !.u = CreateCrypter(v, v.side), !.rdv = sw.rdv, !.type = sw.type, !.ext = sw.ext, !.known = TRUE]
    BY <1>8, <1>9
  <2>3. QED
    BY <1>3, <1>10, <1>11, <1>12, <2>1, <2>2 DEF ProcessRendezvous
<1>14. ASSUME NEW why, NEW q, IsSide(q), q.u = Reject(v, why), q.status = x.status, q.res = x.res, q.pkt = x.pkt
       PROVE  Good(a, b, x, y, GiveUp(q))
  <2>1. IsSocket(v)
    BY <1>4 DEF Well
  <2>2. SameAll(v, q.u)
    BY <1>14, <2>1, Rejecting
  <2>3. Well(a, q.u, y.u.opt)
    BY <1>1, <1>4, <2>2, WellSame
  <2>4. q.u.opt = x.u.opt /\ q.u.crypter = x.u.crypter /\ q.u.side = v.side
    BY <1>4, <2>2 DEF SameAll, SameSelf
  <2>5. Answered(x.u, x.u.opt, p) => Answered(q.u, q.u.opt, p)
    BY <1>4, <2>2, <2>4, AnswersSame
  <2>6. Grows(x, q, y) /\ ~Reached(q)
    BY <1>1, <1>2, <1>4, <1>14, <2>4, <2>5 DEF Grows, Reached, Well
  <2>7. QED
    BY <1>2, <1>14, <2>3, <2>6, GivesUpLike
<1>15. CASE v.side = "draw"
  <2>1. IsSide(k) /\ k.u = Reject(v, "rdvcookie") /\ k.status = x.status /\ k.res = x.res /\ k.pkt = x.pkt
    BY <1>10 DEF IsSide, Fields
  <2>2. Good(a, b, x, y, GiveUp(k))
    BY <1>14, <2>1
  <2>3. QED
    BY <1>12, <1>13, <1>15, <2>2
<1>16. CASE v.side # "draw" /\ sw.type = "fail"
  <2>1. IsSide(g) /\ g.u = Reject(v, "rogue") /\ g.status = x.status /\ g.res = x.res /\ g.pkt = x.pkt
    BY <1>11 DEF IsSide, Fields
  <2>2. Good(a, b, x, y, GiveUp(g))
    BY <1>14, <2>1
  <2>3. QED
    BY <1>12, <1>13, <1>16, <2>2
<1>17. CASE v.side # "draw" /\ sw.type # "fail"
  <2>1. a \in {"initiator", "responder"} /\ w = CreateCrypter(v, a)
    BY <1>4, <1>8, <1>17 DEF Roles
  <2>2. /\ x.type \in {"wave", "concl"} /\ x.ext \in BOOLEAN /\ x.mine \in BOOLEAN
        /\ x.rdv \in {"waving", "attention", "fine", "initiated"}
        /\ x.u.crypter = TRUE => x.rdv # "waving" /\ Asking(a, x.u, p)
        /\ a = "initiator" => x.rdv # "initiated"
        /\ \/ x.u.started = TRUE /\ HasAnswered(a, b, x, y) /\ x.rdv \in {"fine", "initiated"}
           \/ x.u.started = FALSE /\ (a = "initiator" \/ x.rdv \in {"waving", "attention"})
    BY <1>1 DEF Stands
  <2>3. v.crypter = TRUE => Asking(a, v, p)
    BY <1>4, <2>2
  <2>4. /\ Well(a, w, p) /\ w.crypter = TRUE /\ Asking(a, w, p)
        /\ w.opt = v.opt /\ w.started = v.started
        /\ Answered(v, v.opt, p) => Answered(w, w.opt, p)
    BY <1>4, <2>1, <2>3, Prepares
  <2>5. /\ IsSide(z) /\ z.u = w /\ z.rdv = sw.rdv /\ z.type = sw.type /\ z.ext = sw.ext
        /\ z.status = x.status /\ z.res = x.res /\ z.pkt = x.pkt /\ z.mine = x.mine
    BY <1>9 DEF IsSide, Fields
  <2>6. Grows(x, z, y) /\ ~Reached(z)
    <3>1. w.side = a /\ (x.u.side = "responder" => a = "responder")
      BY <2>1, <2>4 DEF Well
    <3>2. QED
      BY <1>1, <1>2, <1>4, <2>4, <2>5, <3>1 DEF Grows, Reached
  <2>7. Carries(a, b, z, y)
    BY <2>5, <2>6, Onward
  <2>8. HasAnswered(a, b, x, y) => HasAnswered(a, b, z, y)
    BY <2>6 DEF HasAnswered, Grows
  <2>9. a = "initiator" => x.u.started = FALSE
    BY <2>2 DEF HasAnswered
  <2>10. x.res.type = "agree" => Reached(y) /\ HasAnswered(a, b, x, y)
    BY <1>2, PeerReached DEF IsFrom
  <2>11. HasAnswered(a, b, x, y) => x.u.started = TRUE
    BY DEF HasAnswered, Answered, HsRead
  <2>12. mine => x.rdv # "initiated"
    BY <1>6, <2>2
  <2>13. ~(x.res.type = "agree" /\ x.rdv = "attention")
    BY <2>2, <2>10, <2>11 DEF HasAnswered
  <2>14. Switched(sw, x.rdv, x.res.type, has, mine)
    BY <1>6, <1>7, <2>2, <2>12, <2>13, SwitchIs
  <2>15. has => x.res.type = "concl"
    BY <1>2, <1>6 DEF IsFrom
  <2>16. Good(a, b, z, y, r)
    <3>1. CASE SwitchResponds(sw, x.rdv, has, mine)
      <4>1. /\ sw.type = "concl" /\ sw.rsp = TRUE /\ a = "responder" /\ sw.rdv \in {"fine", "initiated"}
            /\ x.rdv = "attention" => has
        BY <1>6, <2>1, <3>1 DEF SwitchResponds
      <4>2. r = Respond(z, fresh)
        BY <1>13, <1>17, <4>1
      <4>3. ASSUME fresh = FALSE PROVE HasAnswered(a, b, z, y) /\ z.res.ext # NoExt
        <5>1. x.mine = TRUE /\ LastRead(x)
          BY <4>3
        <5>2. x.u.crypter = TRUE /\ (x.res.ext # NoExt <=> x.u.started = TRUE)
          BY <5>1 DEF LastRead
        <5>3. x.u.started = TRUE
          BY <1>6, <2>2, <4>1, <5>2
        <5>4. QED
          BY <2>2, <2>5, <2>8, <5>2, <5>3
      <4>4. Good("responder", b, z, y, Respond(z, fresh))
        BY <1>1, <1>2, <2>2, <2>4, <2>5, <2>7, <4>1, <4>3, Responds
      <4>5. QED
        BY <4>1, <4>2, <4>4
    <3>2. CASE SwitchAgrees(sw, x.rdv, has, mine)
      <4>1. sw.type = "agree" /\ sw.rsp = FALSE /\ a = "initiator" /\ x.res.ext # NoExt
        BY <1>6, <3>2 DEF SwitchAgrees
      <4>2. r = Agree(z, fresh)
        BY <1>13, <1>17, <4>1
      <4>3. fresh = TRUE
        BY <2>9, <4>1 DEF LastRead
      <4>4. b # "initiator" /\ z.u.started = FALSE
        BY <1>4, <2>4, <2>5, <2>9, <4>1
      <4>5. Good("initiator", b, z, y, Agree(z, TRUE))
        BY <1>1, <1>2, <2>4, <2>5, <2>7, <4>1, <4>4, AgreesTo
      <4>6. QED
        BY <4>1, <4>2, <4>3, <4>5
    <3>3. CASE SwitchIsDone(sw, x.res.type)
      <4>1. sw.type = "done" /\ sw.rsp = FALSE /\ x.res.type = "agree"
        BY <3>3 DEF SwitchIsDone
      <4>2. r = Result(Connected(z), << >>)
        BY <1>13, <1>17, <4>1
      <4>3. Reached(y) /\ HasAnswered(a, b, z, y)
        BY <2>8, <2>10, <4>1
      <4>4. QED
        BY <1>1, <2>4, <2>5, <2>7, <4>2, <4>3, Arrives
    <3>4. CASE SwitchRepeats(sw, x.rdv, x.res.type, has, mine)
      <4>1. /\ sw.type = "concl" /\ sw.rsp = FALSE /\ sw.ext \in BOOLEAN /\ sw.rdv \in {"attention", "fine"}
            /\ x.res.type = "wave" \/ ~has \/ (x.rdv = "waving" /\ a = "initiator")
            /\ a # "initiator" => sw.rdv = "attention" /\ x.rdv \in {"waving", "attention"}
        BY <1>6, <3>4 DEF SwitchRepeats
      <4>2. r = RepeatRequest(z)
        BY <1>13, <1>17, <4>1
      <4>3. z.u.started = FALSE
        BY <1>4, <2>2, <2>4, <2>5, <2>9, <4>1
      <4>4. x.res.ext = NoExt
        <5>1. CASE x.rdv = "waving" /\ a = "initiator"
          <6>1. x.u.crypter # TRUE /\ b # "initiator"
            BY <2>2, <5>1
          <6>2. QED
            BY <1>2, <6>1 DEF IsFrom, HasAnswered
        <5>2. CASE ~(x.rdv = "waving" /\ a = "initiator")
          BY <1>6, <2>15, <4>1, <5>2
        <5>3. QED
          BY <5>1, <5>2
      <4>5. Stands(a, b, z, y)
        BY <1>1, <2>2, <2>4, <2>5, <4>1, <4>3 DEF Stands
      <4>6. LastRead(z)
        BY <2>4, <2>5, <4>3, <4>4 DEF LastRead
      <4>7. Holds(a, b, z, y)
        BY <1>1, <2>4, <2>5, <2>6, <2>7, <4>5, <4>6 DEF Holds, Trying, Arrived
      <4>8. QED
        BY <2>5, <4>2, <4>7, Repeats DEF Roles
    <3>5. QED
      BY <1>17, <2>14, <3>1, <3>2, <3>3, <3>4 DEF Switched, SwitchFails
  <2>17. QED
    BY <1>12, <2>6, <2>16, GoodAfter
<1>18. QED
  BY <1>15, <1>16, <1>17

-----------------------------------------------------------------------------
(* What a side makes of a packet.                                          *)

\* Two sequences of packets in a row, and a part of one.
OfBoth(p, v, w) ==
    /\ IsSeq(p)
    /\ \A n \in 1..Len(p) : (\E k \in 1..Len(v) : p[n] = v[k]) \/ (\E k \in 1..Len(w) : p[n] = w[k])
LEMMA Joined ==
  ASSUME NEW v, NEW w, IsSeq(v), IsSeq(w)
  PROVE  OfBoth(v \o w, v, w)
<1>1. PICK A : v \in Seq(A)
  BY DEF IsSeq
<1>2. PICK B : w \in Seq(B)
  BY DEF IsSeq
<1>3. PICK C : C = A \cup B
  OBVIOUS
<1>4. v \in Seq(C) /\ w \in Seq(C)
  BY <1>1, <1>2, <1>3
<1>5. v \o w \in Seq(C) /\ Len(v \o w) = Len(v) + Len(w) /\ Len(v) \in Nat /\ Len(w) \in Nat
  BY <1>4
<1>6. ASSUME NEW n \in 1..Len(v \o w)
      PROVE  \/ \E k \in 1..Len(v) : (v \o w)[n] = v[k]
             \/ \E k \in 1..Len(w) : (v \o w)[n] = w[k]
  <2>1. CASE n <= Len(v)
    <3>1. (v \o w)[n] = v[n] /\ n \in 1..Len(v)
      BY <1>4, <1>5, <2>1
    <3>2. QED
      BY <3>1
  <2>2. CASE n > Len(v)
    <3>1. (v \o w)[n] = w[n - Len(v)] /\ n - Len(v) \in 1..Len(w)
      BY <1>4, <1>5, <2>2
    <3>2. QED
      BY <3>1
  <2>3. QED
    BY <1>5, <2>1, <2>2
<1>7. QED
  BY <1>5, <1>6 DEF IsSeq, OfBoth
PartOf(p, w) == IsSeq(p) /\ \A n \in 1..Len(p) : \E k \in 1..Len(w) : p[n] = w[k]
LEMMA Cut ==
  ASSUME NEW w, IsSeq(w), NEW i \in Int, NEW j \in Int, 1 <= i, j <= Len(w)
  PROVE  PartOf(SubSeq(w, i, j), w)
<1>1. PICK A : w \in Seq(A)
  BY DEF IsSeq
<1>2. CASE i <= j
  <2>1. /\ SubSeq(w, i, j) \in Seq(A) /\ Len(SubSeq(w, i, j)) = j - i + 1
        /\ \A n \in 1..(j - i + 1) : SubSeq(w, i, j)[n] = w[i + n - 1]
    BY <1>1, <1>2, SubSeqProperties
  <2>2. \A n \in 1..(j - i + 1) : i + n - 1 \in 1..Len(w)
    BY <1>1, <1>2
  <2>3. QED
    BY <2>1, <2>2 DEF IsSeq, PartOf
<1>3. CASE i > j
  <2>1. SubSeq(w, i, j) = << >>
    BY <1>1, <1>3, SubSeqEmpty
  <2>2. QED
    BY <2>1, FewPackets DEF PartOf
<1>4. QED
  BY <1>2, <1>3

\* A side goes on to z and sends what it may.
LEMMA GoesOn ==
  ASSUME NEW a, NEW b, NEW x, NEW y, NEW z, Grows(x, z, y), Holds(a, b, z, y),
         NEW out, IsSeq(out), \A n \in 1..Len(out) : IsFrom(a, b, z, y, out[n])
  PROVE  Good(a, b, x, y, Result(z, out))
<1>1. PICK r : r = Result(z, out)
  OBVIOUS
<1>2. r.x = z /\ r.out = out
  BY <1>1 DEF Result
<1>3. Good(a, b, x, y, r)
  BY <1>2 DEF Good
<1>4. QED
  BY <1>1, <1>3
LEMMA GoesOnSaying ==
  ASSUME NEW a, NEW b, NEW x, NEW y, NEW z, Grows(x, z, y), Holds(a, b, z, y), NEW m, IsFrom(a, b, z, y, m)
  PROVE  Good(a, b, x, y, Result(z, <<m>>)) /\ Good(a, b, x, y, Result(z, << >>))
<1>1. PICK e : e = << >>
  OBVIOUS
<1>2. IsSeq(e) /\ \A n \in 1..Len(e) : IsFrom(a, b, z, y, e[n])
  BY <1>1, FewPackets
<1>3. PICK o : o = <<m>>
  OBVIOUS
<1>4. IsSeq(o) /\ \A n \in 1..Len(o) : IsFrom(a, b, z, y, o[n])
  BY <1>3, FewPackets
<1>5. Good(a, b, x, y, Result(z, e))
  BY <1>2, GoesOn
<1>6. Good(a, b, x, y, Result(z, o))
  BY <1>4, GoesOn
<1>7. QED
  BY <1>1, <1>3, <1>5, <1>6

\* A packet that was not seen to be for this socket: the request again, or twice.
LEMMA Repeated ==
  ASSUME NEW a \in Roles, NEW b, NEW x, NEW y, Holds(a, b, x, y), x.status = "connecting"
  PROVE  Good(a, b, x, y, Confused(x))
<1>1. PICK w : w = [x EXCEPT !.mine = FALSE]
  OBVIOUS
<1>2. IsSide(x) /\ Well(a, x.u, y.u.opt) /\ Trying(a, b, x, y) /\ Carries(a, b, x, y) /\ ~Reached(x)
  BY DEF Holds, Reached
<1>3. /\ IsSide(w) /\ w.u = x.u /\ w.status = x.status /\ w.rdv = x.rdv /\ w.type = x.type /\ w.ext = x.ext
      /\ w.res = x.res /\ w.pkt = x.pkt /\ w.mine = FALSE
  BY <1>1, <1>2 DEF IsSide, Fields
<1>4. Grows(x, w, y)
  BY <1>2, <1>3 DEF Grows
<1>5. Carries(a, b, w, y)
  BY <1>2, <1>3, <1>4, Onward
<1>6. Trying(a, b, w, y)
  BY <1>2, <1>3 DEF Trying, Stands, LastRead, HasAnswered
<1>7. Holds(a, b, w, y)
  BY <1>2, <1>3, <1>5, <1>6 DEF Holds, Arrived, Reached
<1>8. PICK r : r = RepeatRequest(w)
  OBVIOUS
<1>9. Good(a, b, w, y, r)
  BY <1>3, <1>7, <1>8, Repeats DEF Roles
<1>10. Good(a, b, x, y, r)
  BY <1>4, <1>9, GoodAfter
<1>11. Good(a, b, x, y, Result(r.x, r.out \o r.out))
  <2>1. /\ Grows(x, r.x, y) /\ Holds(a, b, r.x, y)
        /\ IsSeq(r.out) /\ \A n \in 1..Len(r.out) : IsFrom(a, b, r.x, y, r.out[n])
    BY <1>10 DEF Good
  <2>2. IsSeq(r.out \o r.out) /\ \A n \in 1..Len(r.out \o r.out) : IsFrom(a, b, r.x, y, (r.out \o r.out)[n])
    <3>1. PICK p : p = r.out \o r.out
      OBVIOUS
    <3>2. OfBoth(p, r.out, r.out)
      BY <2>1, <3>1, Joined
    <3>3. IsSeq(p) /\ \A n \in 1..Len(p) : IsFrom(a, b, r.x, y, p[n])
      BY <2>1, <3>2 DEF OfBoth
    <3>4. QED
      BY <3>1, <3>3
  <2>3. QED
    BY <2>1, <2>2, GoesOn
<1>12. Confused(x) \in {r, Result(r.x, r.out \o r.out)}
  BY <1>1, <1>8 DEF Confused
<1>13. QED
  BY <1>10, <1>11, <1>12

\* CUDT::processConnectResponse and what is made of it.
LEMMA Connects ==
  ASSUME NEW s \in Sides, NEW a \in Roles, NEW b \in Roles, a = Role(s), ~(a = "initiator" /\ b = "initiator"),
         NEW x, NEW y, Holds(a, b, x, y), x.status = "connecting", Holds(b, a, y, x),
         NEW m, IsFrom(b, a, y, x, m)
  PROVE  Good(a, b, x, y, Connecting(s, x, m))
<1>1. /\ IsSide(x) /\ Well(a, x.u, y.u.opt) /\ Trying(a, b, x, y) /\ Carries(a, b, x, y) /\ ~Reached(x)
      /\ Stands(a, b, x, y)
  BY DEF Holds, Reached, Trying
<1>2. Good(a, b, x, y, Confused(x))
  BY Repeated
<1>3. CASE m.type = "data" /\ x.res # NoRes
  <2>1. Reached(y) /\ HasAnswered(a, b, x, y)
    BY <1>1, <1>3, PeerReached DEF IsFrom
  <2>2. Connecting(s, x, m) = Result(Connected(x), << >>)
    BY <1>3 DEF Connecting
  <2>3. QED
    BY <1>1, <2>1, <2>2, Arrives
<1>4. CASE m.type \in {"data", "shut"} /\ ~(m.type = "data" /\ x.res # NoRes)
  <2>1. Connecting(s, x, m) = Confused(x)
    BY <1>4 DEF Connecting
  <2>2. QED
    BY <1>2, <2>1
<1>5. CASE ~(m.type \in {"data", "shut"})
  <2>1. PICK z : z = [x EXCEPT !.res = m, !.mine = (m.to = "id")]
    OBVIOUS
  <2>2. /\ IsSide(z) /\ z.u = x.u /\ z.status = x.status /\ z.rdv = x.rdv /\ z.type = x.type /\ z.ext = x.ext
        /\ z.res = m /\ z.pkt = x.pkt /\ z.mine = (m.to = "id")
    BY <1>1, <2>1 DEF IsSide, Fields
  <2>3. Grows(x, z, y) /\ ~Reached(z)
    BY <1>1, <2>2 DEF Grows, Reached
  <2>4. Carries(a, b, z, y)
    BY <1>1, <2>2, <2>3, Onward
  <2>5. Stands(a, b, z, y)
    <3>1. z.mine \in BOOLEAN
      BY <2>2
    <3>2. QED
      BY <1>1, <2>2, <3>1 DEF Stands, HasAnswered
  <2>6. PICK r : r = Connecting(s, x, m)
    OBVIOUS
  <2>7. CASE m.type = "fail"
    <3>1. PICK q : q = [z EXCEPT !.u = Reject(z.u, "peer"), !.status = "failed"]
      OBVIOUS
    <3>2. IsSide(q) /\ q.u = Reject(x.u, "peer") /\ q.status = "failed" /\ q.res = z.res /\ q.pkt = z.pkt
      BY <2>2, <3>1 DEF IsSide, Fields
    <3>3. SameAll(x.u, q.u)
      BY <1>1, <3>2, Rejecting DEF Well
    <3>4. Well(a, q.u, y.u.opt)
      BY <1>1, <3>3, WellSame
    <3>5. Grows(z, q, y)
      BY <2>2, <2>3, <3>3, GrowsSame
    <3>6. Carries(a, b, q, y)
      BY <2>4, <3>2, <3>5, Onward
    <3>7. Holds(a, b, q, y)
      BY <3>2, <3>4, <3>6 DEF Holds, Trying, Arrived, Reached
    <3>8. IsFrom(a, b, q, y, Msg("id", "shut", NoExt))
      BY PlainIsFrom
    <3>9. r \in {Result(q, <<Msg("id", "shut", NoExt)>>), Result(q, << >>)}
      BY <1>5, <2>1, <2>6, <2>7, <3>1 DEF Connecting, Shutdown
    <3>10. Good(a, b, z, y, r)
      BY <3>5, <3>7, <3>8, <3>9, GoesOnSaying
    <3>11. QED
      BY <2>3, <2>6, <3>10, GoodAfter
  <2>8. CASE m.type # "fail" /\ m.to = "zero" /\ loop = "async"
    <3>1. r = RepeatRequest(z)
      BY <1>5, <2>1, <2>6, <2>8 DEF Connecting
    <3>2. LastRead(z)
      BY <2>2, <2>8 DEF LastRead
    <3>3. Holds(a, b, z, y)
      BY <1>1, <2>2, <2>3, <2>4, <2>5, <3>2 DEF Holds, Trying, Arrived
    <3>4. Good(a, b, z, y, r)
      BY <2>2, <3>1, <3>3, Repeats DEF Roles
    <3>5. QED
      BY <2>3, <2>6, <3>4, GoodAfter
  <2>9. CASE m.type # "fail" /\ ~(m.to = "zero" /\ loop = "async")
    <3>1. r = ProcessRendezvous(s, z, TRUE)
      BY <1>5, <2>1, <2>6, <2>9 DEF Connecting
    <3>2. Well(a, z.u, y.u.opt)
      BY <1>1, <2>2
    <3>3. Holds(b, a, y, z)
      BY <2>3, Kept
    <3>4. Good(a, b, z, y, r)
      BY <2>2, <2>4, <2>5, <3>1, <3>2, <3>3, Processes
    <3>5. QED
      BY <2>3, <2>6, <3>4, GoodAfter
  <2>10. QED
    BY <2>7, <2>8, <2>9
<1>6. QED
  BY <1>3, <1>4, <1>5

\* CUDT::processCtrl of a socket that is connected.
LEMMA StaysConnected ==
  ASSUME NEW a \in Roles, NEW b \in Roles, NEW x, NEW y, Holds(a, b, x, y), x.status = "connected",
         Holds(b, a, y, x), NEW m, IsFrom(b, a, y, x, m)
  PROVE  Good(a, b, x, y, Established(x, m))
<1>1. /\ IsSide(x) /\ Well(a, x.u, y.u.opt) /\ Carries(a, b, x, y) /\ Arrived(a, b, x, y) /\ Reached(x)
      /\ IsSocket(x.u)
  BY DEF Holds, Reached, Well
<1>2. PICK l, p : l = x.u.opt /\ p = y.u.opt
  OBVIOUS
<1>3. IsOptions(l) /\ IsOptions(p)
  BY <1>1, <1>2 DEF Holds, Well
<1>4. Grows(x, x, y)
  BY DEF Grows
<1>5. PICK r : r = Established(x, m)
  OBVIOUS
<1>6. CASE m.to = "zero" \/ m.type \in {"data", "agree"}
  <2>1. r = Result(x, << >>)
    BY <1>5, <1>6 DEF Established
  <2>2. IsFrom(a, b, x, y, x.pkt)
    BY <1>1 DEF Carries
  <2>3. QED
    BY <1>4, <1>5, <2>1, <2>2, GoesOnSaying
<1>7. CASE ~(m.to = "zero" \/ m.type \in {"data", "agree"}) /\ m.type = "shut"
  <2>1. PICK z : z = [x EXCEPT !.status = "broken"]
    OBVIOUS
  <2>2. IsSide(z) /\ z.u = x.u /\ z.status = "broken" /\ z.res = x.res /\ z.pkt = x.pkt
    BY <1>1, <2>1 DEF IsSide, Fields
  <2>3. r = Result(z, << >>)
    BY <1>5, <1>7, <2>1 DEF Established
  <2>4. Grows(x, z, y) /\ Reached(z)
    BY <2>2 DEF Grows, Reached
  <2>5. Carries(a, b, z, y)
    BY <1>1, <2>2, <2>4, Onward
  <2>6. Arrived(a, b, z, y)
    BY <1>1, <2>2 DEF Arrived, HasAnswered
  <2>7. Holds(a, b, z, y)
    BY <1>1, <2>2, <2>5, <2>6 DEF Holds, Trying
  <2>8. IsFrom(a, b, z, y, z.pkt)
    BY <2>5 DEF Carries
  <2>9. QED
    BY <1>5, <2>3, <2>4, <2>7, <2>8, GoesOnSaying
<1>8. CASE /\ ~(m.to = "zero" \/ m.type \in {"data", "agree"}) /\ m.type # "shut"
           /\ x.res.ext = NoExt \/ m.type = "fail"
  <2>1. r = Result(x, <<Msg("id", "agree", NoExt)>>)
    BY <1>5, <1>8 DEF Established
  <2>2. IsFrom(a, b, x, y, Msg("id", "agree", NoExt))
    BY <1>1 DEF IsFrom, Msg
  <2>3. QED
    BY <1>4, <1>5, <2>1, <2>2, GoesOnSaying
<1>9. CASE /\ ~(m.to = "zero" \/ m.type \in {"data", "agree"}) /\ m.type # "shut"
           /\ ~(x.res.ext = NoExt \/ m.type = "fail")
  <2>1. PICK read : read = Interpret(x.u, m.ext, TRUE)
    OBVIOUS
  <2>2. PICK why : why = IF read.ok THEN x.u.reject ELSE "rogue"
    OBVIOUS
  <2>3. PICK v : v = Reject(read.u, why)
    OBVIOUS
  <2>4. PICK z : z = [x EXCEPT !.u = v]
    OBVIOUS
  <2>5. PICK k : k = Msg("id", IF read.ok THEN "agree" ELSE "fail", NoExt)
    OBVIOUS
  <2>6. r = Result(z, <<k>>)
    BY <1>5, <1>9, <2>1, <2>2, <2>3, <2>4, <2>5 DEF Established, Reject
  <2>7. Alike(x, z) /\ z.u = v /\ z.pkt = x.pkt
    BY <1>1, <2>4, SocketPut
  <2>8. IsSide(z) /\ z.status = "connected" /\ z.res = x.res /\ Reached(z)
    BY <2>7 DEF Alike, Reached
  <2>9. /\ SameSelf(x.u, read.u)
        /\ a = "responder" => Answers(read.u, l, p)
        /\ HasAnswered(a, b, x, y) => Answered(read.u, l, p)
        /\ HasAnswered(b, a, y, x) /\ Heard(x.u, p, l) => Heard(read.u, p, l)
        /\ HasAnswered(b, a, y, x) /\ Heard(x.u, p, l) /\ AllHeard(x.u, p, l) => AllHeard(read.u, p, l)
    <3>1. CASE m.ext = NoExt
      <4>1. SameAll(x.u, read.u)
        BY <1>1, <2>1, <3>1, NothingRead
      <4>2. SameSelf(x.u, read.u) /\ SameHs(x.u, read.u) /\ SameKm(x.u, read.u) /\ read.u.filter = x.u.filter
        BY <4>1 DEF SameAll
      <4>3. HasAnswered(a, b, x, y) => Answered(read.u, l, p)
        BY <1>2, <4>1, AnswersSame DEF HasAnswered
      <4>4. Heard(x.u, p, l) => Heard(read.u, p, l)
        BY <4>2 DEF Heard, Asks, KmOpen, HsHeard, SameSelf, SameHs, SameKm
      <4>5. AllHeard(x.u, p, l) => AllHeard(read.u, p, l)
        BY <4>2 DEF AllHeard
      <4>6. a = "responder" => Answers(read.u, l, p)
        <5>1. HasAnswered(b, a, y, x) => a = "initiator"
          BY DEF HasAnswered
        <5>2. a = "responder" => HasAnswered(a, b, x, y)
          BY <1>1, <5>1 DEF Arrived
        <5>3. QED
          BY <4>3, <5>2 DEF Answered
      <4>7. QED
        BY <4>2, <4>3, <4>4, <4>5, <4>6
    <3>2. CASE m.ext # NoExt /\ HasAnswered(a, b, x, y)
      <4>1. a = "responder" /\ b = "initiator" /\ Answered(x.u, l, p)
        BY <1>2, <3>2 DEF HasAnswered
      <4>2. IsReq(m.ext, p)
        BY <1>2, <3>2, <4>1 DEF IsFrom, HasAnswered
      <4>3. Answers(x.u, l, p)
        BY <4>1 DEF Answered
      <4>4. SameSelf(x.u, read.u) /\ Answered(read.u, l, p)
        BY <1>1, <1>3, <2>1, <4>1, <4>2, <4>3, ResponderReads
      <4>5. ~HasAnswered(b, a, y, x)
        BY <4>1 DEF HasAnswered
      <4>6. QED
        BY <4>4, <4>5 DEF Answered
    <3>3. CASE m.ext # NoExt /\ ~HasAnswered(a, b, x, y)
      <4>1. HasAnswered(b, a, y, x) /\ Heard(x.u, p, l)
        BY <1>1, <1>2, <3>3 DEF Arrived
      <4>2. a = "initiator" /\ b = "responder"
        BY <4>1 DEF HasAnswered
      <4>3. IsRsp(m.ext, p, l)
        BY <1>2, <3>3, <4>2 DEF IsFrom
      <4>4. Asks(x.u, p, l)
        BY <4>1 DEF Heard
      <4>5. /\ SameSelf(x.u, read.u) /\ Heard(read.u, p, l)
            /\ AllHeard(x.u, p, l) => AllHeard(read.u, p, l)
        BY <1>1, <1>3, <2>1, <4>3, <4>4, InitiatorReads
      <4>6. QED
        BY <3>3, <4>2, <4>5
    <3>4. QED
      BY <3>1, <3>2, <3>3
  <2>10. SameAll(read.u, v)
    BY <2>3, <2>9, Rejecting DEF SameSelf
  <2>11. /\ SameSelf(x.u, v)
         /\ a = "responder" => Answers(v, l, p)
         /\ HasAnswered(a, b, x, y) => Answered(v, l, p)
         /\ HasAnswered(b, a, y, x) /\ Heard(x.u, p, l) => Heard(v, p, l)
         /\ HasAnswered(b, a, y, x) /\ Heard(x.u, p, l) /\ AllHeard(x.u, p, l) => AllHeard(v, p, l)
    <3>1. SameSelf(read.u, v) /\ SameHs(read.u, v) /\ SameKm(read.u, v) /\ v.filter = read.u.filter
      BY <2>10 DEF SameAll
    <3>2. SameSelf(x.u, v)
      BY <2>9, <3>1 DEF SameSelf
    <3>3. Heard(read.u, p, l) => Heard(v, p, l)
      BY <3>1 DEF Heard, Asks, KmOpen, HsHeard, SameSelf, SameHs, SameKm
    <3>4. AllHeard(read.u, p, l) => AllHeard(v, p, l)
      BY <3>1 DEF AllHeard
    <3>5. QED
      BY <2>9, <2>10, <3>2, <3>3, <3>4, AnswersSame
  <2>12. z.u.opt = l /\ z.u.crypter = x.u.crypter
    BY <1>2, <2>7, <2>11 DEF SameSelf
  <2>13. HasAnswered(a, b, x, y) => HasAnswered(a, b, z, y)
    BY <1>2, <2>7, <2>11, <2>12 DEF HasAnswered, SameSelf
  <2>14. HasAnswered(a, b, x, y) \/ HasAnswered(b, a, y, x)
    BY <1>1 DEF Arrived
  <2>15. x.u.side = "responder" /\ Answered(x.u, l, p) => v.side = "responder" /\ Answered(v, l, p)
    <3>1. v.side = x.u.side
      BY <2>11 DEF SameSelf
    <3>2. HasAnswered(b, a, y, x) => x.u.side = "initiator"
      BY <1>1 DEF HasAnswered, Well
    <3>3. QED
      BY <2>11, <2>14, <3>1, <3>2
  <2>16. Grows(x, z, y)
    BY <1>2, <2>7, <2>8, <2>12, <2>15 DEF Grows
  <2>17. Carries(a, b, z, y)
    BY <1>1, <2>7, <2>8, <2>16, Onward
  <2>18. HasAnswered(b, a, y, x) => HasAnswered(b, a, y, z)
    BY <1>2, <2>7, <2>12 DEF HasAnswered
  <2>19. Arrived(a, b, z, y)
    BY <1>1, <1>2, <2>7, <2>11, <2>12, <2>13, <2>18 DEF Arrived
  <2>20. Well(a, z.u, y.u.opt)
    <3>1. IsSocket(v) /\ v.opt = l /\ v.side = x.u.side /\ v.crypter = x.u.crypter
      BY <1>2, <2>11 DEF SameSelf
    <3>2. x.u.crypter = TRUE
      <4>1. HasAnswered(b, a, y, x) => x.u.crypter = TRUE
        BY DEF HasAnswered
      <4>2. HasAnswered(a, b, x, y) => x.u.crypter = TRUE
        BY <1>1 DEF HasAnswered, Well, Fresh, Answered, HsRead
      <4>3. QED
        BY <2>14, <4>1, <4>2
    <3>3. QED
      BY <1>1, <1>2, <1>3, <2>7, <2>11, <3>1, <3>2 DEF Well
  <2>21. Holds(a, b, z, y)
    BY <2>8, <2>17, <2>19, <2>20 DEF Holds, Trying
  <2>22. IsFrom(a, b, z, y, k)
    BY <2>5, <2>8 DEF IsFrom, Msg
  <2>23. QED
    BY <1>5, <2>6, <2>16, <2>21, <2>22, GoesOnSaying
<1>10. QED
  BY <1>5, <1>6, <1>7, <1>8, <1>9

-----------------------------------------------------------------------------
(* The invariant, and the steps.                                           *)

IInv ==
    /\ cookie \in Cookies
    /\ c = [s \in Sides |-> c[s]] /\ wire = [s \in Sides |-> wire[s]]
    /\ \A s \in Sides :
         /\ Holds(Role(s), Role(Peer(s)), c[s], c[Peer(s)])
         /\ IsSeq(wire[s])
         /\ \A n \in 1..Len(wire[s]) : IsFrom(Role(Peer(s)), Role(s), c[Peer(s)], c[s], wire[s][n])

\* Both sides start alike.
LEMMA Starts == Init => IInv
<1> SUFFICES ASSUME Init PROVE IInv
  OBVIOUS
<1>1. cookie \in Cookies /\ wire = [s \in Sides |-> <<Msg("zero", "wave", NoExt)>>]
  BY DEF Init
<1>2. PICK o \in Pairs : c = [s \in Sides |-> Start(o[s])]
  BY DEF Init
<1>3. ASSUME NEW s \in Sides
      PROVE  /\ Holds(Role(s), Role(Peer(s)), c[s], c[Peer(s)])
             /\ IsSeq(wire[s])
             /\ \A n \in 1..Len(wire[s]) : IsFrom(Role(Peer(s)), Role(s), c[Peer(s)], c[s], wire[s][n])
  <2>1. PICK a, b, t : a = Role(s) /\ b = Role(Peer(s)) /\ t = Peer(s)
    OBVIOUS
  <2>2. a \in Roles /\ t \in Sides
    BY <1>1, <2>1, OneInitiator
  <2>3. PICK x, y, l : x = c[s] /\ y = c[t] /\ l = o[s]
    OBVIOUS
  <2>4. x = Start(l) /\ y = Start(o[t]) /\ IsOptions(l)
    BY <1>2, <2>2, <2>3, OptionsAssumption
  <2>5. PICK u : u = Opened(l)
    OBVIOUS
  <2>6. /\ IsSide(x) /\ x.u = u /\ x.status = "connecting" /\ x.rdv = "waving" /\ x.type = "wave" /\ x.ext = FALSE
        /\ x.res = NoRes /\ x.pkt = Msg("zero", "wave", NoExt) /\ x.mine = FALSE
    BY <2>4, <2>5 DEF Start, IsSide, Fields
  <2>7. IsSocket(u) /\ u.opt = l /\ u.side = "draw" /\ u.crypter = FALSE /\ u.started = FALSE /\ Fresh(u)
    BY <2>5 DEF Opened, IsSocket, Members, Fresh
  <2>8. Well(a, x.u, y.u.opt)
    BY <2>4, <2>6, <2>7 DEF Well
  <2>9. Trying(a, b, x, y)
    BY <2>6, <2>7 DEF Trying, Stands, LastRead
  <2>10. Carries(a, b, x, y)
    BY <2>6, PlainIsFrom DEF Carries, NoRes
  <2>11. Holds(a, b, x, y)
    BY <2>6, <2>8, <2>9, <2>10 DEF Holds, Arrived, Reached
  <2>12. wire[s] = <<Msg("zero", "wave", NoExt)>>
    BY <1>1
  <2>13. IsFrom(b, a, y, x, Msg("zero", "wave", NoExt))
    BY PlainIsFrom
  <2>14. IsSeq(wire[s]) /\ \A n \in 1..Len(wire[s]) : IsFrom(b, a, y, x, wire[s][n])
    BY <2>12, <2>13, FewPackets
  <2>15. QED
    BY <2>1, <2>3, <2>11, <2>14
<1>4. c = [s \in Sides |-> c[s]]
  BY <1>2
<1>5. wire = [s \in Sides |-> wire[s]]
  BY <1>1
<1>6. QED
  BY <1>1, <1>3, <1>4, <1>5 DEF IInv

\* A step of one side: it goes on, packets leave the wire to it, and those that it sends, or
\* some of them, join the others.
Joins(p, w, a, b, z, y) ==
    IsSeq(p) /\ \A n \in 1..Len(p) : IsFrom(a, b, z, y, p[n]) \/ \E k \in 1..Len(w) : p[n] = w[k]
LEMMA Moves ==
  ASSUME IInv, NEW s \in Sides, NEW z, Grows(c[s], z, c[Peer(s)]),
         Holds(Role(s), Role(Peer(s)), z, c[Peer(s)]),
         cookie' = cookie, c' = [c EXCEPT ![s] = z], wire' = [q \in Sides |-> wire'[q]],
         PartOf(wire'[s], wire[s]),
         Joins(wire'[Peer(s)], wire[Peer(s)], Role(s), Role(Peer(s)), z, c[Peer(s)])
  PROVE  IInv'
<1>1. PICK a, b, t : a = Role(s) /\ b = Role(Peer(s)) /\ t = Peer(s)
  OBVIOUS
<1>2. t \in Sides /\ t # s /\ Peer(t) = s /\ (\A q \in Sides : q = s \/ q = t)
  BY <1>1 DEF Peer, Sides
<1>3. PICK x, y : x = c[s] /\ y = c[t]
  OBVIOUS
<1>4. c'[s] = z /\ c'[t] = y /\ c' = [q \in Sides |-> c'[q]]
  BY <1>2, <1>3 DEF IInv
<1>5. Role(s)' = a /\ Role(Peer(s))' = b /\ Role(t)' = b /\ Role(Peer(t))' = a /\ Role(t) = b /\ Role(Peer(t)) = a
  BY <1>1, <1>2 DEF Role
<1>6. Grows(x, z, y) /\ Holds(a, b, z, y)
  BY <1>1, <1>3
<1>7. Holds(b, a, y, x)
  BY <1>2, <1>3, <1>5 DEF IInv
<1>8. Holds(b, a, y, z)
  BY <1>6, <1>7, Kept
<1>9. \A n \in 1..Len(wire[s]) : IsFrom(b, a, y, x, wire[s][n])
  BY <1>1, <1>3 DEF IInv
<1>10. \A n \in 1..Len(wire'[s]) : IsFrom(b, a, y, z, wire'[s][n])
  <2>1. TAKE n \in 1..Len(wire'[s])
  <2>2. PICK k \in 1..Len(wire[s]) : wire'[s][n] = wire[s][k]
    BY DEF PartOf
  <2>3. IsFrom(b, a, y, x, wire'[s][n])
    BY <1>9, <2>2
  <2>4. QED
    BY <1>6, <2>3, Kept
<1>11. \A n \in 1..Len(wire[t]) : IsFrom(a, b, x, y, wire[t][n])
  BY <1>2, <1>3, <1>5 DEF IInv
<1>12. \A n \in 1..Len(wire'[t]) : IsFrom(a, b, z, y, wire'[t][n])
  <2>1. TAKE n \in 1..Len(wire'[t])
  <2>2. CASE IsFrom(a, b, z, y, wire'[t][n])
    BY <2>2
  <2>3. CASE \E k \in 1..Len(wire[t]) : wire'[t][n] = wire[t][k]
    <3>1. IsFrom(a, b, x, y, wire'[t][n])
      BY <1>11, <2>3
    <3>2. QED
      BY <1>6, <3>1, Kept
  <2>4. QED
    BY <1>1, <1>3, <2>2, <2>3 DEF Joins
<1>13. cookie' \in Cookies
  BY DEF IInv
<1>14. IsSeq(wire'[s]) /\ IsSeq(wire'[t])
  BY <1>1 DEF PartOf, Joins
<1>15. ASSUME NEW q \in Sides
       PROVE  /\ Holds(Role(q)', Role(Peer(q))', c'[q], c'[Peer(q)])
              /\ IsSeq(wire'[q])
              /\ \A n \in 1..Len(wire'[q]) : IsFrom(Role(Peer(q))', Role(q)', c'[Peer(q)], c'[q], wire'[q][n])
  <2>1. CASE q = s
    BY <1>1, <1>4, <1>5, <1>6, <1>10, <1>14, <2>1
  <2>2. CASE q = t
    <3>1. Peer(q) = s /\ Role(q)' = b /\ Role(Peer(q))' = a
      BY <1>2, <1>5, <2>2
    <3>2. QED
      BY <1>1, <1>4, <1>8, <1>12, <1>14, <2>2, <3>1
  <2>3. QED
    BY <1>2, <2>1, <2>2
<1>16. QED
  BY <1>4, <1>13, <1>15 DEF IInv

\* Such a step, by one of the decisions.
LEMMA Decides ==
  ASSUME IInv, NEW s \in Sides, NEW n, n = 0 \/ n \in 1..Len(wire[s]), NEW r,
         Good(Role(s), Role(Peer(s)), c[s], c[Peer(s)], r), Step(s, r, n)
  PROVE  IInv'
<1>1. PICK t : t = Peer(s)
  OBVIOUS
<1>2. t \in Sides /\ t # s
  BY <1>1 DEF Peer, Sides
<1>3. PICK v, w : v = wire[s] /\ w = wire[t]
  OBVIOUS
<1>4. IsSeq(v) /\ IsSeq(w) /\ wire = [q \in Sides |-> wire[q]]
  BY <1>2, <1>3 DEF IInv
<1>5. PICK all : all = w \o r.out
  OBVIOUS
<1>6. PICK j : j = Min({Len(all), Capacity})
  OBVIOUS
<1>7. /\ wire' = [q \in Sides |-> wire'[q]]
      /\ wire'[s] = (IF n = 0 THEN v ELSE RemoveAt(v, n))
      /\ wire'[t] = SubSeq(all, 1, j)
  <2>1. PICK f, g : f = (IF n = 0 THEN v ELSE RemoveAt(v, n)) /\ g = SubSeq(all, 1, j)
    OBVIOUS
  <2>2. wire' = [wire EXCEPT ![s] = f, ![t] = g]
    BY <1>1, <1>2, <1>3, <1>4, <1>5, <1>6, <2>1 DEF Step
  <2>3. wire' = [q \in Sides |-> wire'[q]] /\ wire'[s] = f /\ wire'[t] = g
    BY <1>2, <1>4, <2>2
  <2>4. QED
    BY <2>1, <2>3
<1>8. IsSeq(r.out) /\ \A i \in 1..Len(r.out) : IsFrom(Role(s), Role(Peer(s)), r.x, c[Peer(s)], r.out[i])
  BY DEF Good
<1>9. OfBoth(all, w, r.out)
  <2>1. OfBoth(w \o r.out, w, r.out)
    BY <1>4, <1>8, Joined
  <2>2. QED
    BY <1>5, <2>1
<1>10. IsSeq(all) /\ Len(all) \in Nat
  BY <1>9 DEF OfBoth, IsSeq
<1>11. j \in Int /\ j <= Len(all) /\ 1 \in Int
  BY <1>6, <1>10, CookieAssumption DEF Min
<1>12. PartOf(wire'[t], all)
  <2>1. PartOf(SubSeq(all, 1, j), all)
    BY <1>10, <1>11, Cut
  <2>2. PICK p : p = SubSeq(all, 1, j)
    OBVIOUS
  <2>3. PartOf(p, all) /\ wire'[t] = p
    BY <1>7, <2>1, <2>2
  <2>4. QED
    BY <2>3
<1>13. Joins(wire'[t], w, Role(s), Role(Peer(s)), r.x, c[Peer(s)])
  <2>1. PICK p : p = wire'[t]
    OBVIOUS
  <2>2. IsSeq(p) /\ \A i \in 1..Len(p) : \E k \in 1..Len(all) : p[i] = all[k]
    BY <1>12, <2>1 DEF PartOf
  <2>3. ASSUME NEW i \in 1..Len(p)
        PROVE  IsFrom(Role(s), Role(Peer(s)), r.x, c[Peer(s)], p[i]) \/ \E k \in 1..Len(w) : p[i] = w[k]
    <3>1. PICK h \in 1..Len(all) : p[i] = all[h]
      BY <2>2
    <3>2. QED
      BY <1>8, <1>9, <3>1 DEF OfBoth
  <2>4. QED
    BY <2>1, <2>2, <2>3 DEF Joins
<1>14. PartOf(wire'[s], v)
  <2>1. CASE n = 0
    BY <1>4, <1>7, <2>1 DEF PartOf
  <2>2. CASE n # 0
    <3>1. Len(v) \in Nat /\ n \in 1..Len(v)
      BY <1>3, <1>4, <2>2 DEF IsSeq
    <3>2. PICK f, g : f = SubSeq(v, 1, n - 1) /\ g = SubSeq(v, n + 1, Len(v))
      OBVIOUS
    <3>3. PICK m, h : m = n - 1 /\ h = n + 1
      OBVIOUS
    <3>4. m \in Int /\ h \in Int /\ 1 <= h /\ m <= Len(v) /\ Len(v) \in Int /\ 1 \in Int
      BY <3>1, <3>3
    <3>5. PartOf(SubSeq(v, 1, m), v)
      <4>1. PICK o : o = 1
        OBVIOUS
      <4>2. o \in Int /\ 1 <= o
        BY <4>1
      <4>3. PartOf(SubSeq(v, o, m), v)
        BY <1>4, <3>4, <4>2, Cut
      <4>4. QED
        BY <4>1, <4>3
    <3>6. PartOf(SubSeq(v, h, Len(v)), v)
      BY <1>4, <3>4, Cut
    <3>7. PartOf(f, v) /\ PartOf(g, v)
      BY <3>2, <3>3, <3>5, <3>6
    <3>8. PICK p : p = f \o g
      OBVIOUS
    <3>9. OfBoth(p, f, g)
      <4>1. IsSeq(f) /\ IsSeq(g)
        BY <3>7 DEF PartOf
      <4>2. OfBoth(f \o g, f, g)
        BY <4>1, Joined
      <4>3. QED
        BY <3>8, <4>2
    <3>10. wire'[s] = p
      BY <1>7, <2>2, <3>2, <3>8 DEF RemoveAt
    <3>11. ASSUME NEW i \in 1..Len(p) PROVE \E k \in 1..Len(v) : p[i] = v[k]
      BY <3>7, <3>9 DEF PartOf, OfBoth
    <3>12. PartOf(p, v)
      BY <3>9, <3>11 DEF PartOf, OfBoth
    <3>13. QED
      BY <3>10, <3>12
  <2>3. QED
    BY <2>1, <2>2
<1>15. cookie' = cookie /\ c' = [c EXCEPT ![s] = r.x]
  BY DEF Step
<1>16. Grows(c[s], r.x, c[Peer(s)]) /\ Holds(Role(s), Role(Peer(s)), r.x, c[Peer(s)])
  BY DEF Good
<1>17. QED
  BY <1>1, <1>3, <1>7, <1>13, <1>14, <1>15, <1>16, Moves

\* The roles of the two sides, and what each is known to be.
LEMMA Facing ==
  ASSUME IInv, NEW s \in Sides
  PROVE  /\ Role(s) \in Roles /\ Role(Peer(s)) \in Roles
         /\ ~(Role(s) = "initiator" /\ Role(Peer(s)) = "initiator")
         /\ Holds(Role(s), Role(Peer(s)), c[s], c[Peer(s)])
         /\ Holds(Role(Peer(s)), Role(s), c[Peer(s)], c[s])
         /\ \A n \in 1..Len(wire[s]) : IsFrom(Role(Peer(s)), Role(s), c[Peer(s)], c[s], wire[s][n])
         /\ IsSeq(wire[s]) /\ IsSeq(wire[Peer(s)]) /\ IsSide(c[s])
<1>1. cookie \in Cookies
  BY DEF IInv
<1>2. PICK t : t = Peer(s)
  OBVIOUS
<1>3. t \in Sides /\ Peer(t) = s
  BY <1>1, <1>2, OneInitiator
<1>4. Holds(Role(t), Role(Peer(t)), c[t], c[Peer(t)]) /\ IsSeq(wire[t])
  BY <1>3 DEF IInv
<1>5. Holds(Role(s), Role(Peer(s)), c[s], c[Peer(s)])
  BY DEF IInv
<1>6. IsSide(c[s])
  BY <1>5 DEF Holds
<1>7. QED
  BY <1>1, <1>2, <1>3, <1>4, <1>5, <1>6, OneInitiator DEF IInv

LEMMA Receives == ASSUME IInv, NEW s \in Sides, Receive(s) PROVE IInv'
<1>1. PICK n, r :
        /\ n \in Arrivals(s)
        /\ r = (IF c[s].status = "connecting" THEN Connecting(s, c[s], wire[s][n])
                ELSE IF c[s].status = "connected" THEN Established(c[s], wire[s][n])
                ELSE Result(c[s], << >>))
        /\ Step(s, r, n)
  BY DEF Receive
<1>2. PICK a, b, x, y, m : a = Role(s) /\ b = Role(Peer(s)) /\ x = c[s] /\ y = c[Peer(s)] /\ m = wire[s][n]
  OBVIOUS
<1>3. n \in 1..Len(wire[s])
  <2>1. PICK S : wire[s] \in Seq(S)
    BY Facing DEF IsSeq
  <2>2. n \in DOMAIN wire[s] \/ (n = 1 /\ wire[s] # << >>)
    BY <1>1 DEF Arrivals
  <2>3. QED
    BY <2>1, <2>2, EmptySeq, LenProperties
<1>4. /\ a \in Roles /\ b \in Roles /\ ~(a = "initiator" /\ b = "initiator")
      /\ Holds(a, b, x, y) /\ Holds(b, a, y, x) /\ IsFrom(b, a, y, x, m)
  BY <1>2, <1>3, Facing
<1>5. Good(a, b, x, y, r)
  <2>1. CASE x.status = "connecting"
    <3>1. r = Connecting(s, x, m)
      BY <1>1, <1>2, <2>1
    <3>2. Good(a, b, x, y, Connecting(s, x, m))
      BY <1>2, <1>4, <2>1, Connects
    <3>3. QED
      BY <3>1, <3>2
  <2>2. CASE x.status = "connected"
    <3>1. r = Established(x, m)
      BY <1>1, <1>2, <2>2
    <3>2. Good(a, b, x, y, Established(x, m))
      BY <1>4, <2>2, StaysConnected
    <3>3. QED
      BY <3>1, <3>2
  <2>3. CASE x.status # "connecting" /\ x.status # "connected"
    <3>1. r = Result(x, << >>)
      BY <1>1, <1>2, <2>3
    <3>2. Grows(x, x, y)
      BY DEF Grows
    <3>3. Good(a, b, x, y, Result(x, << >>))
      BY <1>4, <3>2, GoesOn, FewPackets
    <3>4. QED
      BY <3>1, <3>3
  <2>4. QED
    BY <2>1, <2>2, <2>3
<1>6. QED
  BY <1>1, <1>2, <1>3, <1>5, Decides

LEMMA Retries == ASSUME IInv, NEW s \in Sides, Retry(s) PROVE IInv'
<1>1. PICK r :
        /\ r = (IF loop = "sync" THEN Result(c[s], <<[c[s].pkt EXCEPT !.to = To(c[s])]>>)
                ELSE IF c[s].mine THEN ProcessRendezvous(s, c[s], FALSE)
                ELSE RepeatRequest(c[s]))
        /\ Step(s, r, 0) /\ c[s].status = "connecting"
  BY DEF Retry, CanRetry
<1>2. PICK a, b, x, y : a = Role(s) /\ b = Role(Peer(s)) /\ x = c[s] /\ y = c[Peer(s)]
  OBVIOUS
<1>3. /\ a \in Roles /\ b \in Roles /\ ~(a = "initiator" /\ b = "initiator")
      /\ Holds(a, b, x, y) /\ Holds(b, a, y, x) /\ x.status = "connecting"
  BY <1>1, <1>2, Facing
<1>4. /\ IsSide(x) /\ Well(a, x.u, y.u.opt) /\ Stands(a, b, x, y) /\ LastRead(x) /\ Carries(a, b, x, y)
      /\ Grows(x, x, y) /\ x.mine \in BOOLEAN
  BY <1>3 DEF Holds, Trying, Grows, Stands
<1>5. Good(a, b, x, y, r)
  <2>1. CASE loop = "sync"
    <3>1. PICK p, q : p = x.pkt /\ q = [p EXCEPT !.to = To(x)]
      OBVIOUS
    <3>2. r = Result(x, <<q>>)
      BY <1>1, <1>2, <2>1, <3>1
    <3>3. IsFrom(a, b, x, y, p)
      BY <1>4, <3>1 DEF Carries
    <3>4. p = Msg(p.to, p.type, p.ext)
      BY <3>3 DEF IsFrom
    <3>5. q = Msg(q.to, q.type, q.ext) /\ q.type = p.type /\ q.ext = p.ext
      BY <3>1, <3>4 DEF Msg
    <3>6. IsFrom(a, b, x, y, q)
      BY <3>3, <3>5 DEF IsFrom
    <3>7. QED
      BY <1>3, <1>4, <3>2, <3>6, GoesOnSaying
  <2>2. CASE loop # "sync" /\ x.mine = TRUE
    <3>1. r = ProcessRendezvous(s, x, FALSE)
      BY <1>1, <1>2, <2>2
    <3>2. Good(a, b, x, y, ProcessRendezvous(s, x, FALSE))
      BY <1>2, <1>3, <1>4, <2>2, Processes
    <3>3. QED
      BY <3>1, <3>2
  <2>3. CASE loop # "sync" /\ x.mine = FALSE
    <3>1. r = RepeatRequest(x)
      BY <1>1, <1>2, <2>3
    <3>2. QED
      BY <1>3, <3>1, Repeats DEF Roles
  <2>4. QED
    BY <1>4, <2>1, <2>2, <2>3
<1>6. QED
  BY <1>1, <1>2, <1>5, Decides

LEMMA Sends == ASSUME IInv, NEW s \in Sides, SendData(s) PROVE IInv'
<1>1. PICK r : r = Result(c[s], <<Msg("id", "data", NoExt)>>) /\ Step(s, r, 0) /\ c[s].status = "connected"
  BY DEF SendData, CanSend
<1>2. PICK a, b, x, y : a = Role(s) /\ b = Role(Peer(s)) /\ x = c[s] /\ y = c[Peer(s)]
  OBVIOUS
<1>3. Holds(a, b, x, y) /\ Reached(x) /\ Grows(x, x, y)
  BY <1>1, <1>2, Facing DEF Reached, Grows
<1>4. PICK m : m = Msg("id", "data", NoExt)
  OBVIOUS
<1>5. IsFrom(a, b, x, y, m)
  BY <1>3, <1>4 DEF IsFrom, Msg
<1>6. Good(a, b, x, y, r)
  BY <1>1, <1>2, <1>3, <1>4, <1>5, GoesOnSaying
<1>7. QED
  BY <1>1, <1>2, <1>6, Decides

\* A side goes on alone, and the packets stay where they are.
LEMMA Alone ==
  ASSUME IInv, NEW s \in Sides, NEW z, Grows(c[s], z, c[Peer(s)]),
         Holds(Role(s), Role(Peer(s)), z, c[Peer(s)]),
         cookie' = cookie, c' = [c EXCEPT ![s] = z], wire' = wire
  PROVE  IInv'
<1>1. wire' = [q \in Sides |-> wire'[q]]
  BY DEF IInv
<1>2. IsSeq(wire'[s]) /\ IsSeq(wire'[Peer(s)])
  BY Facing
<1>3. PartOf(wire'[s], wire[s])
  BY <1>2 DEF PartOf
<1>4. Joins(wire'[Peer(s)], wire[Peer(s)], Role(s), Role(Peer(s)), z, c[Peer(s)])
  BY <1>2 DEF Joins
<1>5. QED
  BY <1>1, <1>3, <1>4, Moves

LEMMA IsDisturbed == ASSUME IInv, NEW s \in Sides, OtherTraffic(s) PROVE IInv'
<1>1. PICK a, b, x, y, z : /\ a = Role(s) /\ b = Role(Peer(s)) /\ x = c[s] /\ y = c[Peer(s)]
                           /\ z = [x EXCEPT !.mine = FALSE]
  OBVIOUS
<1>2. Holds(a, b, x, y) /\ x.status = "connecting" /\ a \in Roles
  BY <1>1, Facing DEF OtherTraffic
<1>3. IsSide(x) /\ Well(a, x.u, y.u.opt) /\ Trying(a, b, x, y) /\ Carries(a, b, x, y) /\ ~Reached(x)
  BY <1>2 DEF Holds, Reached
<1>4. /\ IsSide(z) /\ z.u = x.u /\ z.status = x.status /\ z.rdv = x.rdv /\ z.type = x.type /\ z.ext = x.ext
      /\ z.res = x.res /\ z.pkt = x.pkt /\ z.mine = FALSE
  BY <1>1, <1>3 DEF IsSide, Fields
<1>5. Grows(x, z, y)
  BY <1>3, <1>4 DEF Grows
<1>6. Carries(a, b, z, y)
  BY <1>3, <1>4, <1>5, Onward
<1>7. Trying(a, b, z, y)
  BY <1>3, <1>4 DEF Trying, Stands, LastRead, HasAnswered
<1>8. Holds(a, b, z, y)
  BY <1>3, <1>4, <1>6, <1>7 DEF Holds, Arrived, Reached
<1>9. cookie' = cookie /\ wire' = wire /\ c' = [c EXCEPT ![s] = z]
  BY <1>1 DEF OtherTraffic
<1>10. QED
  BY <1>1, <1>5, <1>8, <1>9, Alone

LEMMA RunsOut == ASSUME IInv, NEW s \in Sides, Timeout(s) PROVE IInv'
<1>1. PICK a, b, x, y, z : /\ a = Role(s) /\ b = Role(Peer(s)) /\ x = c[s] /\ y = c[Peer(s)]
                           /\ z = [x EXCEPT !.status = "late"]
  OBVIOUS
<1>2. Holds(a, b, x, y) /\ x.status = "connecting" /\ a \in Roles
  BY <1>1, Facing DEF Timeout
<1>3. IsSide(x) /\ Well(a, x.u, y.u.opt) /\ Carries(a, b, x, y) /\ ~Reached(x)
  BY <1>2 DEF Holds, Reached
<1>4. IsSide(z) /\ z.u = x.u /\ z.status = "late" /\ z.res = x.res /\ z.pkt = x.pkt
  BY <1>1, <1>3 DEF IsSide, Fields
<1>5. Grows(x, z, y)
  BY <1>3, <1>4 DEF Grows
<1>6. Carries(a, b, z, y)
  BY <1>3, <1>4, <1>5, Onward
<1>7. Holds(a, b, z, y)
  BY <1>3, <1>4, <1>6 DEF Holds, Arrived, Reached, Trying
<1>8. cookie' = cookie /\ wire' = wire /\ c' = [c EXCEPT ![s] = z]
  BY <1>1 DEF Timeout
<1>9. QED
  BY <1>1, <1>5, <1>7, <1>8, Alone

LEMMA IsLost == ASSUME IInv, NEW s \in Sides, Lose(s) PROVE IInv'
<1>1. PICK t, v, w, x : t = Peer(s) /\ v = wire[s] /\ w = Tail(v) /\ x = c[s]
  OBVIOUS
<1>2. IsSeq(v) /\ v # << >> /\ IsSeq(wire[t]) /\ t \in Sides /\ t # s /\ wire = [q \in Sides |-> wire[q]]
  BY <1>1, Facing DEF Lose, IInv, Peer, Sides
<1>3. wire' = [q \in Sides |-> wire'[q]] /\ wire'[s] = w /\ wire'[t] = wire[t]
  BY <1>1, <1>2 DEF Lose
<1>4. PICK S : v \in Seq(S)
  BY <1>2 DEF IsSeq
<1>5. w \in Seq(S) /\ Len(w) = Len(v) - 1 /\ Len(v) \in Nat /\ \A n \in 1..Len(w) : w[n] = v[n + 1]
  BY <1>1, <1>2, <1>4, HeadTailProperties
<1>6. PartOf(w, v)
  <2>1. \A n \in 1..Len(w) : n + 1 \in 1..Len(v)
    BY <1>5
  <2>2. QED
    BY <1>5, <2>1 DEF IsSeq, PartOf
<1>7. c' = [c EXCEPT ![s] = x] /\ cookie' = cookie
  BY <1>1 DEF Lose, IInv
<1>8. Grows(c[s], x, c[Peer(s)]) /\ Holds(Role(s), Role(Peer(s)), x, c[Peer(s)])
  BY <1>1, Facing DEF Grows
<1>9. Joins(wire'[t], wire[t], Role(s), Role(t), x, c[t])
  BY <1>2, <1>3 DEF Joins
<1>10. PartOf(wire'[s], wire[s])
  BY <1>1, <1>3, <1>6
<1>11. Joins(wire'[Peer(s)], wire[Peer(s)], Role(s), Role(Peer(s)), x, c[Peer(s)])
  BY <1>1, <1>9
<1>12. QED
  BY <1>3, <1>7, <1>8, <1>10, <1>11, Moves

\* Nothing happens to the two sides.
LEMMA Stutters == ASSUME IInv, UNCHANGED vars PROVE IInv'
<1>1. cookie' = cookie /\ c' = c /\ wire' = wire
  BY DEF vars
<1>2. \A s : Role(s)' = Role(s)
  BY <1>1 DEF Role
<1>3. QED
  BY <1>1, <1>2 DEF IInv

-----------------------------------------------------------------------------
(* The theorems.                                                           *)

\* The invariant: what each side, and each packet, may be, given the options of both.
THEOREM Invariant == Spec => []IInv
<1>1. Init => IInv
  BY Starts
<1>2. IInv /\ [Next]_vars => IInv'
  <2> SUFFICES ASSUME IInv, [Next]_vars PROVE IInv'
    OBVIOUS
  <2>1. CASE UNCHANGED vars
    BY <2>1, Stutters
  <2>2. ASSUME NEW s \in Sides,
               Receive(s) \/ Retry(s) \/ OtherTraffic(s) \/ SendData(s) \/ Timeout(s) \/ Lose(s)
        PROVE  IInv'
    BY <2>2, Receives, Retries, IsDisturbed, Sends, RunsOut, IsLost
  <2>3. QED
    BY <2>1, <2>2 DEF Next
<1>3. QED
  BY <1>1, <1>2, PTL DEF Spec

\* What is known of a side that is connected, as the role that it has.
ArrivedAs(a, b, x, y) ==
    \/ HasAnswered(a, b, x, y) /\ Reached(y)
    \/ /\ HasAnswered(b, a, y, x) /\ Heard(x.u, y.u.opt, x.u.opt) /\ x.u.side = "initiator"
       /\ ~(x.pkt.type = "fail") => AllHeard(x.u, y.u.opt, x.u.opt)
LEMMA IsArrived ==
  ASSUME IInv, NEW s \in Sides, Status(s) = "connected"
  PROVE  ArrivedAs(Role(s), Role(Peer(s)), c[s], c[Peer(s)])
<1>1. PICK a, b, x, y : a = Role(s) /\ b = Role(Peer(s)) /\ x = c[s] /\ y = c[Peer(s)]
  OBVIOUS
<1>2. Holds(a, b, x, y) /\ Reached(x)
  BY <1>1, Facing DEF Status, Reached
<1>3. Arrived(a, b, x, y) /\ Well(a, x.u, y.u.opt)
  BY <1>2 DEF Holds
<1>4. CASE HasAnswered(a, b, x, y) /\ Reached(y)
  BY <1>1, <1>4 DEF ArrivedAs
<1>5. CASE ~(HasAnswered(a, b, x, y) /\ Reached(y))
  <2>1. HasAnswered(b, a, y, x)
    BY <1>2, <1>3, <1>5 DEF Arrived
  <2>2. x.u.side = "initiator"
    BY <1>3, <2>1 DEF HasAnswered, Well
  <2>3. QED
    BY <1>1, <1>2, <1>3, <1>5, <2>1, <2>2 DEF Arrived, ArrivedAs
<1>6. QED
  BY <1>4, <1>5

\* Two sides that can be connected did not both become the initiator or both the responder:
\* the one has heard what the other answered.
LEMMA RolesFromInv == IInv => RolesDiffer
<1> SUFFICES ASSUME IInv, NEW s \in Sides, Status(s) = "connected"
             PROVE  c[Peer(s)].u.side \notin {c[s].u.side, "draw"}
  BY DEF RolesDiffer
<1>1. PICK a, b, x, y : a = Role(s) /\ b = Role(Peer(s)) /\ x = c[s] /\ y = c[Peer(s)]
  OBVIOUS
<1>2. ArrivedAs(a, b, x, y) /\ Holds(b, a, y, x)
  BY <1>1, IsArrived, Facing
<1>3. CASE HasAnswered(a, b, x, y)
  BY <1>1, <1>2, <1>3 DEF HasAnswered, Holds, Well
<1>4. CASE HasAnswered(b, a, y, x) /\ x.u.side = "initiator"
  BY <1>1, <1>4 DEF HasAnswered
<1>5. QED
  BY <1>2, <1>3, <1>4 DEF ArrivedAs

LEMMA PreparedFromInv == IInv => ConnectedIsPrepared
<1> SUFFICES ASSUME IInv, NEW s \in Sides, Status(s) = "connected"
             PROVE  c[s].u.started /\ c[s].u.sndKm # "securing" /\ c[s].u.rcvKm # "securing"
  BY DEF ConnectedIsPrepared
<1>1. PICK a, b, x, y : a = Role(s) /\ b = Role(Peer(s)) /\ x = c[s] /\ y = c[Peer(s)]
  OBVIOUS
<1>2. ArrivedAs(a, b, x, y)
  BY <1>1, IsArrived
<1>3. CASE HasAnswered(a, b, x, y)
  <2>1. Answered(x.u, x.u.opt, y.u.opt)
    BY <1>3 DEF HasAnswered
  <2>2. x.u.started = TRUE /\ x.u.sndKm # "securing" /\ x.u.rcvKm # "securing"
    BY <2>1, AnswerPrepares
  <2>3. QED
    BY <1>1, <2>2
<1>4. CASE Heard(x.u, y.u.opt, x.u.opt)
  BY <1>1, <1>4 DEF Heard, HsHeard
<1>5. QED
  BY <1>2, <1>3, <1>4 DEF ArrivedAs

LEMMA EnforcedFromInv == IInv => ResponderEnforces
<1> SUFFICES ASSUME IInv, NEW s \in Sides, c[s].u.side = "responder", Status(s) = "connected"
             PROVE  Enforced(c[s].u, c[Peer(s)].u)
  BY DEF ResponderEnforces, Enforces
<1>1. PICK a, b, x, y : a = Role(s) /\ b = Role(Peer(s)) /\ x = c[s] /\ y = c[Peer(s)]
  OBVIOUS
<1>2. ArrivedAs(a, b, x, y)
  BY <1>1, IsArrived
<1>3. Answered(x.u, x.u.opt, y.u.opt)
  BY <1>1, <1>2 DEF ArrivedAs, HasAnswered
<1>4. Enforced(x.u, y.u)
  BY <1>3, PassphraseShared
<1>5. QED
  BY <1>1, <1>4

LEMMA AgreedFromInv == IInv => Agreed
<1> SUFFICES ASSUME IInv, BothConnected, \A s \in Sides : ~Refused(s)
             PROVE  SettingsAgree(c[1].u, c[2].u)
  BY DEF Agreed, AlwaysAgreed
<1>1. \A s \in Sides : Peer(s) \in Sides /\ Status(s) = "connected"
  BY DEF Sides, Peer, BothConnected
<1>2. ASSUME NEW s \in Sides, NEW a, NEW b, NEW x, NEW y,
             a = Role(s) /\ b = Role(Peer(s)) /\ x = c[s] /\ y = c[Peer(s)], HasAnswered(b, a, y, x),
             ArrivedAs(a, b, x, y)
      PROVE  SettingsAgree(x.u, y.u) /\ SettingsAgree(y.u, x.u)
  <2>1. a # "responder"
    BY <1>2 DEF HasAnswered
  <2>2. Heard(x.u, y.u.opt, x.u.opt) /\ (~(x.pkt.type = "fail") => AllHeard(x.u, y.u.opt, x.u.opt))
    BY <1>2, <2>1 DEF ArrivedAs, HasAnswered
  <2>3. ~(x.pkt.type = "fail")
    BY <1>2 DEF Refused
  <2>4. Answered(y.u, y.u.opt, x.u.opt)
    BY <1>2 DEF HasAnswered
  <2>5. IsOptions(x.u.opt) /\ IsOptions(y.u.opt)
    BY <1>2, Facing DEF Holds, Well
  <2>6. QED
    BY <2>2, <2>3, <2>4, <2>5, SettingsSettled
<1>3. PICK a, b, x, y : a = Role(1) /\ b = Role(2) /\ x = c[1] /\ y = c[2]
  OBVIOUS
<1>4. Peer(1) = 2 /\ Peer(2) = 1 /\ 1 \in Sides /\ 2 \in Sides
  BY DEF Peer, Sides
<1>5. ArrivedAs(a, b, x, y) /\ ArrivedAs(b, a, y, x)
  <2>1. ArrivedAs(Role(1), Role(Peer(1)), c[1], c[Peer(1)])
    BY <1>1, <1>4, IsArrived
  <2>2. ArrivedAs(Role(2), Role(Peer(2)), c[2], c[Peer(2)])
    BY <1>1, <1>4, IsArrived
  <2>3. QED
    BY <1>3, <1>4, <2>1, <2>2
<1>6. CASE HasAnswered(b, a, y, x)
  BY <1>2, <1>3, <1>4, <1>5, <1>6
<1>7. CASE HasAnswered(a, b, x, y)
  BY <1>2, <1>3, <1>4, <1>5, <1>7
<1>8. QED
  BY <1>3, <1>5, <1>6, <1>7 DEF ArrivedAs

\* Settled: the sides that connect have different roles and each other's extensions, they
\* agree on the settings unless the initiator refused them, and a responder that enforces
\* encryption shares the passphrase, however handshakes are lost, reordered and repeated.
THEOREM SettledHolds == Spec => []Settled
<1>1. IInv => Settled
  BY RolesFromInv, PreparedFromInv, AgreedFromInv, EnforcedFromInv DEF Settled
<1>2. QED
  BY <1>1, Invariant, PTL
=============================================================================
