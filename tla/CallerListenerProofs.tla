----------------------- MODULE CallerListenerProofs -----------------------
(***************************************************************************)
(* Machine-checked proofs about CallerListener, for any callers, options,   *)
(* backlog and network: a listener has one living socket for a caller, and  *)
(* the two ends of a connection agree on what they negotiated. The first    *)
(* part is about HandshakeExt alone, for any two sets of options; then come *)
(* the listener's sockets, and then the two ends and what is on its way.    *)
(***************************************************************************)
EXTENDS CallerListener, TLAPS, FiniteSetTheorems, SequenceTheorems

-----------------------------------------------------------------------------
(* The negotiation, as functions of the options of the two sides.          *)

\* A socket with options o as it asks, its request, what a listener with options l makes
\* of the request, its response, and what the asker makes of a response.
Asker(o) == CreateCrypter(Opened(o), "initiator")
ReqOf(o) == CreateReq(Asker(o)).ext
ReadBy(l, o) == Interpret(CreateCrypter(Opened(l), "responder"), ReqOf(o), TRUE)
RspOf(l, o) == CreateRsp(ReadBy(l, o).u, ReadBy(l, o).km)
HeardBy(o, ext) == Interpret(Asker(o), ext, FALSE)

\* The members of a socket that the negotiation sets.
Members == {"opt", "side", "tsbpd", "rcvDelay", "sndDelay", "peerTsbpd", "peerDrop", "peerNak", "peerRexmit", "started",
            "filter", "crypter", "sndKm", "rcvKm", "kmMsg", "reject"}

\* What a block may leave alone: the options and what other blocks settle.
IsSocket(u) == u = [f \in Members |-> u[f]]
SameHs(u, v) ==
    /\ v.opt = u.opt /\ v.tsbpd = u.tsbpd /\ v.rcvDelay = u.rcvDelay /\ v.sndDelay = u.sndDelay
    /\ v.peerTsbpd = u.peerTsbpd /\ v.peerNak = u.peerNak /\ v.started = u.started

\* A socket as it begins to connect.
Began(u, o, side) ==
    /\ IsSocket(u) /\ u.opt = o /\ u.side = side /\ u.tsbpd = o.tsbpd /\ u.rcvDelay = o.rcv /\ u.sndDelay = o.snd
    /\ u.peerTsbpd = FALSE /\ u.peerNak = FALSE /\ u.filter = o.filter /\ u.rcvKm = "unsecured"
    /\ u.sndKm = IF o.key = NoKey THEN "unsecured" ELSE "securing"
    /\ u.kmMsg = IF side = "initiator" THEN o.key ELSE NoKey
    /\ u.reject = "unknown" /\ u.crypter = TRUE

\* What a socket becomes by the blocks of a request that it takes.
TookHsReq(u, m, v) ==
    /\ IsSocket(v) /\ m.msg = u.opt.msg /\ v.opt = u.opt /\ v.tsbpd = u.tsbpd /\ v.started = TRUE
    /\ v.filter = u.filter /\ v.sndKm = u.sndKm /\ v.rcvKm = u.rcvKm /\ v.kmMsg = u.kmMsg /\ v.reject = "unknown"
    /\ v.rcvDelay = IF m.tsbpdSnd /\ u.tsbpd THEN Max({u.opt.rcv, m.snd}) ELSE u.opt.rcv
    /\ v.sndDelay = IF m.tsbpdRcv THEN Max({u.opt.snd, m.rcv}) ELSE u.opt.snd
    /\ v.peerTsbpd = (u.peerTsbpd \/ m.tsbpdRcv)
TookConfig(u, ext, v) ==
    /\ IsSocket(v) /\ SameHs(u, v)
    /\ v.filter = IF u.filter = NoFilter THEN ext.filter ELSE u.filter
    /\ ext.filter # NoFilter /\ u.filter # NoFilter => u.filter = ext.filter
    /\ ext.cc = "live" \/ ext.cc = u.opt.cc
\* The key blocks: the request for key k, the states it begins with, and the answer to it.
AskedKm(k) == IF k = NoKey THEN NoKm ELSE KmReq(k)
FirstSndKm(key) == IF key = NoKey THEN "unsecured" ELSE "securing"
TookKm(u, k, v) ==
    /\ k # u.opt.key => ~u.opt.strict
    /\ k = u.opt.key /\ k # NoKey => v.sndKm = "secured" /\ v.rcvKm = "secured"
KmAnswer(u, k) ==
    IF k = NoKey THEN NoKm
    ELSE IF u.opt.key = NoKey THEN KmFail("nosecret")
    ELSE IF u.opt.key # k THEN KmFail("badsecret") ELSE KmRsp(k)
TookRequest(l, o, b, km) ==
    /\ IsSocket(b) /\ b.opt = l /\ b.tsbpd = l.tsbpd /\ b.started = TRUE /\ b.peerTsbpd = o.tsbpd
    /\ b.rcvDelay \in Nat /\ b.rcvDelay >= l.rcv
    /\ b.sndDelay \in Nat /\ (o.tsbpd => b.sndDelay >= o.rcv)
    /\ o.msg = l.msg
    /\ b.filter = IF l.filter = NoFilter THEN o.filter ELSE l.filter
    /\ o.filter # NoFilter /\ l.filter # NoFilter => l.filter = o.filter
    /\ o.cc = "live" \/ o.cc = l.cc
    /\ o.key # l.key => ~l.strict
    /\ o.key = l.key /\ o.key # NoKey => b.sndKm = "secured" /\ b.rcvKm = "secured"
    /\ km = IF o.key = NoKey THEN NoKm
            ELSE IF l.key = NoKey THEN KmFail("nosecret")
            ELSE IF l.key # o.key THEN KmFail("badsecret") ELSE KmRsp(o.key)

\* What it becomes by those of a response.
TookHsRsp(u, m, v) ==
    /\ IsSocket(v) /\ v.opt = u.opt /\ v.tsbpd = u.tsbpd
    /\ v.filter = u.filter /\ v.sndKm = u.sndKm /\ v.rcvKm = u.rcvKm /\ v.kmMsg = u.kmMsg /\ v.reject = "unknown"
    /\ v.rcvDelay = IF m.tsbpdSnd /\ u.tsbpd THEN m.snd ELSE u.rcvDelay
    /\ v.sndDelay = IF m.tsbpdRcv THEN m.rcv ELSE u.sndDelay
    /\ v.peerTsbpd = (u.peerTsbpd \/ m.tsbpdRcv) /\ v.peerNak = (u.peerNak \/ m.nak)
KmFits(u, km, k) ==
    \/ km = NoKm /\ k = NoKey /\ u.opt.key = NoKey
    \/ km = KmRsp(k) /\ k = u.opt.key /\ k # NoKey
    \/ km = KmFail("unsecured") /\ u.opt.key = NoKey /\ k # NoKey
    \/ km \in {KmFail("nosecret"), KmFail("badsecret")} /\ u.opt.key # NoKey /\ k # u.opt.key

\* The larger of two delays is a delay, and none of them is larger.
LEMMA MaxOfTwo ==
  ASSUME NEW a \in Nat, NEW b \in Nat
  PROVE  Max({a, b}) \in Nat /\ Max({a, b}) >= a /\ Max({a, b}) >= b
  BY DEF Max

\* CUDT::createCrypter on a socket just opened (core.cpp) leaves the options as they were set.
LEMMA CrypterIs ==
  ASSUME NEW o, NEW side
  PROVE  Began(CreateCrypter(Opened(o), side), o, side)
<1>1. PICK v : v = Opened(o)
  OBVIOUS
<1>2. /\ IsSocket(v) /\ v.opt = o /\ v.tsbpd = o.tsbpd /\ v.rcvDelay = o.rcv /\ v.sndDelay = o.snd
      /\ v.peerTsbpd = FALSE /\ v.peerNak = FALSE /\ v.filter = o.filter /\ v.rcvKm = "unsecured"
      /\ v.reject = "unknown" /\ v.crypter = FALSE
  BY <1>1 DEF Opened, IsSocket, Members
<1>3. PICK u : u = CreateCrypter(v, side)
  OBVIOUS
<1>4. u = [v EXCEPT !.crypter = TRUE, !.side = side,
                    !.sndKm   = IF o.key = NoKey THEN "unsecured" ELSE "securing",
                    !.kmMsg   = IF side = "initiator" THEN o.key ELSE NoKey]
  BY <1>2, <1>3 DEF CreateCrypter
<1>5. /\ IsSocket(u) /\ u.opt = v.opt /\ u.side = side /\ u.tsbpd = v.tsbpd /\ u.rcvDelay = v.rcvDelay
      /\ u.sndDelay = v.sndDelay /\ u.peerTsbpd = v.peerTsbpd /\ u.peerNak = v.peerNak /\ u.filter = v.filter
      /\ u.rcvKm = v.rcvKm /\ u.reject = v.reject /\ u.crypter = TRUE
      /\ u.sndKm = IF o.key = NoKey THEN "unsecured" ELSE "securing"
      /\ u.kmMsg = IF side = "initiator" THEN o.key ELSE NoKey
  BY <1>2, <1>4 DEF IsSocket, Members
<1>6. Began(u, o, side)
  <2>1. u.peerTsbpd = FALSE /\ u.peerNak = FALSE
    BY <1>2, <1>4 DEF IsSocket, Members
  <2>2. QED
    BY <1>2, <1>5, <2>1, Zenon DEF Began
<1>7. QED
  BY <1>1, <1>3, <1>6

\* The same of the socket that asks.
LEMMA AskerIs ==
  ASSUME NEW o
  PROVE  Began(Asker(o), o, "initiator")
  BY CrypterIs DEF Asker

\* The request carries the caller's options, and making it again changes nothing.
LEMMA ReqIs ==
  ASSUME NEW o, IsOptions(o)
  PROVE  /\ CreateReq(Asker(o)).u = Asker(o)
         /\ ReqOf(o) = [hs |-> HsReq(Asker(o)), km |-> IF o.key = NoKey THEN NoKm ELSE KmReq(o.key),
                        cc |-> o.cc, filter |-> o.filter]
<1> DEFINE u == Asker(o)
<1>1. /\ IsSocket(u) /\ u.opt = o /\ u.side = "initiator" /\ u.tsbpd = o.tsbpd /\ u.rcvDelay = o.rcv /\ u.sndDelay = o.snd
      /\ u.filter = o.filter /\ u.kmMsg = o.key
  <2>1. Began(u, o, "initiator")
    BY AskerIs
  <2> HIDE DEF u
  <2>2. QED
    BY <2>1 DEF Began
<1> HIDE DEF u
<1>2. AnnounceOptions(u) = u
  BY <1>1 DEF AnnounceOptions, IsSocket, Members
<1>3. CreateReq(u) = [ok |-> TRUE, u |-> AnnounceOptions(u),
          ext |-> [hs |-> HsReq(u), km |-> IF o.key = NoKey THEN NoKm ELSE KmReq(o.key),
                   cc |-> o.cc, filter |-> o.filter]]
  BY <1>1 DEF CreateReq
<1>4. QED
  BY <1>2, <1>3 DEF ReqOf, u

\* The key blocks of hsreq.km are told apart by their commands and by what they carry.
LEMMA KmBlocks ==
  /\ NoKm.cmd = "none" /\ \A k : KmReq(k).cmd = "kmreq" /\ KmReq(k).key = k /\ KmReq(k) # NoKm
  /\ \A k : KmRsp(k).cmd = "kmrsp" /\ KmRsp(k).key = k /\ KmRsp(k).state = "secured" /\ KmRsp(k) # NoKm
  /\ \A z : KmFail(z).cmd = "kmrsp" /\ KmFail(z).state = z /\ KmFail(z) # NoKm
<1>1. /\ NoKm.cmd = "none" /\ \A k : KmReq(k).cmd = "kmreq" /\ KmReq(k).key = k
      /\ \A k : KmRsp(k).cmd = "kmrsp" /\ KmRsp(k).key = k /\ KmRsp(k).state = "secured"
      /\ \A z : KmFail(z).cmd = "kmrsp" /\ KmFail(z).state = z
  BY DEF NoKm, KmReq, KmRsp, KmFail
<1>2. "none" # "kmreq" /\ "none" # "kmrsp"
  OBVIOUS
<1>3. QED
  BY <1>1, <1>2

\* A rejection is kept as the reason of the socket.
LEMMA RejectIs ==
  ASSUME NEW u, IsSocket(u), NEW why
  PROVE  Reject(u, why).reject = why
  BY DEF Reject, IsSocket, Members

\* CUDT::checkApplyFilterConfig: a filter of one side is taken, and those of both are the same.
LEMMA FilterTaken ==
  ASSUME NEW u, IsSocket(u), u.reject = "unknown", NEW f, ~Rejected(TakeFilter(u, f))
  PROVE  LET v == TakeFilter(u, f) IN
         /\ IsSocket(v) /\ SameHs(u, v) /\ v.sndKm = u.sndKm /\ v.rcvKm = u.rcvKm
         /\ v.filter = IF u.filter = NoFilter THEN f ELSE u.filter
         /\ f # NoFilter /\ u.filter # NoFilter => u.filter = f
<1>1. Reject(u, "filter").reject = "filter"
  BY RejectIs
<1>2. CASE f = NoFilter \/ u.filter = f
  <2>1. TakeFilter(u, f) = u
    BY <1>2 DEF TakeFilter
  <2>2. QED
    BY <1>2, <2>1 DEF SameHs
<1>3. CASE ~(f = NoFilter \/ u.filter = f) /\ u.filter = NoFilter
  <2>1. PICK v : v = [u EXCEPT !.filter = f]
    OBVIOUS
  <2>2. TakeFilter(u, f) = v
    BY <1>3, <2>1 DEF TakeFilter
  <2>3. IsSocket(v) /\ SameHs(u, v) /\ v.sndKm = u.sndKm /\ v.rcvKm = u.rcvKm /\ v.filter = f
    BY <2>1 DEF IsSocket, Members, SameHs
  <2>4. QED
    BY <1>3, <2>2, <2>3
<1>4. CASE ~(f = NoFilter \/ u.filter = f) /\ u.filter # NoFilter
  BY <1>1, <1>4 DEF TakeFilter, Rejected
<1>5. QED
  BY <1>2, <1>3, <1>4

\* What the last part of the reading accepts.
LEMMA ConfigTaken ==
  ASSUME NEW u, IsSocket(u), u.reject = "unknown", NEW ext, NEW km, InterpretConfig(u, ext, km).ok
  PROVE  LET v == InterpretConfig(u, ext, km).u IN
         /\ InterpretConfig(u, ext, km).km = km
         /\ IsSocket(v) /\ SameHs(u, v)
         /\ v.filter = IF u.filter = NoFilter THEN ext.filter ELSE u.filter
         /\ ext.filter # NoFilter /\ u.filter # NoFilter => u.filter = ext.filter
         /\ ext.cc = "live" \/ ext.cc = u.opt.cc
         /\ IF ext.km = NoKm /\ u.opt.key # NoKey THEN ~u.opt.strict
            ELSE /\ v.sndKm = u.sndKm /\ v.rcvKm = u.rcvKm
                 /\ u.opt.cc = "live" \/ ext.cc # "live"
<1> DEFINE checked == IF ext.cc # "live" /\ ext.cc # u.opt.cc THEN Reject(u, "congestion") ELSE TakeFilter(u, ext.filter)
           lacking == ext.km = NoKm /\ u.opt.key # NoKey
<1>1. InterpretConfig(u, ext, km) =
        IF Rejected(checked) THEN Failed(checked)
        ELSE IF lacking
        THEN IF u.opt.strict THEN Failed(Reject(checked, "unsecure"))
             ELSE [ok |-> TRUE, km |-> km,
                   u  |-> [checked EXCEPT !.sndKm = "nosecret", !.rcvKm = "unsecured"]]
        ELSE IF u.opt.cc # "live" /\ ext.cc = "live" THEN Failed(Reject(checked, "congestion"))
        ELSE [ok |-> TRUE, u |-> checked, km |-> km]
  BY DEF InterpretConfig
<1>2. \A x : Failed(x).ok = FALSE
  BY DEF Failed
<1>3. ~Rejected(checked) /\ (ext.cc = "live" \/ ext.cc = u.opt.cc)
  <2>1. Reject(u, "congestion").reject = "congestion"
    BY RejectIs
  <2>2. QED
    BY <1>1, <1>2, <2>1 DEF Rejected
<1>4. PICK w : w = checked
  OBVIOUS
<1>5. /\ IsSocket(w) /\ SameHs(u, w) /\ w.sndKm = u.sndKm /\ w.rcvKm = u.rcvKm
      /\ w.filter = IF u.filter = NoFilter THEN ext.filter ELSE u.filter
      /\ ext.filter # NoFilter /\ u.filter # NoFilter => u.filter = ext.filter
  BY <1>3, <1>4, FilterTaken
<1>6. CASE lacking
  <2>1. ~u.opt.strict
    BY <1>1, <1>2, <1>3, <1>6
  <2>2. PICK v : v = [w EXCEPT !.sndKm = "nosecret", !.rcvKm = "unsecured"]
    OBVIOUS
  <2>3. InterpretConfig(u, ext, km) = [ok |-> TRUE, km |-> km, u |-> v]
    BY <1>1, <1>3, <1>4, <1>6, <2>1, <2>2
  <2>4. IsSocket(v) /\ SameHs(w, v) /\ v.filter = w.filter
    BY <1>5, <2>2 DEF IsSocket, Members, SameHs
  <2>5. InterpretConfig(u, ext, km).u = v /\ InterpretConfig(u, ext, km).km = km
    BY <2>3
  <2>6. SameHs(u, v)
    BY <1>5, <2>4 DEF SameHs
  <2>7. QED
    BY <1>3, <1>5, <1>6, <2>1, <2>4, <2>5, <2>6
<1>7. CASE ~lacking
  <2>1. u.opt.cc = "live" \/ ext.cc # "live"
    BY <1>1, <1>2, <1>3, <1>7
  <2>2. InterpretConfig(u, ext, km) = [ok |-> TRUE, u |-> w, km |-> km]
    BY <1>1, <1>3, <1>4, <1>7, <2>1
  <2>3. InterpretConfig(u, ext, km).u = w /\ InterpretConfig(u, ext, km).km = km
    BY <2>2
  <2>4. QED
    BY <1>3, <1>5, <1>7, <2>1, <2>3
<1>8. QED
  BY <1>6, <1>7

\* What processSrtMsg_KMREQ and the blocks after it make of a socket that accepts them: the
\* key is installed when it is the socket's own, and a strict socket accepts no other.
LEMMA KmReqRead ==
  ASSUME NEW u, IsSocket(u), u.reject = "unknown", NEW ext, NEW k,
         ext.km = AskedKm(k), u.sndKm = FirstSndKm(u.opt.key),
         InterpretKm(u, ext, TRUE).ok
  PROVE  LET i == InterpretKm(u, ext, TRUE)
         IN  TookConfig(u, ext, i.u) /\ TookKm(u, k, i.u) /\ i.km = KmAnswer(u, k)
<1>1. \A x : Failed(x).ok = FALSE
  BY DEF Failed
<1>2. CASE k = NoKey
  <2>1. InterpretKm(u, ext, TRUE) = InterpretConfig(u, ext, NoKm) /\ ext.km = NoKm
    BY <1>2 DEF InterpretKm, AskedKm
  <2>2. PICK i : i = InterpretConfig(u, ext, NoKm)
    OBVIOUS
  <2>3. /\ i.km = NoKm /\ IsSocket(i.u) /\ SameHs(u, i.u)
        /\ i.u.filter = IF u.filter = NoFilter THEN ext.filter ELSE u.filter
        /\ ext.filter # NoFilter /\ u.filter # NoFilter => u.filter = ext.filter
        /\ ext.cc = "live" \/ ext.cc = u.opt.cc
        /\ u.opt.key # NoKey => ~u.opt.strict
        /\ u.opt.key = NoKey => u.opt.cc = "live" \/ ext.cc # "live"
    <3>1. InterpretConfig(u, ext, NoKm).ok
      BY <2>1
    <3>2. QED
      BY <2>1, <2>2, <3>1, ConfigTaken
  <2>4. QED
    BY <1>2, <2>1, <2>2, <2>3 DEF TookConfig, TookKm, KmAnswer
<1>3. CASE k # NoKey
  <2>1. ext.km.cmd = "kmreq" /\ ext.km.key = k /\ ext.km # NoKm
    BY <1>3, KmBlocks DEF AskedKm
  <2>2. PICK taken : taken = TakeKmReq(u, ext.km)
    OBVIOUS
  <2> DEFINE w == taken.u
  <2>3. /\ taken.km = IF u.opt.key = NoKey THEN KmFail("nosecret")
                      ELSE IF u.opt.key # k THEN KmFail("badsecret") ELSE KmRsp(k)
        /\ IsSocket(w) /\ SameHs(u, w) /\ w.filter = u.filter /\ w.reject = u.reject
        /\ k = u.opt.key => w.sndKm = "secured" /\ w.rcvKm = "secured"
    <3>1. CASE u.opt.key = NoKey
      <4>1. PICK x : x = [u EXCEPT !.rcvKm = "nosecret"]
        OBVIOUS
      <4>2. taken = [u |-> x, km |-> KmFail("nosecret")]
        BY <2>2, <3>1, <4>1 DEF TakeKmReq
      <4>3. IsSocket(x) /\ SameHs(u, x) /\ x.filter = u.filter /\ x.reject = u.reject
        BY <4>1 DEF IsSocket, Members, SameHs
      <4>4. QED
        BY <1>3, <3>1, <4>2, <4>3
    <3>2. CASE u.opt.key # NoKey /\ u.opt.key # k
      <4>1. PICK x : x = [u EXCEPT !.rcvKm = "badsecret", !.sndKm = "badsecret"]
        OBVIOUS
      <4>2. taken = [u |-> x, km |-> KmFail("badsecret")]
        BY <2>1, <2>2, <3>2, <4>1 DEF TakeKmReq
      <4>3. IsSocket(x) /\ SameHs(u, x) /\ x.filter = u.filter /\ x.reject = u.reject
        BY <4>1 DEF IsSocket, Members, SameHs
      <4>4. QED
        BY <3>2, <4>2, <4>3
    <3>3. CASE u.opt.key # NoKey /\ u.opt.key = k
      <4>1. PICK x : x = [u EXCEPT !.rcvKm = "secured",
                                   !.sndKm = IF @ = "securing" THEN "secured" ELSE @,
                                   !.kmMsg = IF u.sndKm = "securing" THEN k ELSE @]
        OBVIOUS
      <4>2. taken = [u |-> x, km |-> KmRsp(k)]
        BY <2>1, <2>2, <3>3, <4>1 DEF TakeKmReq
      <4>3. IsSocket(x) /\ SameHs(u, x) /\ x.filter = u.filter /\ x.reject = u.reject
        BY <4>1 DEF IsSocket, Members, SameHs
      <4>4. x.sndKm = "secured" /\ x.rcvKm = "secured"
        BY <3>3, <4>1 DEF IsSocket, Members, FirstSndKm
      <4>5. QED
        BY <3>3, <4>2, <4>3, <4>4
    <3>4. QED
      BY <3>1, <3>2, <3>3
  <2>4. /\ InterpretKm(u, ext, TRUE) = InterpretConfig(w, ext, taken.km)
        /\ taken.km.state = "secured" \/ ~u.opt.strict
    BY <1>1, <2>1, <2>2 DEF InterpretKm
  <2>5. k # u.opt.key => ~u.opt.strict
    <3>1. k # u.opt.key => taken.km.state # "secured"
      BY <2>3, KmBlocks
    <3>2. QED
      BY <2>4, <3>1
  <2>6. PICK i : i = InterpretConfig(w, ext, taken.km)
    OBVIOUS
  <2>7. w.opt = u.opt
    BY <2>3 DEF SameHs
  <2>8. /\ i.km = taken.km /\ IsSocket(i.u) /\ SameHs(w, i.u)
        /\ i.u.filter = IF u.filter = NoFilter THEN ext.filter ELSE u.filter
        /\ ext.filter # NoFilter /\ u.filter # NoFilter => u.filter = ext.filter
        /\ ext.cc = "live" \/ ext.cc = u.opt.cc
        /\ i.u.sndKm = w.sndKm /\ i.u.rcvKm = w.rcvKm
        /\ u.opt.cc = "live" \/ ext.cc # "live"
    <3> HIDE DEF w
    <3>1. InterpretConfig(w, ext, taken.km).ok /\ w.reject = "unknown" /\ w.filter = u.filter /\ IsSocket(w)
      BY <2>3, <2>4
    <3>2. QED
      BY <2>1, <2>6, <2>7, <3>1, ConfigTaken
  <2>9. SameHs(u, i.u)
    BY <2>3, <2>8 DEF SameHs
  <2>10. QED
    BY <1>3, <2>3, <2>4, <2>5, <2>6, <2>8, <2>9 DEF TookConfig, TookKm, KmAnswer
<1>4. QED
  BY <1>2, <1>3

\* The same of the answer (processSrtMsg_KMRSP), which fits the key that was asked for.
LEMMA KmRspRead ==
  ASSUME NEW u, IsSocket(u), u.reject = "unknown", u.kmMsg = u.opt.key,
         NEW ext, NEW k, KmFits(u, ext.km, k), InterpretKm(u, ext, FALSE).ok
  PROVE  LET v == InterpretKm(u, ext, FALSE).u
         IN  TookConfig(u, ext, v) /\ TookKm(u, k, v) /\ (u.opt.cc = "live" \/ ext.cc # "live")
<1>1. \A x : Failed(x).ok = FALSE
  BY DEF Failed
<1>2. CASE ext.km = NoKm
  <2>1. k = NoKey /\ u.opt.key = NoKey
    BY <1>2, KmBlocks DEF KmFits
  <2>2. InterpretKm(u, ext, FALSE) = InterpretConfig(u, ext, NoKm)
    BY <1>2 DEF InterpretKm
  <2>3. PICK i : i = InterpretConfig(u, ext, NoKm)
    OBVIOUS
  <2>4. i.ok /\ InterpretConfig(u, ext, NoKm).ok
    BY <2>2, <2>3
  <2>5. /\ IsSocket(i.u) /\ SameHs(u, i.u)
        /\ i.u.filter = IF u.filter = NoFilter THEN ext.filter ELSE u.filter
        /\ ext.filter # NoFilter /\ u.filter # NoFilter => u.filter = ext.filter
        /\ ext.cc = "live" \/ ext.cc = u.opt.cc
        /\ u.opt.cc = "live" \/ ext.cc # "live"
    BY <2>1, <2>3, <2>4, ConfigTaken
  <2>6. QED
    BY <2>1, <2>2, <2>3, <2>5 DEF TookConfig, TookKm
<1>3. CASE ext.km # NoKm
  <2>1. ext.km.cmd = "kmrsp"
    BY <1>3, KmBlocks DEF KmFits
  <2>2. PICK w : w = TakeKmRsp(u, ext.km)
    OBVIOUS
  <2>3. /\ InterpretKm(u, ext, FALSE) = InterpretConfig(w, ext, NoKm)
        /\ u.opt.key = NoKey => ~u.opt.strict
        /\ KmRspRefused(u, ext.km) => ~u.opt.strict
    BY <1>1, <1>3, <2>1, <2>2 DEF InterpretKm
  <2>4. k # u.opt.key => ~u.opt.strict
    <3>1. CASE u.opt.key = NoKey
      BY <2>3, <3>1
    <3>2. CASE u.opt.key # NoKey /\ k # u.opt.key
      <4>1. ext.km.state \in {"nosecret", "badsecret"}
        BY <1>3, <3>2, KmBlocks DEF KmFits
      <4>2. KmRspRefused(u, ext.km)
        BY <4>1 DEF KmRspRefused
      <4>3. QED
        BY <2>3, <4>2
    <3>3. QED
      BY <3>1, <3>2
  <2>5. IsSocket(w) /\ SameHs(u, w) /\ w.filter = u.filter /\ w.reject = u.reject
    <3>1. PICK p : p = IF ext.km.state = "secured"
                       THEN IF KmRspRefused(u, ext.km) THEN <<"badsecret", "badsecret">> ELSE <<"secured", "secured">>
                       ELSE IF ext.km.state = "badsecret" THEN <<"badsecret", "badsecret">>
                       ELSE IF ext.km.state = "nosecret" THEN <<"nosecret", "unsecured">>
                       ELSE <<"unsecured", "nosecret">>
      OBVIOUS
    <3>2. w = [u EXCEPT !.sndKm = p[1], !.rcvKm = p[2]]
      BY <2>2, <3>1 DEF TakeKmRsp
    <3>3. QED
      BY <3>2 DEF IsSocket, Members, SameHs
  <2>6. k = u.opt.key /\ k # NoKey => w.sndKm = "secured" /\ w.rcvKm = "secured"
    <3>1. ASSUME k = u.opt.key, k # NoKey PROVE w.sndKm = "secured" /\ w.rcvKm = "secured"
      <4>1. ext.km.state = "secured" /\ ext.km.key = k
        BY <1>3, <3>1, KmBlocks DEF KmFits
      <4>2. ~KmRspRefused(u, ext.km)
        BY <3>1, <4>1 DEF KmRspRefused
      <4>3. w = [u EXCEPT !.sndKm = "secured", !.rcvKm = "secured"]
        BY <2>2, <4>1, <4>2 DEF TakeKmRsp
      <4>4. QED
        BY <4>3 DEF IsSocket, Members
    <3>2. QED
      BY <3>1
  <2>7. PICK i : i = InterpretConfig(w, ext, NoKm)
    OBVIOUS
  <2>8. w.opt = u.opt
    BY <2>5 DEF SameHs
  <2>9. /\ IsSocket(i.u) /\ SameHs(w, i.u)
        /\ i.u.filter = IF u.filter = NoFilter THEN ext.filter ELSE u.filter
        /\ ext.filter # NoFilter /\ u.filter # NoFilter => u.filter = ext.filter
        /\ ext.cc = "live" \/ ext.cc = u.opt.cc
        /\ i.u.sndKm = w.sndKm /\ i.u.rcvKm = w.rcvKm
        /\ u.opt.cc = "live" \/ ext.cc # "live"
    <3>1. InterpretConfig(w, ext, NoKm).ok /\ w.reject = "unknown" /\ w.filter = u.filter /\ IsSocket(w)
      BY <2>3, <2>5
    <3>2. QED
      BY <1>3, <2>7, <2>8, <3>1, ConfigTaken
  <2>10. SameHs(u, i.u)
    BY <2>5, <2>9 DEF SameHs
  <2>11. QED
    BY <2>3, <2>4, <2>6, <2>7, <2>9, <2>10 DEF TookConfig, TookKm
<1>4. QED
  BY <1>2, <1>3

\* A handshake that is taken was taken by its first block, and then by the others.
LEMMA ReadFrom ==
  ASSUME NEW u, IsSocket(u), u.reject = "unknown", NEW ext, ext # NoExt, NEW answering, Interpret(u, ext, answering).ok
  PROVE  /\ ~Rejected(TakeHs(u, ext.hs))
         /\ Interpret(u, ext, answering) = InterpretKm(TakeHs(u, ext.hs), ext, answering)
<1>1. [u EXCEPT !.reject = "unknown"] = u
  BY DEF IsSocket, Members
<1>2. \A x : Failed(x).ok = FALSE
  BY DEF Failed
<1>3. QED
  BY <1>1, <1>2 DEF Interpret

\* CUDT::processSrtMsg_HSREQ: each delay becomes the larger of the two that the sides want.
LEMMA HsReqRead ==
  ASSUME NEW u, IsSocket(u), u.reject = "unknown", NEW m, m.cmd = "hsreq", ~Rejected(TakeHs(u, m))
  PROVE  TookHsReq(u, m, TakeHs(u, m))
<1>1. TakeHs(u, m) = TakeHsReq(u, m) /\ m.msg = u.opt.msg
  BY RejectIs DEF TakeHs, Rejected
<1>2. PICK x1, x2, x3, x4, x5, x6 :
        /\ x1 = IF m.tsbpdSnd /\ u.tsbpd THEN Max({u.opt.rcv, m.snd}) ELSE u.opt.rcv
        /\ x2 = IF m.tsbpdRcv THEN Max({u.opt.snd, m.rcv}) ELSE u.opt.snd
        /\ x3 = (u.peerTsbpd \/ m.tsbpdRcv) /\ x4 = (u.peerDrop \/ m.drop) /\ x5 = (u.peerNak \/ m.nak) /\ x6 = m.rexmit
  BY Zenon
<1>3. PICK v : v = [u EXCEPT !.started = TRUE, !.rcvDelay = x1, !.sndDelay = x2, !.peerTsbpd = x3,
                             !.peerDrop = x4, !.peerNak = x5, !.peerRexmit = x6]
  OBVIOUS
<1>4. TakeHsReq(u, m) = v
  BY <1>2, <1>3, Zenon DEF TakeHsReq
<1>5. /\ IsSocket(v) /\ v.opt = u.opt /\ v.tsbpd = u.tsbpd /\ v.started = TRUE
      /\ v.filter = u.filter /\ v.sndKm = u.sndKm /\ v.rcvKm = u.rcvKm /\ v.kmMsg = u.kmMsg /\ v.reject = u.reject
      /\ v.rcvDelay = x1 /\ v.sndDelay = x2 /\ v.peerTsbpd = x3
  BY <1>3 DEF IsSocket, Members
<1>6. QED
  BY <1>1, <1>2, <1>4, <1>5, Zenon DEF TookHsReq

\* CUDT::processSrtMsg_HSRSP: the asker takes over the delays that the answer names.
LEMMA HsRspRead ==
  ASSUME NEW u, IsSocket(u), u.reject = "unknown", NEW m, m.cmd = "hsrsp"
  PROVE  TookHsRsp(u, m, TakeHs(u, m))
<1>1. TakeHs(u, m) = TakeHsRsp(u, m)
  BY DEF TakeHs
<1>2. PICK x1, x2, x3, x4, x5, x6 :
        /\ x1 = IF m.tsbpdSnd /\ u.tsbpd THEN m.snd ELSE u.rcvDelay
        /\ x2 = IF m.tsbpdRcv THEN m.rcv ELSE u.sndDelay
        /\ x3 = (u.peerTsbpd \/ m.tsbpdRcv) /\ x4 = (u.peerDrop \/ m.drop) /\ x5 = (u.peerNak \/ m.nak)
        /\ x6 = (u.peerRexmit \/ m.rexmit)
  BY Zenon
<1>3. PICK v : v = [u EXCEPT !.started = TRUE, !.rcvDelay = x1, !.sndDelay = x2, !.peerTsbpd = x3,
                             !.peerDrop = x4, !.peerNak = x5, !.peerRexmit = x6]
  OBVIOUS
<1>4. TakeHsRsp(u, m) = v
  BY <1>2, <1>3, Zenon DEF TakeHsRsp
<1>5. /\ IsSocket(v) /\ v.opt = u.opt /\ v.tsbpd = u.tsbpd
      /\ v.filter = u.filter /\ v.sndKm = u.sndKm /\ v.rcvKm = u.rcvKm /\ v.kmMsg = u.kmMsg /\ v.reject = u.reject
      /\ v.rcvDelay = x1 /\ v.sndDelay = x2 /\ v.peerTsbpd = x3 /\ v.peerNak = x5
  BY <1>3 DEF IsSocket, Members
<1>6. QED
  BY <1>1, <1>2, <1>4, <1>5, Zenon DEF TookHsRsp

\* The ranges of the options.
LEMMA OptionsAre ==
  ASSUME NEW o, IsOptions(o)
  PROVE  /\ o.tsbpd \in BOOLEAN /\ o.nak \in BOOLEAN /\ o.msg \in BOOLEAN /\ o.strict \in BOOLEAN
         /\ o.rcv \in Nat /\ o.snd \in Nat
  BY DEF IsOptions

\* The request names the options of the socket that makes it.
LEMMA ReqFields ==
  ASSUME NEW o, IsOptions(o)
  PROVE  LET hs == ReqOf(o).hs IN
         /\ hs.cmd = "hsreq" /\ hs.tsbpdSnd = o.tsbpd /\ hs.tsbpdRcv = o.tsbpd /\ hs.msg = o.msg
         /\ o.tsbpd => hs.snd = o.snd /\ hs.rcv = o.rcv
         /\ ReqOf(o).km = IF o.key = NoKey THEN NoKm ELSE KmReq(o.key)
         /\ ReqOf(o).cc = o.cc /\ ReqOf(o).filter = o.filter
         /\ ReqOf(o) # NoExt
<1>1. PICK u : u = Asker(o)
  OBVIOUS
<1>2. u.opt = o
  BY <1>1, AskerIs DEF Began
<1>3. PICK hs : hs = HsReq(u)
  OBVIOUS
<1>4. hs = [cmd |-> "hsreq", tsbpdSnd |-> o.tsbpd, tsbpdRcv |-> o.tsbpd,
            snd |-> IF o.tsbpd THEN o.snd ELSE 0, rcv |-> IF o.tsbpd THEN o.rcv ELSE 0,
            drop |-> o.tsbpd /\ o.drop, nak |-> o.nak, rexmit |-> TRUE, msg |-> o.msg]
  BY <1>2, <1>3, Zenon DEF HsReq
<1>5. /\ hs.cmd = "hsreq" /\ hs.tsbpdSnd = o.tsbpd /\ hs.tsbpdRcv = o.tsbpd /\ hs.msg = o.msg
      /\ o.tsbpd => hs.snd = o.snd /\ hs.rcv = o.rcv
  BY <1>4
<1>6. PICK km : km = IF o.key = NoKey THEN NoKm ELSE KmReq(o.key)
  OBVIOUS
<1>7. ReqOf(o) = [hs |-> hs, km |-> km, cc |-> o.cc, filter |-> o.filter]
  BY <1>1, <1>3, <1>6, ReqIs
<1>8. ReqOf(o).hs = hs /\ ReqOf(o).km = km /\ ReqOf(o).cc = o.cc /\ ReqOf(o).filter = o.filter
  BY <1>7
<1>9. ReqOf(o) # NoExt
  <2>1. "hs" \in DOMAIN ReqOf(o)
    BY <1>7
  <2>2. DOMAIN NoExt = {"none"}
    BY DEF NoExt
  <2>3. QED
    BY <2>1, <2>2
<1>10. QED
  BY <1>5, <1>6, <1>8, <1>9

\* What the listener makes of a request that it takes.
LEMMA RequestRead ==
  ASSUME NEW l, IsOptions(l), NEW o, IsOptions(o), ReadBy(l, o).ok
  PROVE  TookRequest(l, o, ReadBy(l, o).u, ReadBy(l, o).km)
<1>1. PICK u : u = CreateCrypter(Opened(l), "responder")
  OBVIOUS
<1>2. /\ IsSocket(u) /\ u.opt = l /\ u.tsbpd = l.tsbpd /\ u.peerTsbpd = FALSE /\ u.peerNak = FALSE
      /\ u.filter = l.filter /\ u.rcvKm = "unsecured" /\ u.reject = "unknown"
      /\ u.sndKm = IF l.key = NoKey THEN "unsecured" ELSE "securing"
  <2>1. Began(u, l, "responder")
    BY <1>1, CrypterIs
  <2>2. QED
    BY <2>1 DEF Began
<1>3. PICK ext : ext = ReqOf(o)
  OBVIOUS
<1>4. /\ ext.hs.cmd = "hsreq" /\ ext.hs.tsbpdSnd = o.tsbpd /\ ext.hs.tsbpdRcv = o.tsbpd /\ ext.hs.msg = o.msg
      /\ o.tsbpd => ext.hs.snd = o.snd /\ ext.hs.rcv = o.rcv
      /\ ext.km = IF o.key = NoKey THEN NoKm ELSE KmReq(o.key)
      /\ ext.cc = o.cc /\ ext.filter = o.filter /\ ext # NoExt
  BY <1>3, ReqFields
<1>5. PICK v : v = TakeHs(u, ext.hs)
  OBVIOUS
<1>6. ReadBy(l, o) = Interpret(u, ext, TRUE) /\ Interpret(u, ext, TRUE).ok
  BY <1>1, <1>3 DEF ReadBy
<1>7. ~Rejected(v) /\ ReadBy(l, o) = InterpretKm(v, ext, TRUE) /\ InterpretKm(v, ext, TRUE).ok
  BY <1>2, <1>4, <1>5, <1>6, ReadFrom
<1>8. TookHsReq(u, ext.hs, v)
  BY <1>2, <1>4, <1>5, <1>7, HsReqRead
<1>s. IsSocket(v) /\ v.reject = "unknown" /\ v.started = TRUE
  BY <1>8 DEF TookHsReq
<1>9. /\ v.opt = l /\ v.tsbpd = l.tsbpd /\ v.filter = l.filter /\ v.rcvKm = "unsecured"
      /\ v.sndKm = IF v.opt.key = NoKey THEN "unsecured" ELSE "securing"
      /\ o.msg = l.msg
  BY <1>2, <1>4, <1>8 DEF TookHsReq
<1>10. v.rcvDelay \in Nat /\ v.rcvDelay >= l.rcv
  <2>1. CASE o.tsbpd /\ l.tsbpd
    <3>1. v.rcvDelay = Max({l.rcv, o.snd})
      BY <1>2, <1>4, <1>8, <2>1 DEF TookHsReq
    <3>2. QED
      BY <3>1, MaxOfTwo, OptionsAre
  <2>2. CASE ~(o.tsbpd /\ l.tsbpd)
    <3>1. v.rcvDelay = l.rcv
      BY <1>2, <1>4, <1>8, <2>2 DEF TookHsReq
    <3>2. QED
      BY <3>1, OptionsAre
  <2>3. QED
    BY <2>1, <2>2
<1>11. v.sndDelay \in Nat /\ (o.tsbpd => v.sndDelay >= o.rcv)
  <2>1. CASE o.tsbpd
    <3>1. v.sndDelay = Max({l.snd, o.rcv})
      BY <1>2, <1>4, <1>8, <2>1 DEF TookHsReq
    <3>2. QED
      BY <3>1, MaxOfTwo, OptionsAre
  <2>2. CASE ~o.tsbpd
    <3>1. v.sndDelay = l.snd
      BY <1>2, <1>4, <1>8, <2>2 DEF TookHsReq
    <3>2. QED
      BY <2>2, <3>1, OptionsAre
  <2>3. QED
    BY <2>1, <2>2
<1>12. v.peerTsbpd = o.tsbpd
  <2>1. o.tsbpd \in BOOLEAN
    BY OptionsAre
  <2>2. v.peerTsbpd = (FALSE \/ o.tsbpd)
    BY <1>2, <1>4, <1>8, Zenon DEF TookHsReq
  <2>3. QED
    BY <2>1, <2>2, Zenon
<1>13. PICK i : i = InterpretKm(v, ext, TRUE)
  OBVIOUS
<1>14. TookConfig(v, ext, i.u) /\ TookKm(v, o.key, i.u) /\ i.km = KmAnswer(v, o.key)
  <2>1. ext.km = AskedKm(o.key) /\ v.sndKm = FirstSndKm(v.opt.key)
    BY <1>4, <1>9 DEF AskedKm, FirstSndKm
  <2>2. QED
    BY <1>7, <1>s, <1>13, <2>1, KmReqRead
<1>15. PICK b, km : b = i.u /\ km = i.km
  OBVIOUS
<1>16. ReadBy(l, o).u = b /\ ReadBy(l, o).km = km
  BY <1>7, <1>13, <1>15
<1>17. /\ b.opt = l /\ b.tsbpd = l.tsbpd /\ b.started = TRUE /\ b.peerTsbpd = o.tsbpd
       /\ b.rcvDelay = v.rcvDelay /\ b.sndDelay = v.sndDelay
  BY <1>s, <1>9, <1>12, <1>14, <1>15 DEF TookConfig, SameHs
<1>18. /\ b.rcvDelay \in Nat /\ b.rcvDelay >= l.rcv
       /\ b.sndDelay \in Nat /\ (o.tsbpd => b.sndDelay >= o.rcv)
  BY <1>10, <1>11, <1>17
<1>19. /\ b.filter = IF l.filter = NoFilter THEN o.filter ELSE l.filter
       /\ o.filter # NoFilter /\ l.filter # NoFilter => l.filter = o.filter
       /\ o.cc = "live" \/ o.cc = l.cc
       /\ o.key # l.key => ~l.strict
       /\ o.key = l.key /\ o.key # NoKey => b.sndKm = "secured" /\ b.rcvKm = "secured"
       /\ km = IF o.key = NoKey THEN NoKm
               ELSE IF l.key = NoKey THEN KmFail("nosecret")
               ELSE IF l.key # o.key THEN KmFail("badsecret") ELSE KmRsp(o.key)
  BY <1>4, <1>9, <1>14, <1>15 DEF TookConfig, TookKm, KmAnswer
<1>20. IsSocket(b)
  BY <1>14, <1>15 DEF TookConfig
<1>21. QED
  BY <1>9, <1>16, <1>17, <1>18, <1>19, <1>20, Zenon DEF TookRequest

\* The response of a listener that takes the request.
LEMMA ResponseIs ==
  ASSUME NEW l, IsOptions(l), NEW o, IsOptions(o), ReadBy(l, o).ok
  PROVE  LET b == ReadBy(l, o).u
             v == RspOf(l, o).u
             ext == RspOf(l, o).ext
         IN  /\ IsSocket(v) /\ SameHs(b, v) /\ v.filter = b.filter
             /\ o.key = l.key => v.sndKm = b.sndKm /\ v.rcvKm = b.rcvKm
             /\ ext # NoExt /\ ext.hs = HsRsp(b) /\ ext.cc = l.cc /\ ext.filter = b.filter
             /\ KmFits(Asker(o), ext.km, l.key)
<1>1. PICK b, km : b = ReadBy(l, o).u /\ km = ReadBy(l, o).km
  OBVIOUS
<1>2. /\ IsSocket(b) /\ b.opt = l /\ b.started = TRUE
      /\ km = IF o.key = NoKey THEN NoKm
              ELSE IF l.key = NoKey THEN KmFail("nosecret")
              ELSE IF l.key # o.key THEN KmFail("badsecret") ELSE KmRsp(o.key)
  <2>1. TookRequest(l, o, b, km)
    BY <1>1, RequestRead
  <2>2. QED
    BY <2>1 DEF TookRequest
<1> DEFINE silent == km = NoKm /\ l.key # NoKey
<1>3. PICK v : v = IF silent THEN [b EXCEPT !.sndKm = "nosecret", !.rcvKm = "unsecured"] ELSE b
  OBVIOUS
<1>4. PICK answer, hs : answer = (IF silent THEN KmFail("unsecured") ELSE km) /\ hs = HsRsp(b)
  OBVIOUS
<1>5. RspOf(l, o) = [ok |-> TRUE, u |-> v, ext |-> [hs |-> hs, km |-> answer, cc |-> l.cc, filter |-> b.filter]]
  <2>1. RspOf(l, o) = CreateRsp(b, km)
    BY <1>1 DEF RspOf
  <2>2. QED
    BY <1>2, <1>3, <1>4, <2>1 DEF CreateRsp
<1>6. IsSocket(v) /\ SameHs(b, v) /\ v.filter = b.filter
  <2>1. CASE silent
    <3>1. v = [b EXCEPT !.sndKm = "nosecret", !.rcvKm = "unsecured"]
      BY <1>3, <2>1
    <3>2. QED
      BY <1>2, <3>1 DEF IsSocket, Members, SameHs
  <2>2. CASE ~silent
    BY <1>2, <1>3, <2>2 DEF SameHs
  <2>3. QED
    BY <2>1, <2>2
<1>7. o.key = l.key => ~silent
  BY <1>2, KmBlocks
<1>8. KmFits(Asker(o), answer, l.key)
  <2>1. PICK u : u = Asker(o)
    OBVIOUS
  <2>2. u.opt = o
    BY <2>1, AskerIs DEF Began
  <2>3. KmFits(u, answer, l.key)
    BY <1>2, <1>4, <2>2, KmBlocks DEF KmFits
  <2>4. QED
    BY <2>1, <2>3
<1>9. PICK ext : ext = [hs |-> hs, km |-> answer, cc |-> l.cc, filter |-> b.filter]
  OBVIOUS
<1>10. ext.hs = hs /\ ext.km = answer /\ ext.cc = l.cc /\ ext.filter = b.filter /\ ext # NoExt
  <2>1. "hs" \in DOMAIN ext
    BY <1>9
  <2>2. DOMAIN NoExt = {"none"}
    BY DEF NoExt
  <2>3. QED
    BY <1>9, <2>1, <2>2
<1>11. RspOf(l, o).u = v /\ RspOf(l, o).ext = ext
  BY <1>5, <1>9
<1>12. o.key = l.key => v.sndKm = b.sndKm /\ v.rcvKm = b.rcvKm
  BY <1>3, <1>7
<1>13. QED
  BY <1>1, <1>4, <1>6, <1>8, <1>10, <1>11, <1>12

\* The two ends of a connection whose caller took the response agree, whatever their options
\* (interpretSrtHandshake, core.cpp:2602, at both ends).
THEOREM NegotiationAgrees ==
  ASSUME NEW l, IsOptions(l), NEW o, IsOptions(o), ReadBy(l, o).ok, HeardBy(o, RspOf(l, o).ext).ok
  PROVE  LET a == HeardBy(o, RspOf(l, o).ext).u
             b == RspOf(l, o).u
         IN  IsSocket(a) /\ IsSocket(b) /\ SettingsAgree(a, b) /\ Enforced(a, b) /\ Enforced(b, a)
<1>1. PICK r, b, ext : r = ReadBy(l, o).u /\ b = RspOf(l, o).u /\ ext = RspOf(l, o).ext
  OBVIOUS
<1>2. /\ IsSocket(r) /\ r.opt = l /\ r.tsbpd = l.tsbpd /\ r.started = TRUE /\ r.peerTsbpd = o.tsbpd
      /\ r.rcvDelay \in Nat /\ r.rcvDelay >= l.rcv
      /\ r.sndDelay \in Nat /\ (o.tsbpd => r.sndDelay >= o.rcv)
      /\ o.msg = l.msg
      /\ r.filter = IF l.filter = NoFilter THEN o.filter ELSE l.filter
      /\ o.filter # NoFilter /\ l.filter # NoFilter => l.filter = o.filter
      /\ o.cc = "live" \/ o.cc = l.cc
      /\ o.key # l.key => ~l.strict
      /\ o.key = l.key /\ o.key # NoKey => r.sndKm = "secured" /\ r.rcvKm = "secured"
  <2>1. TookRequest(l, o, r, ReadBy(l, o).km)
    BY <1>1, RequestRead
  <2>2. QED
    BY <2>1 DEF TookRequest
<1>3. /\ IsSocket(b) /\ SameHs(r, b) /\ b.filter = r.filter
      /\ o.key = l.key => b.sndKm = r.sndKm /\ b.rcvKm = r.rcvKm
      /\ ext # NoExt /\ ext.hs = HsRsp(r) /\ ext.cc = l.cc /\ ext.filter = r.filter
      /\ KmFits(Asker(o), ext.km, l.key)
  BY <1>1, ResponseIs
<1>4. PICK u : u = Asker(o)
  OBVIOUS
<1>5. /\ IsSocket(u) /\ u.opt = o /\ u.tsbpd = o.tsbpd /\ u.rcvDelay = o.rcv /\ u.peerTsbpd = FALSE /\ u.peerNak = FALSE
      /\ u.filter = o.filter /\ u.kmMsg = o.key /\ u.reject = "unknown"
  <2>1. Began(u, o, "initiator")
    BY <1>4, AskerIs
  <2>2. QED
    BY <2>1 DEF Began
<1>6. PICK hs : hs = ext.hs
  OBVIOUS
<1>7. /\ hs.cmd = "hsrsp" /\ hs.tsbpdSnd = o.tsbpd /\ hs.tsbpdRcv = l.tsbpd /\ hs.nak = l.nak
      /\ o.tsbpd => hs.snd = r.sndDelay
      /\ l.tsbpd => hs.rcv = r.rcvDelay
  <2>1. hs = [cmd |-> "hsrsp", tsbpdSnd |-> o.tsbpd, tsbpdRcv |-> l.tsbpd,
              snd |-> IF o.tsbpd THEN r.sndDelay ELSE 0, rcv |-> IF l.tsbpd THEN r.rcvDelay ELSE 0,
              drop |-> l.drop, nak |-> l.nak, rexmit |-> r.peerRexmit, msg |-> TRUE]
    BY <1>2, <1>3, <1>6, Zenon DEF HsRsp
  <2>2. QED
    BY <2>1
<1>8. PICK v : v = TakeHs(u, ext.hs)
  OBVIOUS
<1>9. HeardBy(o, RspOf(l, o).ext) = Interpret(u, ext, FALSE) /\ Interpret(u, ext, FALSE).ok
  BY <1>1, <1>4 DEF HeardBy
<1>10. HeardBy(o, RspOf(l, o).ext) = InterpretKm(v, ext, FALSE) /\ InterpretKm(v, ext, FALSE).ok
  BY <1>3, <1>5, <1>8, <1>9, ReadFrom
<1>11. TookHsRsp(u, hs, v)
  BY <1>5, <1>6, <1>7, <1>8, HsRspRead
<1>12. IsSocket(v) /\ v.opt = o /\ v.filter = o.filter /\ v.kmMsg = o.key /\ v.reject = "unknown" /\ v.tsbpd = o.tsbpd
  BY <1>5, <1>11 DEF TookHsRsp
<1>13. PICK a : a = InterpretKm(v, ext, FALSE).u
  OBVIOUS
<1>14. TookConfig(v, ext, a) /\ TookKm(v, l.key, a) /\ (v.opt.cc = "live" \/ ext.cc # "live")
  <2>1. KmFits(v, ext.km, l.key)
    BY <1>3, <1>4, <1>5, <1>12 DEF KmFits
  <2>2. v.kmMsg = v.opt.key
    BY <1>12
  <2>3. QED
    BY <1>10, <1>12, <1>13, <2>1, <2>2, KmRspRead
<1>15. a.opt = o /\ a.tsbpd = o.tsbpd /\ a.rcvDelay = v.rcvDelay /\ a.sndDelay = v.sndDelay /\ a.peerTsbpd = v.peerTsbpd
       /\ a.peerNak = v.peerNak
  BY <1>12, <1>14 DEF TookConfig, SameHs
<1>16. /\ b.opt = l /\ b.tsbpd = l.tsbpd /\ b.rcvDelay = r.rcvDelay /\ b.sndDelay = r.sndDelay /\ b.peerTsbpd = o.tsbpd
  BY <1>2, <1>3 DEF SameHs
<1>17. a.peerTsbpd = l.tsbpd /\ a.peerNak = l.nak
  <2>1. l.tsbpd \in BOOLEAN /\ l.nak \in BOOLEAN
    BY OptionsAre
  <2>2. v.peerTsbpd = (FALSE \/ l.tsbpd) /\ v.peerNak = (FALSE \/ l.nak)
    BY <1>5, <1>7, <1>11, Zenon DEF TookHsRsp
  <2>3. QED
    BY <1>15, <2>1, <2>2, Zenon
<1>18. /\ o.tsbpd => a.rcvDelay = r.sndDelay
       /\ l.tsbpd => a.sndDelay = r.rcvDelay
  BY <1>5, <1>7, <1>11, <1>15 DEF TookHsRsp
<1>19. DelaysAgree(a, b) /\ DelaysAgree(b, a)
  <2>1. a.peerTsbpd = b.tsbpd /\ b.peerTsbpd = a.tsbpd
    BY <1>15, <1>16, <1>17
  <2>2. b.tsbpd => a.sndDelay = b.rcvDelay /\ b.rcvDelay >= b.opt.rcv
    BY <1>2, <1>16, <1>18
  <2>3. a.tsbpd => b.sndDelay = a.rcvDelay /\ a.rcvDelay >= a.opt.rcv
    BY <1>2, <1>15, <1>16, <1>18
  <2>4. QED
    BY <2>1, <2>2, <2>3 DEF DelaysAgree
<1>20. o.cc = l.cc /\ a.filter = b.filter
  <2>1. /\ a.filter = IF o.filter = NoFilter THEN b.filter ELSE o.filter
        /\ b.filter # NoFilter /\ o.filter # NoFilter => o.filter = b.filter
        /\ l.cc = "live" \/ l.cc = o.cc
        /\ o.cc = "live" \/ l.cc # "live"
    BY <1>3, <1>12, <1>14 DEF TookConfig
  <2>2. QED
    BY <1>2, <1>3, <2>1
<1>21. SettingsAgree(a, b)
  BY <1>2, <1>15, <1>16, <1>17, <1>19, <1>20 DEF SettingsAgree
<1>22. /\ l.key # o.key => ~o.strict
       /\ l.key = o.key /\ l.key # NoKey => a.sndKm = "secured" /\ a.rcvKm = "secured"
  BY <1>12, <1>14 DEF TookKm
<1>23. Enforced(a, b) /\ Enforced(b, a)
  BY <1>2, <1>3, <1>15, <1>16, <1>22 DEF Enforced
<1>24. IsSocket(a)
  BY <1>14 DEF TookConfig
<1>25. QED
  BY <1>1, <1>3, <1>10, <1>13, <1>21, <1>23, <1>24

-----------------------------------------------------------------------------
(* The listener's sockets.                                                 *)

\* The listener's sockets, with one of the states U each. Of the sockets of a caller one is
\* connected and one waits to be accepted at most, and one that is gone does not wait.
Sockets(U) == [peer : Callers, u : U, status : {"connected", "broken", "gone"}, queued : BOOLEAN]
AloneIn(s) ==
    \A j, k \in DOMAIN s : s[j].peer = s[k].peer /\ j # k =>
        /\ ~(s[j].status = "connected" /\ s[k].status = "connected")
        /\ ~(s[j].queued /\ s[k].queued)
LivingQueued(s) == \A k \in DOMAIN s : s[k].queued => s[k].status # "gone"
Made(i, u) == [peer |-> i, u |-> u, status |-> "connected", queued |-> TRUE]

\* The invariant from which OneSocket follows, whatever is on its way.
OneInv == (\E U : acc \in Seq(Sockets(U))) /\ AloneIn(acc) /\ LivingQueued(acc)

\* Sockets d are those of s, where those in G are gone.
Dropped(s, G, d) ==
    /\ Len(d) = Len(s) /\ DOMAIN d = DOMAIN s
    /\ \A k \in DOMAIN s :
           /\ d[k].peer = s[k].peer
           /\ k \in G => d[k].u = s[k].u /\ d[k].status = "gone" /\ ~d[k].queued
           /\ k \notin G => d[k] = s[k]

\* Sockets d are those of s, where some may have ended or been accepted.
Aged(s, d) ==
    /\ Len(d) = Len(s) /\ DOMAIN d = DOMAIN s
    /\ \A k \in DOMAIN s : /\ d[k].peer = s[k].peer /\ d[k].u = s[k].u
                           /\ d[k].status = "connected" => s[k].status = "connected"

\* A function on 1 .. n is a sequence.
LEMMA FunctionIsSeq ==
  ASSUME NEW S, NEW n \in Nat, NEW f \in [1 .. n -> S]
  PROVE  f \in Seq(S) /\ Len(f) = n /\ DOMAIN f = 1 .. n
  BY SeqDef, LenProperties

\* A sequence is a function on 1 .. Len.
LEMMA SeqIsFunction ==
  ASSUME NEW S, NEW f \in Seq(S)
  PROVE  Len(f) \in Nat /\ DOMAIN f = 1 .. Len(f) /\ f \in [1 .. Len(f) -> S] /\ \A k \in DOMAIN f : f[k] \in S
  BY LenProperties, ElementOfSeq

\* CUDTUnited::newConnection drops the sockets of the caller that ended, and no other.
LEMMA DropIs ==
  ASSUME NEW U, NEW s \in Seq(Sockets(U)), NEW G
  PROVE  Drop(s, G) \in Seq(Sockets(U)) /\ Dropped(s, G, Drop(s, G))
<1>1. PICK d : d = Drop(s, G)
  OBVIOUS
<1>2. Len(s) \in Nat /\ DOMAIN s = 1 .. Len(s) /\ \A k \in DOMAIN s : s[k] \in Sockets(U)
  BY SeqIsFunction
<1>3. d = [k \in DOMAIN s |-> IF k \in G THEN [s[k] EXCEPT !.status = "gone", !.queued = FALSE] ELSE s[k]]
  BY <1>1 DEF Drop
<1>4. ASSUME NEW k \in DOMAIN s
      PROVE  /\ d[k] \in Sockets(U) /\ d[k].peer = s[k].peer
             /\ k \in G => d[k].u = s[k].u /\ d[k].status = "gone" /\ ~d[k].queued
             /\ k \notin G => d[k] = s[k]
  <2>1. PICK x : x = s[k]
    OBVIOUS
  <2>2. x \in Sockets(U)
    BY <1>2, <2>1
  <2>3. CASE k \in G
    <3>1. d[k] = [x EXCEPT !.status = "gone", !.queued = FALSE]
      BY <1>3, <2>1, <2>3
    <3>2. PICK y : y = [x EXCEPT !.status = "gone", !.queued = FALSE]
      OBVIOUS
    <3>3. y \in Sockets(U) /\ y.peer = x.peer /\ y.u = x.u /\ y.status = "gone" /\ ~y.queued
      BY <2>2, <3>2 DEF Sockets
    <3>4. QED
      BY <2>1, <2>3, <3>1, <3>2, <3>3
  <2>4. CASE k \notin G
    BY <1>3, <2>1, <2>2, <2>4
  <2>5. QED
    BY <2>3, <2>4
<1>5. d \in [1 .. Len(s) -> Sockets(U)]
  BY <1>2, <1>3, <1>4
<1>6. d \in Seq(Sockets(U)) /\ Len(d) = Len(s) /\ DOMAIN d = DOMAIN s
  BY <1>2, <1>5, FunctionIsSeq
<1>7. QED
  BY <1>1, <1>4, <1>6 DEF Dropped

\* Dropping sockets leaves one living socket for a caller.
LEMMA DropKeeps ==
  ASSUME NEW U, NEW s \in Seq(Sockets(U)), NEW G, AloneIn(s), LivingQueued(s)
  PROVE  AloneIn(Drop(s, G)) /\ LivingQueued(Drop(s, G))
<1>1. PICK d : d = Drop(s, G)
  OBVIOUS
<1>2. Dropped(s, G, d)
  BY <1>1, DropIs
<1>d. DOMAIN d = DOMAIN s /\ \A k \in DOMAIN s : d[k].peer = s[k].peer
  BY <1>2 DEF Dropped
<1>s. ASSUME NEW k \in DOMAIN s
      PROVE  (d[k].status = "connected" => s[k].status = "connected") /\ (d[k].queued => s[k].queued /\ d[k] = s[k])
  BY <1>2 DEF Dropped
<1>3. AloneIn(d)
  BY <1>d, <1>s DEF AloneIn
<1>4. LivingQueued(d)
  BY <1>d, <1>s DEF LivingQueued
<1>5. QED
  BY <1>1, <1>3, <1>4

\* So does the end of one of them (shutdown, or the peer is silent).
LEMMA BrokenKeeps ==
  ASSUME NEW U, NEW s \in Seq(Sockets(U)), NEW n, AloneIn(s), LivingQueued(s)
  PROVE  LET d == [s EXCEPT ![n].status = "broken"] IN
         d \in Seq(Sockets(U)) /\ AloneIn(d) /\ LivingQueued(d) /\ Aged(s, d)
<1>1. PICK d : d = [s EXCEPT ![n].status = "broken"]
  OBVIOUS
<1>2. Len(s) \in Nat /\ DOMAIN s = 1 .. Len(s) /\ s \in [1 .. Len(s) -> Sockets(U)] /\ \A k \in DOMAIN s : s[k] \in Sockets(U)
  BY SeqIsFunction
<1>3. ASSUME NEW k \in DOMAIN s
      PROVE  /\ d[k] \in Sockets(U) /\ d[k].peer = s[k].peer /\ d[k].u = s[k].u /\ d[k].queued = s[k].queued
             /\ d[k].status \in {"broken", s[k].status}
  BY <1>1, <1>2 DEF Sockets
<1>4. d \in [1 .. Len(s) -> Sockets(U)]
  BY <1>1, <1>2, <1>3
<1>5. d \in Seq(Sockets(U)) /\ Len(d) = Len(s) /\ DOMAIN d = DOMAIN s
  BY <1>2, <1>4, FunctionIsSeq
<1>q. \A k \in DOMAIN s : (d[k].queued => s[k].queued) /\ (d[k].status # s[k].status => d[k].status = "broken")
  BY <1>3
<1>r. \A k \in DOMAIN s : d[k].peer = s[k].peer /\ (d[k].status = "connected" => s[k].status = "connected")
  BY <1>3
<1>6. AloneIn(d)
  BY <1>5, <1>q, <1>r DEF AloneIn
<1>7. LivingQueued(d)
  BY <1>5, <1>q DEF LivingQueued
<1>a. Aged(s, d)
  BY <1>3, <1>5, <1>q DEF Aged
<1>8. QED
  BY <1>1, <1>5, <1>6, <1>7, <1>a

\* And so does accept, which takes one from the queue.
LEMMA AcceptKeeps ==
  ASSUME NEW U, NEW s \in Seq(Sockets(U)), NEW n, AloneIn(s), LivingQueued(s)
  PROVE  LET d == [s EXCEPT ![n].queued = FALSE] IN
         d \in Seq(Sockets(U)) /\ AloneIn(d) /\ LivingQueued(d) /\ Aged(s, d)
<1>1. PICK d : d = [s EXCEPT ![n].queued = FALSE]
  OBVIOUS
<1>2. Len(s) \in Nat /\ DOMAIN s = 1 .. Len(s) /\ s \in [1 .. Len(s) -> Sockets(U)] /\ \A k \in DOMAIN s : s[k] \in Sockets(U)
  BY SeqIsFunction
<1>3. ASSUME NEW k \in DOMAIN s
      PROVE  /\ d[k] \in Sockets(U) /\ d[k].peer = s[k].peer /\ d[k].u = s[k].u /\ d[k].status = s[k].status
             /\ d[k].queued \in {FALSE, s[k].queued}
  BY <1>1, <1>2 DEF Sockets
<1>4. d \in [1 .. Len(s) -> Sockets(U)]
  BY <1>1, <1>2, <1>3
<1>5. d \in Seq(Sockets(U)) /\ Len(d) = Len(s) /\ DOMAIN d = DOMAIN s
  BY <1>2, <1>4, FunctionIsSeq
<1>q. \A k \in DOMAIN s : d[k].queued => s[k].queued
  BY <1>3
<1>r. \A k \in DOMAIN s : d[k].peer = s[k].peer /\ d[k].status = s[k].status
  BY <1>3
<1>6. AloneIn(d)
  BY <1>5, <1>q, <1>r DEF AloneIn
<1>7. LivingQueued(d)
  BY <1>5, <1>q, <1>r DEF LivingQueued
<1>a. Aged(s, d)
  BY <1>3, <1>5 DEF Aged
<1>8. QED
  BY <1>1, <1>5, <1>6, <1>7, <1>a

\* A new socket, when the caller's others are dropped.
LEMMA MadeKeeps ==
  ASSUME NEW U, NEW s \in Seq(Sockets(U)), NEW i \in Callers, NEW u \in U, AloneIn(s), LivingQueued(s),
         \A k \in DOMAIN s : s[k].peer = i => s[k].status = "gone"
  PROVE  LET d == Append(s, Made(i, u)) IN
         /\ d \in Seq(Sockets(U)) /\ AloneIn(d) /\ LivingQueued(d) /\ Len(d) = Len(s) + 1 /\ DOMAIN d = 1 .. Len(s) + 1
         /\ d[Len(s) + 1] = Made(i, u) /\ \A k \in DOMAIN s : d[k] = s[k]
<1>1. PICK d, x : d = Append(s, x) /\ x = Made(i, u)
  OBVIOUS
<1>2. x \in Sockets(U) /\ x.peer = i /\ x.status = "connected"
  BY <1>1 DEF Sockets, Made
<1>3. Len(s) \in Nat /\ DOMAIN s = 1 .. Len(s)
  BY SeqIsFunction
<1>4. /\ d \in Seq(Sockets(U)) /\ Len(d) = Len(s) + 1 /\ DOMAIN d = 1 .. Len(s) + 1
      /\ d[Len(s) + 1] = x /\ \A k \in DOMAIN s : d[k] = s[k]
  BY <1>1, <1>2, <1>3, AppendProperties, LenProperties
<1>5. \A k \in DOMAIN s : s[k].peer = i => s[k].status = "gone" /\ ~s[k].queued
  BY DEF LivingQueued
<1>6. AloneIn(d)
  <2>1. ASSUME NEW j \in DOMAIN d, NEW k \in DOMAIN d, d[j].peer = d[k].peer, j # k
        PROVE  ~(d[j].status = "connected" /\ d[k].status = "connected") /\ ~(d[j].queued /\ d[k].queued)
    <3>1. CASE j \in DOMAIN s /\ k \in DOMAIN s
      BY <1>4, <2>1, <3>1 DEF AloneIn
    <3>2. CASE j = Len(s) + 1 /\ k \in DOMAIN s
      <4>1. s[k].peer = i /\ d[k] = s[k]
        BY <1>2, <1>4, <2>1, <3>2
      <4>2. QED
        BY <1>5, <3>2, <4>1
    <3>3. CASE k = Len(s) + 1 /\ j \in DOMAIN s
      <4>1. s[j].peer = i /\ d[j] = s[j]
        BY <1>2, <1>4, <2>1, <3>3
      <4>2. QED
        BY <1>5, <3>3, <4>1
    <3>4. QED
      BY <1>3, <1>4, <2>1, <3>1, <3>2, <3>3
  <2>2. QED
    BY <2>1 DEF AloneIn
<1>7. LivingQueued(d)
  <2>1. ASSUME NEW k \in DOMAIN d, d[k].queued PROVE d[k].status # "gone"
    <3>1. k \in DOMAIN s \/ k = Len(s) + 1
      BY <1>3, <1>4
    <3>2. QED
      BY <1>2, <1>4, <2>1, <3>1 DEF LivingQueued
  <2>2. QED
    BY <2>1 DEF LivingQueued
<1>8. QED
  BY <1>1, <1>4, <1>6, <1>7

\* What a step makes of the listener's sockets.
LEMMA StepOnSockets ==
  ASSUME [Next]_vars
  PROVE  \/ acc' = acc
         \/ \E n : acc' = [acc EXCEPT ![n].status = "broken"] \/ acc' = [acc EXCEPT ![n].queued = FALSE] \/ acc' = Drop(acc, {n})
         \/ \E i \in Callers : Alive(i) = {} /\ acc' = Drop(acc, Located(i))
         \/ \E i \in Callers : \E u : Alive(i) = {} /\ acc' = Append(Drop(acc, Located(i)), Made(i, u))
<1>1. CASE UNCHANGED vars
  BY <1>1 DEF vars
<1>2. ASSUME NEW i \in Callers, ListenerReceives(i)
      PROVE  \/ acc' = acc
             \/ \E n : acc' = [acc EXCEPT ![n].status = "broken"]
             \/ Alive(i) = {} /\ acc' = Drop(acc, Located(i))
             \/ \E u : Alive(i) = {} /\ acc' = Append(Drop(acc, Located(i)), Made(i, u))
  <2>1. PICK m : acc' = (IF m.at = 0 THEN ProcessConnectRequest(i, m) ELSE ProcessAddressed(m)).acc
    BY <1>2 DEF ListenerReceives
  <2>2. \A s, out : Answered(s, out).acc = s
    BY DEF Answered
  <2>3. CASE m.at # 0
    <3>1. PICK d : d = [acc EXCEPT ![m.at].status = "broken"]
      OBVIOUS
    <3>2. \E s \in {acc, d} : \E out : ProcessAddressed(m) = Answered(s, out)
      BY <3>1, Zenon DEF ProcessAddressed
    <3>3. acc' = ProcessAddressed(m).acc
      BY <2>1, <2>3
    <3>4. acc' = acc \/ acc' = d
      BY <2>2, <3>2, <3>3
    <3>5. QED
      BY <3>1, <3>4
  <2>4. CASE m.at = 0
    <3>1. acc' = acc \/ acc' = NewConnection(i, m).acc
      BY <2>1, <2>2, <2>4 DEF ProcessConnectRequest
    <3>2. PICK left : left = Drop(acc, Located(i))
      OBVIOUS
    <3>3. PICK u : u = Responded(Interpret(Prepared, m.ext, TRUE)).u
      OBVIOUS
    <3>4. CASE acc' = NewConnection(i, m).acc
      <4>1. CASE Alive(i) # {}
        <5>1. NewConnection(i, m) = Answered(acc, Returned(m, "concl", Max(Alive(i))))
          BY <4>1 DEF NewConnection
        <5>2. QED
          BY <2>2, <3>4, <5>1
      <4>2. CASE Alive(i) = {}
        <5>1. \/ NewConnection(i, m) = Answered(left, Returned(m, "fail", 0))
              \/ \E out : NewConnection(i, m) = Answered(Append(left, Made(i, u)), out)
          BY <3>2, <3>3, <4>2 DEF NewConnection, Made
        <5>2. acc' = left \/ acc' = Append(left, Made(i, u))
          BY <2>2, <3>4, <5>1
        <5>3. QED
          BY <3>2, <4>2, <5>2
      <4>3. QED
        BY <4>1, <4>2
    <3>5. QED
      BY <3>1, <3>4
  <2>5. QED
    BY <2>3, <2>4
<1>3. ASSUME NEW i \in Callers, CallerReceives(i) \/ Retry(i) \/ Timeout(i) \/ Close(i) \/ Lose(i) PROVE acc' = acc
  BY <1>3 DEF CallerReceives, Retry, Timeout, Close, Lose
<1>4. ASSUME NEW k, Accept(k) PROVE acc' = [acc EXCEPT ![k].queued = FALSE]
  BY <1>4 DEF Accept
<1>5. ASSUME NEW k, SendData(k) PROVE acc' = acc
  BY <1>5 DEF SendData
<1>6. ASSUME NEW k, Expire(k) PROVE acc' = [acc EXCEPT ![k].status = "broken"]
  BY <1>6 DEF Expire
<1>7. ASSUME NEW k, Collect(k) PROVE acc' = Drop(acc, {k})
  BY <1>7 DEF Collect
<1>8. CASE Minute
  BY <1>8 DEF Minute
<1>9. QED
  BY <1>1, <1>2, <1>3, <1>4, <1>5, <1>6, <1>7, <1>8 DEF Next

\* No step gives a caller a second living socket: newConnection makes one only when it
\* found none that lives, and has dropped the others.
LEMMA OneStep ==
  ASSUME OneInv, [Next]_vars
  PROVE  OneInv'
<1>1. PICK U : acc \in Seq(Sockets(U))
  BY DEF OneInv
<1>2. AloneIn(acc) /\ LivingQueued(acc)
  BY DEF OneInv
<1>3. CASE acc' = acc
  BY <1>1, <1>2, <1>3 DEF OneInv, AloneIn, LivingQueued
<1>4. ASSUME NEW d, acc' = d, NEW V, d \in Seq(Sockets(V)), AloneIn(d), LivingQueued(d)
      PROVE  OneInv'
  BY <1>4 DEF OneInv, AloneIn, LivingQueued
<1>5. ASSUME NEW n, acc' = [acc EXCEPT ![n].status = "broken"] PROVE OneInv'
  BY <1>1, <1>2, <1>4, <1>5, BrokenKeeps
<1>6. ASSUME NEW n, acc' = [acc EXCEPT ![n].queued = FALSE] PROVE OneInv'
  BY <1>1, <1>2, <1>4, <1>6, AcceptKeeps
<1>7. ASSUME NEW G, acc' = Drop(acc, G) PROVE OneInv'
  BY <1>1, <1>2, <1>4, <1>7, DropIs, DropKeeps
<1>8. ASSUME NEW i \in Callers, NEW u, Alive(i) = {}, acc' = Append(Drop(acc, Located(i)), Made(i, u)) PROVE OneInv'
  <2>1. PICK V : V = U \union {u}
    OBVIOUS
  <2>2. acc \in Seq(Sockets(V))
    <3>1. Sockets(U) \subseteq Sockets(V)
      BY <2>1 DEF Sockets
    <3>2. QED
      BY <1>1, <3>1, SeqMonotonic
  <2>3. PICK d : d = Drop(acc, Located(i))
    OBVIOUS
  <2>4. d \in Seq(Sockets(V)) /\ Dropped(acc, Located(i), d) /\ AloneIn(d) /\ LivingQueued(d)
    BY <1>2, <2>2, <2>3, DropIs, DropKeeps
  <2>5. \A k \in DOMAIN d : d[k].peer = i => d[k].status = "gone"
    BY <2>4 DEF Dropped, Located
  <2>6. PICK e : e = Append(d, Made(i, u))
    OBVIOUS
  <2>7. e \in Seq(Sockets(V)) /\ AloneIn(e) /\ LivingQueued(e)
    BY <2>1, <2>4, <2>5, <2>6, MadeKeeps
  <2>8. QED
    BY <1>4, <1>8, <2>3, <2>6, <2>7
<1>9. QED
  BY <1>3, <1>5, <1>6, <1>7, <1>8, StepOnSockets

\* A listener has at most one connected socket for a caller, whatever requests are
\* repeated, reordered or lost (CUDTUnited::newConnection, api.cpp:344).
THEOREM OneSocketHolds == Spec => []OneSocket
<1>1. Init => OneInv
  <2>1. << >> \in Seq(Sockets({})) /\ DOMAIN << >> = {}
    BY EmptySeq
  <2>2. QED
    BY <2>1 DEF Init, OneInv, AloneIn, LivingQueued
<1>2. OneInv /\ [Next]_vars => OneInv'
  BY OneStep
<1>3. OneInv => OneSocket
  <2>1. ASSUME OneInv, NEW j \in DOMAIN acc, NEW k \in DOMAIN acc,
               acc[j].peer = acc[k].peer, {acc[j].status, acc[k].status} = {"connected"}
        PROVE  j = k
    BY <2>1 DEF OneInv, AloneIn
  <2>2. QED
    BY <2>1 DEF OneSocket
<1>4. QED
  BY <1>1, <1>2, <1>3, PTL DEF Spec

-----------------------------------------------------------------------------
(* The two ends, and what is on its way between them.                       *)

\* The backlog is never the reason of a refusal: there is room for one socket of each caller.
\* Without it the listener refuses a request that it took before, its answer carries that request,
\* and a caller that is connected by then reads it as if the peer had sent it.
Roomy == IsFiniteSet(Callers) /\ Cardinality(Callers) <= Backlog

\* What caller i asks for, how its request reads, and what it is answered.
Own(i) == opt.caller[i]
Req(i) == ReqOf(Own(i))
Read(i) == ReadBy(opt.listener, Own(i))
Rsp(i) == RspOf(opt.listener, Own(i))
Answers == {Rsp(i).u : i \in Callers}
\* The sockets that the listener made for it.
MadeFor(i) == {k \in DOMAIN acc : acc[k].peer = i}

\* The listener's sockets are those that its callers' requests make.
AccInv ==
    /\ acc \in Seq(Sockets(Answers)) /\ AloneIn(acc) /\ LivingQueued(acc)
    /\ \A k \in DOMAIN acc : acc[k].u = Rsp(acc[k].peer).u /\ Read(acc[k].peer).ok

\* What may be on its way between caller i and the listener.
Inductions == [at : {0}, type : {"induct"}, cookie : Int, ext : {NoExt}]
Requests(i) == [at : {0}, type : {"concl"}, cookie : Int, ext : {e \in {Req(i)} : c[i].type = "concl"}]
Refusals(i) == [at : {0}, type : {"fail"}, cookie : Int, ext : {e \in {Req(i)} : ~Read(i).ok}]
ToSockets(i) == [at : MadeFor(i), type : {"shut", "fail"}, cookie : Int, ext : {NoExt}]
FromSockets(i) == [at : MadeFor(i), type : {"concl"}, cookie : Int, ext : {Req(i), Rsp(i).ext, NoExt}]
                  \union [at : MadeFor(i), type : {"data"}, cookie : Int, ext : {NoExt}]
Upward(i) == Inductions \union Requests(i) \union ToSockets(i)
Downward(i) == Inductions \union Refusals(i) \union FromSockets(i)
\* Only that is on its way: it is the part of the invariant that ties both ends together.
NetInv ==
    /\ DOMAIN up = Callers /\ DOMAIN down = Callers
    /\ up = [i \in Callers |-> up[i]] /\ down = [i \in Callers |-> down[i]]
    /\ \A i \in Callers : up[i] \in Seq(Upward(i)) /\ down[i] \in Seq(Downward(i))

\* A caller that asks has its options as they were; one that is connected has read the
\* response to its own request, or that request itself.
IsCaller(x) == x = [f \in {"u", "status", "type", "cookie", "peer", "heard"} |-> x[f]]
Alike(u, v) == IsSocket(u) /\ \A f \in Members \ {"reject"} : u[f] = v[f]
Asking(i, x) ==
    /\ x.cookie \in Int
    /\ \/ x.type = "induct" /\ x.u = Opened(Own(i))
       \/ x.type = "concl" /\ x.u = Asker(Own(i))
Settled(i, x) ==
    /\ x.peer \in MadeFor(i) /\ x.heard \in {Req(i), Rsp(i).ext}
    /\ x.heard = Rsp(i).ext => HeardBy(Own(i), x.heard).ok /\ Alike(x.u, HeardBy(Own(i), x.heard).u)
CallerInv(i, x) ==
    /\ IsCaller(x)
    /\ x.type # "concl" => MadeFor(i) = {}
    /\ x.status = "connecting" => Asking(i, x)
    /\ x.status = "connected" => Settled(i, x)
CallersInv == DOMAIN c = Callers /\ \A i \in Callers : CallerInv(i, c[i])

\* The inductive invariant.
IInv == opt \in Options /\ minute \in Nat /\ AccInv /\ NetInv /\ CallersInv

\* What is sent are messages, the network drops those it has no room for.
LEMMA SentIs ==
  ASSUME NEW S, NEW q \in Seq(S), NEW out \in Seq(S)
  PROVE  Sent(q, out) \in Seq(S)
<1>1. PICK r : r = q \o out
  OBVIOUS
<1>2. r \in Seq(S) /\ Len(r) \in Nat /\ \A k \in 1 .. Len(r) : r[k] \in S
  BY <1>1, ConcatProperties, LenProperties, ElementOfSeq
<1>3. PICK n : n = Min({Len(r), Capacity})
  OBVIOUS
<1>4. n \in Nat /\ n <= Len(r)
  <2>1. Capacity \in Nat
    BY ListenerAssumption
  <2>2. \E x \in {Len(r), Capacity} : \A y \in {Len(r), Capacity} : x <= y
    BY <1>2, <2>1
  <2>3. n \in {Len(r), Capacity} /\ \A y \in {Len(r), Capacity} : n <= y
    BY <1>3, <2>2 DEF Min
  <2>4. QED
    BY <1>2, <2>1, <2>3
<1>5. SubSeq(r, 1, n) \in Seq(S)
  BY <1>2, <1>4, SubSeqProperties
<1>6. QED
  BY <1>1, <1>3, <1>5 DEF Sent

\* A message less are still messages.
LEMMA RemoveIs ==
  ASSUME NEW S, NEW q \in Seq(S), NEW n \in DOMAIN q
  PROVE  RemoveAt(q, n) \in Seq(S)
<1>1. Len(q) \in Nat /\ n \in 1 .. Len(q) /\ \A k \in 1 .. Len(q) : q[k] \in S
  BY LenProperties, ElementOfSeq
<1>2. SubSeq(q, 1, n - 1) \in Seq(S)
  BY <1>1, SubSeqProperties
<1>3. SubSeq(q, n + 1, Len(q)) \in Seq(S)
  BY <1>1, SubSeqProperties
<1>4. QED
  BY <1>2, <1>3, ConcatProperties DEF RemoveAt

\* One message, or none, is a sequence of messages.
LEMMA OneMessage ==
  ASSUME NEW S, NEW m \in S
  PROVE  <<m>> \in Seq(S) /\ << >> \in Seq(S)
  BY EmptySeq

\* What arrives was on its way.
LEMMA ArrivalIs ==
  ASSUME NEW S, NEW q \in Seq(S), NEW n \in Arrivals(q)
  PROVE  n \in DOMAIN q /\ q[n] \in S
<1>1. Len(q) \in Nat /\ DOMAIN q = 1 .. Len(q) /\ \A k \in 1 .. Len(q) : q[k] \in S
  BY LenProperties, ElementOfSeq
<1>2. q # << >> => 1 \in DOMAIN q
  BY <1>1, EmptySeq
<1>3. QED
  BY <1>1, <1>2 DEF Arrivals

\* With room in the backlog for every caller, a caller without a living socket
\* finds room: one socket of each of the others waits, at most.
LEMMA RoomInQueue ==
  ASSUME Roomy, NEW U, NEW s \in Seq(Sockets(U)), AloneIn(s), NEW i \in Callers,
         \A k \in DOMAIN s : s[k].peer = i => ~s[k].queued
  PROVE  ~(Cardinality(Queued(s)) >= Backlog)
<1> DEFINE Q == Queued(s)
           Others == Callers \ {i}
           f == [k \in Q |-> s[k].peer]
<1>1. \A k \in Q : k \in DOMAIN s /\ s[k].queued /\ s[k].peer \in Others
  <2>1. \A k \in DOMAIN s : s[k] \in Sockets(U)
    BY SeqIsFunction
  <2>2. QED
    BY <2>1 DEF Queued, Sockets
<1>2. f \in Injection(Q, Others)
  <2>1. f \in [Q -> Others]
    BY <1>1
  <2>2. \A j, k \in Q : f[j] = f[k] => j = k
    BY <1>1 DEF AloneIn
  <2>3. QED
    BY <2>1, <2>2 DEF Injection, IsInjective
<1>3. IsFiniteSet(Others) /\ Cardinality(Others) = Cardinality(Callers) - 1
  BY FS_RemoveElement DEF Roomy
<1>4. Cardinality(Q) <= Cardinality(Others)
  BY <1>2, <1>3, FS_Injection
<1>5. Cardinality(Callers) \in Nat /\ Cardinality(Q) \in Nat /\ Backlog \in Nat
  <2>1. IsFiniteSet(Q)
    BY <1>2, <1>3, FS_Injection
  <2>2. QED
    BY <2>1, FS_CardinalityType, ListenerAssumption DEF Roomy
<1>6. QED
  BY <1>3, <1>4, <1>5 DEF Roomy

-----------------------------------------------------------------------------
(* A step moves on: what may be on its way afterwards.                     *)

\* The listener's sockets d come after those of s.
Grows(s, d) ==
    /\ DOMAIN s \subseteq DOMAIN d
    /\ \A k \in DOMAIN s : d[k].peer = s[k].peer

\* The listener's sockets only get more, and a caller asks for none before it
\* has its cookie.
Onward ==
    /\ opt' = opt /\ Grows(acc, acc')
    /\ \A i \in Callers : /\ c[i].type = "concl" => c'[i].type = "concl"
                          /\ c'[i].type # "concl" => MadeFor(i)' = MadeFor(i)

\* What may be on its way may still be on its way later.
LEMMA OnwardIs ==
  ASSUME Onward, NEW i \in Callers
  PROVE  /\ Own(i)' = Own(i) /\ Req(i)' = Req(i) /\ Read(i)' = Read(i) /\ Rsp(i)' = Rsp(i)
         /\ MadeFor(i) \subseteq MadeFor(i)'
         /\ Upward(i) \subseteq Upward(i)' /\ Downward(i) \subseteq Downward(i)'
<1>1. Own(i)' = Own(i) /\ Req(i)' = Req(i) /\ Read(i)' = Read(i) /\ Rsp(i)' = Rsp(i)
  BY DEF Onward, Own, Req, Read, Rsp
<1>2. MadeFor(i) \subseteq MadeFor(i)'
  BY DEF Onward, Grows, MadeFor
<1>3. Inductions' = Inductions
  BY DEF Inductions
<1>4. Requests(i) \subseteq Requests(i)'
  <2>1. CASE c[i].type = "concl"
    <3>1. c'[i].type = "concl"
      BY <2>1, Zenon DEF Onward
    <3>2. QED
      BY <1>1, <2>1, <3>1 DEF Requests
  <2>2. CASE c[i].type # "concl"
    BY <2>2 DEF Requests
  <2>3. QED
    BY <2>1, <2>2
<1>5. Refusals(i) \subseteq Refusals(i)'
  BY <1>1 DEF Refusals
<1>6. ToSockets(i) \subseteq ToSockets(i)'
  BY <1>2 DEF ToSockets
<1>7. FromSockets(i) \subseteq FromSockets(i)'
  BY <1>1, <1>2 DEF FromSockets
<1>8. QED
  BY <1>1, <1>2, <1>3, <1>4, <1>5, <1>6, <1>7 DEF Upward, Downward

\* A caller keeps what is true of it while others move on.
LEMMA CallerStays ==
  ASSUME Onward, NEW i \in Callers, NEW x, CallerInv(i, x), x.type # "concl" => MadeFor(i)' = {}
  PROVE  CallerInv(i, x)'
<1>1. /\ Own(i)' = Own(i) /\ Req(i)' = Req(i) /\ Rsp(i)' = Rsp(i) /\ MadeFor(i) \subseteq MadeFor(i)'
  BY OnwardIs
<1>2. x.status = "connecting" => Asking(i, x)'
  BY <1>1 DEF CallerInv, Asking
<1>3. x.status = "connected" => Settled(i, x)'
  BY <1>1 DEF CallerInv, Settled
<1>4. QED
  BY <1>2, <1>3 DEF CallerInv

\* The network after a step that concerns one caller.
LEMMA NetAfter ==
  ASSUME IInv, Onward, NEW i \in Callers, NEW p, NEW q,
         up' = [up EXCEPT ![i] = p], down' = [down EXCEPT ![i] = q],
         p \in Seq(Upward(i)'), q \in Seq(Downward(i)')
  PROVE  NetInv'
<1>1. DOMAIN up = Callers /\ DOMAIN down = Callers /\ \A j \in Callers : up[j] \in Seq(Upward(j)) /\ down[j] \in Seq(Downward(j))
  BY DEF IInv, NetInv
<1>2. DOMAIN up' = Callers /\ DOMAIN down' = Callers /\ up'[i] = p /\ down'[i] = q
  BY <1>1
<1>3. ASSUME NEW j \in Callers, j # i PROVE up'[j] \in Seq(Upward(j)') /\ down'[j] \in Seq(Downward(j)')
  <2>1. up'[j] = up[j] /\ down'[j] = down[j]
    BY <1>1, <1>3
  <2>2. Upward(j) \subseteq Upward(j)' /\ Downward(j) \subseteq Downward(j)'
    BY OnwardIs
  <2>3. Seq(Upward(j)) \subseteq Seq(Upward(j)') /\ Seq(Downward(j)) \subseteq Seq(Downward(j)')
    BY <2>2, SeqMonotonic
  <2>4. QED
    BY <1>1, <2>1, <2>3
<1>4. QED
  BY <1>2, <1>3 DEF NetInv

\* The network after a step that sends and receives nothing.
LEMMA NetStays ==
  ASSUME IInv, Onward, UNCHANGED <<up, down>>
  PROVE  NetInv'
<1>1. DOMAIN up = Callers /\ DOMAIN down = Callers /\ \A j \in Callers : up[j] \in Seq(Upward(j)) /\ down[j] \in Seq(Downward(j))
  BY DEF IInv, NetInv
<1>2. ASSUME NEW j \in Callers PROVE up[j] \in Seq(Upward(j)') /\ down[j] \in Seq(Downward(j)')
  <2>1. Upward(j) \subseteq Upward(j)' /\ Downward(j) \subseteq Downward(j)'
    BY OnwardIs
  <2>2. Seq(Upward(j)) \subseteq Seq(Upward(j)') /\ Seq(Downward(j)) \subseteq Seq(Downward(j)')
    BY <2>1, SeqMonotonic
  <2>3. QED
    BY <1>1, <2>2
<1>3. up = [j \in Callers |-> up[j]] /\ down = [j \in Callers |-> down[j]]
  BY DEF IInv, NetInv
<1>4. up' = [j \in Callers |-> up'[j]] /\ down' = [j \in Callers |-> down'[j]]
  BY <1>3
<1>5. QED
  BY <1>1, <1>2, <1>4 DEF NetInv

\* The callers after a step of the listener.
LEMMA CallersStay ==
  ASSUME IInv, Onward, c' = c
  PROVE  CallersInv'
<1>1. DOMAIN c = Callers /\ \A i \in Callers : CallerInv(i, c[i])
  BY DEF IInv, CallersInv
<1>2. ASSUME NEW i \in Callers PROVE CallerInv(i, c[i])'
  <2>1. PICK x : x = c[i]
    OBVIOUS
  <2>2. CallerInv(i, x) /\ (x.type # "concl" => MadeFor(i)' = {})
    BY <1>1, <2>1 DEF CallerInv, Onward
  <2>3. CallerInv(i, x)'
    BY <2>2, CallerStays
  <2>4. QED
    BY <2>1, <2>3
<1>3. QED
  BY <1>1, <1>2 DEF CallersInv

\* The callers after a step of one of them.
LEMMA CallersAfter ==
  ASSUME IInv, Onward, NEW i \in Callers, NEW x, c' = [c EXCEPT ![i] = x], CallerInv(i, x)'
  PROVE  CallersInv'
<1>1. DOMAIN c = Callers /\ \A j \in Callers : CallerInv(j, c[j])
  BY DEF IInv, CallersInv
<1>2. DOMAIN c' = Callers /\ c'[i] = x
  BY <1>1
<1>3. ASSUME NEW j \in Callers, j # i PROVE CallerInv(j, c[j])' /\ c'[j] = c[j]
  <2>1. PICK y : y = c[j]
    OBVIOUS
  <2>2. c'[j] = c[j]
    BY <1>1, <1>3
  <2>3. CallerInv(j, y) /\ (y.type # "concl" => MadeFor(j)' = {})
    BY <1>1, <2>1, <2>2 DEF CallerInv, Onward
  <2>4. CallerInv(j, y)'
    BY <2>3, CallerStays
  <2>5. QED
    BY <2>1, <2>2, <2>4
<1>4. QED
  BY <1>2, <1>3 DEF CallersInv

\* The listener's sockets after a step of a caller.
LEMMA SocketsStay ==
  ASSUME IInv, opt' = opt, acc' = acc
  PROVE  AccInv'
  BY DEF IInv, AccInv, Answers, Rsp, Read, Own, AloneIn, LivingQueued

-----------------------------------------------------------------------------
(* The listener's side.                                                    *)

\* The invariant, of one caller.
LEMMA Facts ==
  ASSUME IInv, NEW i \in Callers
  PROVE  /\ IsOptions(opt.listener) /\ IsOptions(Own(i))
         /\ up[i] \in Seq(Upward(i)) /\ down[i] \in Seq(Downward(i))
         /\ CallerInv(i, c[i]) /\ MadeFor(i) \subseteq DOMAIN acc
  BY OptionsAssumption DEF IInv, NetInv, CallersInv, Own, MadeFor

\* What an answer is, to caller i with a message m that may reach the listener.
AnswerOk(i, a) ==
    /\ a.acc \in Seq(Sockets(Answers)) /\ AloneIn(a.acc) /\ LivingQueued(a.acc) /\ Grows(acc, a.acc)
    /\ \A k \in DOMAIN a.acc :
           /\ a.acc[k].u = Rsp(a.acc[k].peer).u /\ Read(a.acc[k].peer).ok
           /\ k \notin DOMAIN acc => a.acc[k].peer = i /\ c[i].type = "concl"
    /\ a.out \in Seq(Inductions \union Refusals(i)
                        \union [at : {k \in DOMAIN a.acc : a.acc[k].peer = i}, type : {"concl"}, cookie : Int,
                               ext : {Req(i), Rsp(i).ext, NoExt}])

\* An answer that leaves the sockets alone.
LEMMA AnswersNothing ==
  ASSUME IInv, NEW i \in Callers, NEW out,
         out \in Seq(Inductions \union Refusals(i)
                        \union [at : MadeFor(i), type : {"concl"}, cookie : Int, ext : {Req(i), Rsp(i).ext, NoExt}])
  PROVE  AnswerOk(i, Answered(acc, out))
<1>1. Answered(acc, out).acc = acc /\ Answered(acc, out).out = out
  BY DEF Answered
<1>2. QED
  BY <1>1 DEF AnswerOk, IInv, AccInv, Grows, MadeFor

\* CUDT::processCtrl of one of the listener's sockets (core.cpp:7420).
LEMMA AnswersAddressed ==
  ASSUME IInv, NEW i \in Callers, NEW m \in ToSockets(i)
  PROVE  AnswerOk(i, ProcessAddressed(m))
<1>1. m.at \in MadeFor(i) /\ m.type \in {"shut", "fail"} /\ m.ext = NoExt
  BY DEF ToSockets
<1> DEFINE Outs == Inductions \union Refusals(i)
                   \union [at : MadeFor(i), type : {"concl"}, cookie : Int, ext : {Req(i), Rsp(i).ext, NoExt}]
<1>2. << >> \in Seq(Outs)
  BY EmptySeq
<1>3. <<Msg(m.at, "concl", 0, NoExt)>> \in Seq(Outs)
  BY <1>1, OneMessage DEF Msg
<1>4. AnswerOk(i, Answered(acc, << >>)) /\ AnswerOk(i, Answered(acc, <<Msg(m.at, "concl", 0, NoExt)>>))
  BY <1>2, <1>3, AnswersNothing
<1>5. PICK d : d = [acc EXCEPT ![m.at].status = "broken"]
  OBVIOUS
<1>6. d \in Seq(Sockets(Answers)) /\ AloneIn(d) /\ LivingQueued(d) /\ Aged(acc, d)
  BY <1>5, BrokenKeeps DEF IInv, AccInv
<1>a. DOMAIN d = DOMAIN acc /\ \A k \in DOMAIN acc : d[k].peer = acc[k].peer /\ d[k].u = acc[k].u
  BY <1>6, Zenon DEF Aged
<1>7. AnswerOk(i, Answered(d, << >>))
  <2>1. PICK a : a = Answered(d, << >>)
    OBVIOUS
  <2>2. a.acc = d /\ a.out = << >>
    BY <2>1 DEF Answered
  <2>3. Grows(acc, d)
    BY <1>a DEF Grows
  <2>4. \A k \in DOMAIN d : k \in DOMAIN acc /\ d[k].u = Rsp(d[k].peer).u /\ Read(d[k].peer).ok
    BY <1>a DEF IInv, AccInv
  <2>5. << >> \in Seq(Inductions \union Refusals(i)
                        \union [at : {k \in DOMAIN d : d[k].peer = i}, type : {"concl"}, cookie : Int,
                               ext : {Req(i), Rsp(i).ext, NoExt}])
    BY EmptySeq
  <2>6. AnswerOk(i, a)
    BY <1>6, <2>2, <2>3, <2>4, <2>5 DEF AnswerOk
  <2>7. QED
    BY <2>1, <2>6
<1>8. ProcessAddressed(m) \in {Answered(acc, << >>), Answered(acc, <<Msg(m.at, "concl", 0, NoExt)>>), Answered(d, << >>)}
  BY <1>5, Zenon DEF ProcessAddressed
<1>9. QED
  BY <1>4, <1>7, <1>8

\* CUDTUnited::newConnection (api.cpp:344): it finds room in the queue, so it refuses only
\* what it can not read, and it answers only what the request of this caller is answered.
LEMMA AnswersRequest ==
  ASSUME Roomy, IInv, NEW i \in Callers, NEW m \in Requests(i)
  PROVE  AnswerOk(i, NewConnection(i, m))
<1>1. m.ext = Req(i) /\ c[i].type = "concl" /\ m.type = "concl"
  BY DEF Requests
<1> DEFINE Outs == Inductions \union Refusals(i)
                   \union [at : MadeFor(i), type : {"concl"}, cookie : Int, ext : {Req(i), Rsp(i).ext, NoExt}]
<1>2. CASE Alive(i) # {}
  <2>1. PICK k \in Alive(i) : TRUE
    BY <1>2
  <2>2. \A j \in Alive(i) : j = k
    BY <2>1 DEF Alive, Located, IInv, AccInv, AloneIn
  <2>3. Max(Alive(i)) = k
    <3>1. Alive(i) = {k}
      BY <2>1, <2>2
    <3>2. k \in Int
      BY <2>1, SeqIsFunction DEF Alive, Located, IInv, AccInv
    <3>3. QED
      BY <3>1, <3>2 DEF Max
  <2>4. k \in MadeFor(i)
    BY <2>1 DEF Alive, Located, MadeFor
  <2>5. Returned(m, "concl", k) \in Seq(Outs)
    BY <1>1, <2>4, OneMessage DEF Returned, Msg
  <2>6. NewConnection(i, m) = Answered(acc, Returned(m, "concl", k))
    BY <1>2, <2>3 DEF NewConnection
  <2>7. QED
    BY <2>5, <2>6, AnswersNothing
<1>3. CASE Alive(i) = {}
  <2>1. PICK left : left = Drop(acc, Located(i))
    OBVIOUS
  <2>2. /\ left \in Seq(Sockets(Answers)) /\ Dropped(acc, Located(i), left) /\ AloneIn(left) /\ LivingQueued(left)
    BY <2>1, DropIs, DropKeeps DEF IInv, AccInv
  <2>3. \A k \in DOMAIN left : left[k].peer = i => left[k].status = "gone"
    BY <2>2 DEF Dropped, Located
  <2>4. ~(Cardinality(Queued(left)) >= Backlog)
    <3>1. \A k \in DOMAIN left : left[k].peer = i => ~left[k].queued
      BY <2>2, <2>3 DEF LivingQueued
    <3>2. QED
      BY <2>2, <3>1, RoomInQueue
  <2>5. Grows(acc, left)
    BY <2>2 DEF Grows, Dropped
  <2>6. \A k \in DOMAIN left : k \in DOMAIN acc /\ left[k].u = Rsp(left[k].peer).u /\ Read(left[k].peer).ok
    BY <2>2 DEF Dropped, IInv, AccInv
  <2>7. Interpret(Prepared, m.ext, TRUE) = Read(i)
    BY <1>1 DEF Prepared, Req, Read, ReadBy
  <2>8. PICK u, ext : u = Rsp(i).u /\ ext = Rsp(i).ext
    OBVIOUS
  <2>9. Responded(Read(i)).u = u /\ Responded(Read(i)).ext = ext
    BY <2>8 DEF Responded, Rsp, RspOf, Read
  <2>10. CASE ~Read(i).ok
    <3>1. NewConnection(i, m) = Answered(left, Returned(m, "fail", 0))
      BY <1>3, <2>1, <2>7, <2>10 DEF NewConnection
    <3>2. PICK a : a = Answered(left, Returned(m, "fail", 0))
      OBVIOUS
    <3>3. a.acc = left /\ a.out = Returned(m, "fail", 0)
      BY <3>2 DEF Answered
    <3>4. Msg(0, "fail", 0, m.ext) \in Refusals(i)
      BY <1>1, <2>10 DEF Refusals, Msg
    <3>5. Returned(m, "fail", 0) \in Seq(Inductions \union Refusals(i)
                        \union [at : {k \in DOMAIN left : left[k].peer = i}, type : {"concl"}, cookie : Int,
                               ext : {Req(i), Rsp(i).ext, NoExt}])
      BY <3>4, OneMessage DEF Returned
    <3>6. AnswerOk(i, a)
      BY <2>2, <2>5, <2>6, <3>3, <3>5 DEF AnswerOk
    <3>7. QED
      BY <3>1, <3>2, <3>6
  <2>11. CASE Read(i).ok
    <3>1. PICK d : d = Append(left, Made(i, u))
      OBVIOUS
    <3>2. PICK n : n = Len(left) + 1
      OBVIOUS
    <3>3. NewConnection(i, m) = Answered(d, <<Msg(n, "concl", 0, ext)>>)
      BY <1>3, <2>1, <2>4, <2>7, <2>9, <2>11, <3>1, <3>2 DEF NewConnection, Made
    <3>4. u \in Answers
      BY <2>8 DEF Answers
    <3>5. /\ d \in Seq(Sockets(Answers)) /\ AloneIn(d) /\ LivingQueued(d) /\ DOMAIN d = 1 .. n
          /\ d[n] = Made(i, u) /\ \A k \in DOMAIN left : d[k] = left[k]
      BY <2>2, <2>3, <3>1, <3>2, <3>4, MadeKeeps
    <3>6. Len(left) \in Nat /\ DOMAIN left = 1 .. Len(left) /\ n \in DOMAIN d
      BY <2>2, <3>2, <3>5, SeqIsFunction
    <3>7. d[n].peer = i /\ d[n].u = u
      BY <3>5 DEF Made
    <3>8. Grows(acc, d)
      BY <2>2, <2>5, <3>2, <3>5, <3>6 DEF Grows, Dropped
    <3>9. ASSUME NEW k \in DOMAIN d
          PROVE  /\ d[k].u = Rsp(d[k].peer).u /\ Read(d[k].peer).ok
                 /\ k \notin DOMAIN acc => d[k].peer = i
      <4>1. CASE k = n
        BY <2>8, <2>11, <3>7, <4>1
      <4>2. CASE k # n
        <5>1. k \in DOMAIN left
          BY <3>2, <3>5, <3>6, <4>2
        <5>2. QED
          BY <2>6, <3>5, <5>1
      <4>3. QED
        BY <4>1, <4>2
    <3>10. <<Msg(n, "concl", 0, ext)>> \in Seq(Inductions \union Refusals(i)
                        \union [at : {k \in DOMAIN d : d[k].peer = i}, type : {"concl"}, cookie : Int,
                               ext : {Req(i), Rsp(i).ext, NoExt}])
      BY <2>8, <3>6, <3>7, OneMessage DEF Msg
    <3>11. PICK a : a = Answered(d, <<Msg(n, "concl", 0, ext)>>)
      OBVIOUS
    <3>12. a.acc = d /\ a.out = <<Msg(n, "concl", 0, ext)>>
      BY <3>11 DEF Answered
    <3>13. AnswerOk(i, a)
      BY <1>1, <3>5, <3>8, <3>9, <3>10, <3>12 DEF AnswerOk
    <3>14. QED
      BY <3>3, <3>11, <3>13
  <2>12. QED
    BY <2>10, <2>11
<1>4. QED
  BY <1>2, <1>3

\* CUDT::processConnectRequest (core.cpp): a message reaches the listener.
LEMMA ListenerStep ==
  ASSUME Roomy, IInv, NEW i \in Callers, ListenerReceives(i)
  PROVE  IInv'
<1>1. PICK n \in Arrivals(up[i]) :
          \E a \in {IF up[i][n].at = 0 THEN ProcessConnectRequest(i, up[i][n]) ELSE ProcessAddressed(up[i][n])} :
              /\ acc' = a.acc /\ up' = [up EXCEPT ![i] = RemoveAt(@, n)]
              /\ down' = [down EXCEPT ![i] = Sent(@, a.out)] /\ UNCHANGED <<minute, env, c>>
  BY Zenon DEF ListenerReceives
<1>2. PICK m : m = up[i][n]
  OBVIOUS
<1>3. PICK a : /\ a = IF m.at = 0 THEN ProcessConnectRequest(i, m) ELSE ProcessAddressed(m)
               /\ acc' = a.acc /\ up' = [up EXCEPT ![i] = RemoveAt(@, n)]
               /\ down' = [down EXCEPT ![i] = Sent(@, a.out)] /\ UNCHANGED <<minute, env, c>>
  BY <1>1, <1>2
<1>4. /\ acc' = a.acc /\ up' = [up EXCEPT ![i] = RemoveAt(up[i], n)] /\ down' = [down EXCEPT ![i] = Sent(down[i], a.out)]
      /\ UNCHANGED <<minute, opt, c>>
  BY <1>3 DEF env
<1>5. /\ up[i] \in Seq(Upward(i)) /\ down[i] \in Seq(Downward(i)) /\ n \in DOMAIN up[i] /\ m \in Upward(i)
  BY <1>1, <1>2, Facts, ArrivalIs
<1>6. AnswerOk(i, a)
  <2>1. CASE m \in Inductions
    <3>1. m.at = 0 /\ m.type = "induct"
      BY <2>1 DEF Inductions
    <3>2. a = Answered(acc, <<Msg(0, "induct", Bake(0), NoExt)>>)
      BY <1>3, <3>1 DEF ProcessConnectRequest
    <3>3. Msg(0, "induct", Bake(0), NoExt) \in Inductions
      <4>1. Bake(0) \in Int
        BY DEF Bake, IInv
      <4>2. QED
        BY <4>1 DEF Inductions, Msg
    <3>4. <<Msg(0, "induct", Bake(0), NoExt)>> \in Seq(Inductions \union Refusals(i)
                \union [at : MadeFor(i), type : {"concl"}, cookie : Int, ext : {Req(i), Rsp(i).ext, NoExt}])
      BY <3>3, OneMessage
    <3>5. QED
      BY <3>2, <3>4, AnswersNothing
  <2>2. CASE m \in Requests(i)
    <3>1. m.at = 0 /\ m.type = "concl"
      BY <2>2 DEF Requests
    <3>2. a = NewConnection(i, m) \/ a = Answered(acc, << >>)
      BY <1>3, <3>1 DEF ProcessConnectRequest
    <3>3. << >> \in Seq(Inductions \union Refusals(i)
                \union [at : MadeFor(i), type : {"concl"}, cookie : Int, ext : {Req(i), Rsp(i).ext, NoExt}])
      BY EmptySeq
    <3>4. QED
      BY <2>2, <3>2, <3>3, AnswersNothing, AnswersRequest
  <2>3. CASE m \in ToSockets(i)
    <3>1. m.at # 0
      <4>1. DOMAIN acc = 1 .. Len(acc) /\ Len(acc) \in Nat
        BY SeqIsFunction DEF IInv, AccInv
      <4>2. m.at \in DOMAIN acc
        BY <2>3 DEF ToSockets, MadeFor
      <4>3. QED
        BY <4>1, <4>2
    <3>2. QED
      BY <1>3, <2>3, <3>1, AnswersAddressed
  <2>4. QED
    BY <1>5, <2>1, <2>2, <2>3 DEF Upward
<1>7. Onward
  <2>1. Grows(acc, acc') /\ c' = c /\ opt' = opt
    BY <1>4, <1>6 DEF AnswerOk
  <2>2. ASSUME NEW j \in Callers, c[j].type # "concl" PROVE MadeFor(j)' = MadeFor(j)
    <3>1. \A k \in DOMAIN acc' : k \notin DOMAIN acc => acc'[k].peer = i /\ c[i].type = "concl"
      BY <1>4, <1>6 DEF AnswerOk
    <3>2. \A k \in DOMAIN acc' : acc'[k].peer = j => k \in DOMAIN acc /\ acc[k].peer = j
      BY <2>1, <2>2, <3>1 DEF Grows
    <3>3. \A k \in DOMAIN acc : k \in DOMAIN acc' /\ acc'[k].peer = acc[k].peer
      BY <2>1 DEF Grows
    <3>4. QED
      BY <3>2, <3>3 DEF MadeFor
  <2>3. QED
    BY <2>1, <2>2 DEF Onward
<1>8. AccInv'
  <2>1. \A k \in Callers : Rsp(k)' = Rsp(k) /\ Read(k)' = Read(k)
    BY <1>7, OnwardIs
  <2>2. Answers' = Answers
    BY <2>1 DEF Answers
  <2>3. acc' \in Seq(Sockets(Answers)) /\ AloneIn(acc)' /\ LivingQueued(acc)'
    BY <1>4, <1>6 DEF AnswerOk, AloneIn, LivingQueued
  <2>4. \A k \in DOMAIN acc' : acc'[k].peer \in Callers
    <3>1. \A k \in DOMAIN acc' : acc'[k] \in Sockets(Answers)
      BY <2>3, SeqIsFunction
    <3>2. QED
      BY <3>1 DEF Sockets
  <2>5. \A k \in DOMAIN acc' : acc'[k].u = Rsp(acc'[k].peer).u /\ Read(acc'[k].peer).ok
    BY <1>4, <1>6 DEF AnswerOk
  <2>6. \A k \in DOMAIN acc' : acc'[k].u = (Rsp(acc[k].peer).u)' /\ (Read(acc[k].peer).ok)'
    <3>1. ASSUME NEW k \in DOMAIN acc' PROVE acc'[k].u = (Rsp(acc[k].peer).u)' /\ (Read(acc[k].peer).ok)'
      <4>1. PICK p \in Callers : p = acc'[k].peer
        BY <2>4
      <4>2. acc'[k].u = Rsp(p).u /\ Read(p).ok
        BY <2>5, <4>1
      <4>3. Rsp(p)' = Rsp(p) /\ Read(p)' = Read(p)
        BY <2>1
      <4>4. (Rsp(acc[k].peer))' = Rsp(p)' /\ (Read(acc[k].peer))' = Read(p)'
        BY <4>1 DEF Rsp, Read, Own
      <4>5. QED
        BY <4>2, <4>3, <4>4
    <3>2. QED
      BY <3>1
  <2>7. QED
    BY <2>2, <2>3, <2>6 DEF AccInv
<1>9. NetInv'
  <2>1. PICK p, q : p = RemoveAt(up[i], n) /\ q = Sent(down[i], a.out)
    OBVIOUS
  <2>2. Upward(i) \subseteq Upward(i)' /\ Downward(i) \subseteq Downward(i)' /\ Req(i)' = Req(i) /\ Rsp(i)' = Rsp(i)
    BY <1>7, OnwardIs
  <2>3. p \in Seq(Upward(i)')
    BY <1>5, <2>1, <2>2, RemoveIs, SeqMonotonic
  <2>4. down[i] \in Seq(Downward(i)')
    BY <1>5, <2>2, SeqMonotonic
  <2>5. a.out \in Seq(Downward(i)')
    <3>1. MadeFor(i)' = {k \in DOMAIN a.acc : a.acc[k].peer = i}
      BY <1>4 DEF MadeFor
    <3>2. [at : MadeFor(i)', type : {"concl"}, cookie : Int, ext : {Req(i), Rsp(i).ext, NoExt}] \subseteq FromSockets(i)'
      BY <2>2 DEF FromSockets
    <3>3. Inductions \union Refusals(i) \subseteq Downward(i)'
      BY <2>2 DEF Downward
    <3>4. Inductions \union Refusals(i)
             \union [at : MadeFor(i)', type : {"concl"}, cookie : Int, ext : {Req(i), Rsp(i).ext, NoExt}] \subseteq Downward(i)'
      BY <3>2, <3>3 DEF Downward
    <3>5. QED
      BY <1>6, <3>1, <3>4, SeqMonotonic DEF AnswerOk
  <2>6. q \in Seq(Downward(i)')
    BY <2>1, <2>4, <2>5, SentIs
  <2>7. QED
    BY <1>4, <1>7, <2>1, <2>3, <2>6, NetAfter
<1>10. CallersInv'
  BY <1>4, <1>7, CallersStay
<1>11. QED
  BY <1>4, <1>8, <1>9, <1>10 DEF IInv

-----------------------------------------------------------------------------
(* A caller's side.                                                        *)

\* What a caller in state x may send.
UpNext(i, x) ==
    Inductions \union ToSockets(i)
    \union [at : {0}, type : {"concl"}, cookie : Int, ext : {e \in {Req(i)} : x.type = "concl"}]
\* What a step makes of a caller in state x, and what it sends.
ResultOk(i, x, r) ==
    /\ CallerInv(i, r.x) /\ (x.type = "concl" => r.x.type = "concl")
    /\ r.out \in Seq(UpNext(i, r.x))

\* The two parts of a result.
LEMMA ResultIs ==
  ASSUME NEW x, NEW out
  PROVE  Result(x, out).x = x /\ Result(x, out).out = out
  BY DEF Result

\* A step of one caller.
LEMMA CallerStep ==
  ASSUME IInv, NEW i \in Callers, NEW r, ResultOk(i, c[i], r), NEW q \in Seq(Downward(i)),
         c' = [c EXCEPT ![i] = r.x], up' = [up EXCEPT ![i] = Sent(up[i], r.out)], down' = [down EXCEPT ![i] = q],
         UNCHANGED <<minute, opt, acc>>
  PROVE  IInv'
<1>1. DOMAIN c = Callers /\ c'[i] = r.x /\ \A j \in Callers : j # i => c'[j] = c[j]
  BY DEF IInv, CallersInv
<1>2. Onward
  <2>1. Grows(acc, acc') /\ \A j \in Callers : MadeFor(j)' = MadeFor(j)
    BY DEF Grows, MadeFor
  <2>2. \A j \in Callers : c[j].type = "concl" => c'[j].type = "concl"
    BY <1>1 DEF ResultOk
  <2>3. QED
    BY <2>1, <2>2 DEF Onward
<1>3. Upward(i) \subseteq Upward(i)' /\ Downward(i) \subseteq Downward(i)'
  BY <1>2, OnwardIs
<1>4. UpNext(i, r.x) \subseteq Upward(i)'
  <2>1. Req(i)' = Req(i) /\ ToSockets(i)' = ToSockets(i) /\ Inductions' = Inductions
    BY <1>2, OnwardIs DEF ToSockets, MadeFor, Inductions
  <2>2. PICK x : x = r.x
    OBVIOUS
  <2>3. Requests(i)' = [at : {0}, type : {"concl"}, cookie : Int, ext : {e \in {Req(i)} : x.type = "concl"}]
    BY <1>1, <2>1, <2>2 DEF Requests
  <2>4. QED
    BY <2>1, <2>2, <2>3 DEF UpNext, Upward
<1>5. up[i] \in Seq(Upward(i)') /\ r.out \in Seq(Upward(i)') /\ q \in Seq(Downward(i)')
  BY <1>3, <1>4, Facts, SeqMonotonic DEF ResultOk
<1>6. NetInv'
  <2>1. Sent(up[i], r.out) \in Seq(Upward(i)')
    BY <1>5, SentIs
  <2>2. QED
    BY <1>2, <1>5, <2>1, NetAfter
<1>7. AccInv'
  BY SocketsStay
<1>8. CallersInv'
  <2>1. PICK x : x = r.x
    OBVIOUS
  <2>2. CallerInv(i, x) /\ (x.type # "concl" => MadeFor(i) = {})
    BY <2>1 DEF ResultOk, CallerInv
  <2>3. CallerInv(i, x)'
    <3>1. MadeFor(i)' = MadeFor(i)
      BY DEF MadeFor
    <3>2. QED
      BY <1>2, <2>2, <3>1, CallerStays
  <2>4. QED
    BY <1>2, <2>1, <2>3, CallersAfter
<1>9. QED
  BY <1>6, <1>7, <1>8 DEF IInv

\* A repeated request is the first one again.
LEMMA RepeatIs ==
  ASSUME IInv, NEW i \in Callers, NEW x, CallerInv(i, x), x.status = "connecting"
  PROVE  ResultOk(i, x, RepeatRequest(x))
<1>1. IsCaller(x) /\ Asking(i, x)
  BY DEF CallerInv
<1>2. CASE x.type = "induct"
  <2>1. RepeatRequest(x) = Result(x, <<Ask>>)
    BY <1>2 DEF RepeatRequest
  <2>2. Ask \in UpNext(i, x)
    BY DEF Ask, Msg, UpNext, Inductions
  <2>3. <<Ask>> \in Seq(UpNext(i, x))
    BY <2>2, OneMessage
  <2>4. PICK r : r = RepeatRequest(x)
    OBVIOUS
  <2>5. r.x = x /\ r.out = <<Ask>>
    BY <2>1, <2>4, ResultIs
  <2>6. ResultOk(i, x, r)
    BY <2>3, <2>5 DEF ResultOk
  <2>7. QED
    BY <2>4, <2>6
<1>3. CASE x.type = "concl" /\ x.u = Asker(Own(i))
  <2>1. CreateReq(x.u).u = x.u /\ CreateReq(x.u).ext = Req(i)
    BY <1>3, Facts, ReqIs DEF Req, ReqOf
  <2>2. [x EXCEPT !.u = CreateReq(x.u).u] = x
    BY <1>1, <2>1 DEF IsCaller
  <2>3. RepeatRequest(x) = Result(x, <<Msg(0, "concl", x.cookie, Req(i))>>)
    BY <1>3, <2>1, <2>2 DEF RepeatRequest
  <2>4. Msg(0, "concl", x.cookie, Req(i)) \in UpNext(i, x)
    BY <1>1, <1>3 DEF Msg, UpNext, Asking
  <2>5. <<Msg(0, "concl", x.cookie, Req(i))>> \in Seq(UpNext(i, x))
    BY <2>4, OneMessage
  <2>6. PICK r : r = RepeatRequest(x)
    OBVIOUS
  <2>7. r.x = x /\ r.out = <<Msg(0, "concl", x.cookie, Req(i))>>
    BY <2>3, <2>6, ResultIs
  <2>8. ResultOk(i, x, r)
    BY <2>5, <2>7 DEF ResultOk
  <2>9. QED
    BY <2>6, <2>8
<1>4. QED
  BY <1>1, <1>2, <1>3 DEF Asking

\* A caller that stops has nothing more to keep.
LEMMA StoppedIs ==
  ASSUME IInv, NEW i \in Callers, NEW x, CallerInv(i, x), NEW y, IsCaller(y), y.type = x.type,
         y.status \notin {"connecting", "connected"}, NEW out, out \in Seq(ToSockets(i))
  PROVE  ResultOk(i, x, Result(y, out))
<1>1. CallerInv(i, y)
  BY DEF CallerInv
<1>2. out \in Seq(UpNext(i, y))
  <2>1. ToSockets(i) \subseteq UpNext(i, y)
    BY DEF UpNext
  <2>2. QED
    BY <2>1, SeqMonotonic
<1>3. PICK r : r = Result(y, out)
  OBVIOUS
<1>4. r.x = y /\ r.out = out
  BY <1>3, ResultIs
<1>5. ResultOk(i, x, r)
  BY <1>1, <1>2, <1>4 DEF ResultOk
<1>6. QED
  BY <1>3, <1>5

\* A handshake without extensions is refused.
LEMMA BareIsRefused ==
  ASSUME NEW u, NEW answering
  PROVE  /\ Interpret(u, NoExt, answering).ok = FALSE
         /\ Interpret(u, NoExt, answering).u = [[u EXCEPT !.reject = "unknown"] EXCEPT !.reject = "rogue"]
<1>1. PICK v : v = [[u EXCEPT !.reject = "unknown"] EXCEPT !.reject = "rogue"]
  OBVIOUS
<1>2. Interpret(u, NoExt, answering) = Failed(v)
  BY <1>1, Zenon DEF Interpret, Reject
<1>3. QED
  BY <1>1, <1>2 DEF Failed

\* What a caller that takes a response has become.
LEMMA HeardIsSocket ==
  ASSUME IInv, NEW i \in Callers, Read(i).ok, HeardBy(Own(i), Rsp(i).ext).ok
  PROVE  IsSocket(HeardBy(Own(i), Rsp(i).ext).u)
  BY Facts, NegotiationAgrees DEF Read, Rsp

\* CUDT::postConnect: a caller takes the response to its request, or its request itself.
LEMMA PostConnectIs ==
  ASSUME IInv, NEW i \in Callers, NEW x, CallerInv(i, x), x.status = "connecting", NEW m \in FromSockets(i)
  PROVE  ResultOk(i, x, PostConnect(x, m))
<1>1. m.at \in MadeFor(i) /\ m.ext \in {Req(i), Rsp(i).ext, NoExt}
  BY DEF FromSockets
<1>2. x.type = "concl" /\ x.u = Asker(Own(i)) /\ IsCaller(x)
  BY <1>1 DEF CallerInv, Asking
<1>3. PICK read : read = HeardBy(Own(i), m.ext)
  OBVIOUS
<1>4. Interpret(x.u, m.ext, FALSE) = read
  BY <1>2, <1>3 DEF HeardBy
<1>5. PICK y : y = [x EXCEPT !.u = read.u, !.peer = m.at, !.heard = m.ext]
  OBVIOUS
<1>6. IsCaller(y) /\ y.type = "concl" /\ y.u = read.u /\ y.peer = m.at /\ y.heard = m.ext
  BY <1>2, <1>5 DEF IsCaller
<1>7. CASE read.ok
  <2>1. PICK z : z = [y EXCEPT !.status = "connected"]
    OBVIOUS
  <2>2. IsCaller(z) /\ z.type = "concl" /\ z.status = "connected" /\ z.u = read.u /\ z.peer = m.at /\ z.heard = m.ext
    BY <1>6, <2>1 DEF IsCaller
  <2>3. PostConnect(x, m) = Result(z, << >>)
    BY <1>4, <1>5, <1>7, <2>1 DEF PostConnect
  <2>4. m.ext # NoExt
    BY <1>3, <1>7, BareIsRefused DEF HeardBy
  <2>5. ASSUME m.ext = Rsp(i).ext PROVE Alike(read.u, read.u)
    <3>1. Read(i).ok
      BY <1>1 DEF IInv, AccInv, MadeFor
    <3>2. QED
      BY <1>3, <1>7, <2>5, <3>1, HeardIsSocket DEF Alike
  <2>6. Settled(i, z)
    BY <1>1, <1>3, <1>7, <2>2, <2>4, <2>5 DEF Settled
  <2>7. CallerInv(i, z)
    BY <2>2, <2>6 DEF CallerInv
  <2>8. PICK r : r = Result(z, << >>)
    OBVIOUS
  <2>9. r.x = z /\ r.out = << >>
    BY <2>8, ResultIs
  <2>10. ResultOk(i, x, r)
    BY <2>2, <2>7, <2>9, EmptySeq DEF ResultOk
  <2>11. QED
    BY <2>3, <2>8, <2>10
<1>8. CASE ~read.ok
  <2>1. PICK z : z = [y EXCEPT !.status = "failed"]
    OBVIOUS
  <2>2. IsCaller(z) /\ z.type = "concl" /\ z.status = "failed"
    BY <1>6, <2>1 DEF IsCaller
  <2>3. PostConnect(x, m) = Result(z, <<Msg(m.at, "shut", 0, NoExt)>>)
    BY <1>4, <1>5, <1>8, <2>1 DEF PostConnect
  <2>4. <<Msg(m.at, "shut", 0, NoExt)>> \in Seq(ToSockets(i))
    BY <1>1, OneMessage DEF ToSockets, Msg
  <2>5. QED
    BY <1>2, <2>2, <2>3, <2>4, StoppedIs
<1>9. QED
  BY <1>7, <1>8

\* CUDT::processConnectResponse (core.cpp), of any message that may reach the caller.
LEMMA ConnectingIs ==
  ASSUME IInv, NEW i \in Callers, NEW x, CallerInv(i, x), x.status = "connecting", NEW m \in Downward(i)
  PROVE  ResultOk(i, x, Connecting(x, m))
<1>1. CASE m \in Inductions
  <2>1. m.type = "induct" /\ m.cookie \in Int
    BY <1>1 DEF Inductions
  <2>2. IsCaller(x) /\ Asking(i, x)
    BY DEF CallerInv
  <2>3. CreateCrypter(x.u, "initiator") = Asker(Own(i))
    <3>1. Asker(Own(i)).crypter = TRUE
      BY AskerIs DEF Began
    <3>2. CASE x.u = Opened(Own(i))
      BY <3>2 DEF Asker
    <3>3. CASE x.u = Asker(Own(i))
      BY <3>1, <3>3 DEF CreateCrypter
    <3>4. QED
      BY <2>2, <3>2, <3>3 DEF Asking
  <2>4. PICK y : y = [x EXCEPT !.type = "concl", !.cookie = m.cookie, !.u = Asker(Own(i))]
    OBVIOUS
  <2>5. IsCaller(y) /\ y.type = "concl" /\ y.status = "connecting" /\ y.cookie = m.cookie /\ y.u = Asker(Own(i))
    BY <2>2, <2>4 DEF IsCaller
  <2>6. CallerInv(i, y)
    BY <2>1, <2>5 DEF CallerInv, Asking
  <2>7. Connecting(x, m) = RepeatRequest(y)
    BY <2>1, <2>3, <2>4, Zenon DEF Connecting
  <2>8. ResultOk(i, y, RepeatRequest(y))
    BY <2>5, <2>6, RepeatIs
  <2>9. QED
    BY <2>5, <2>7, <2>8 DEF ResultOk
<1>2. CASE m \in Refusals(i)
  <2>1. m.type = "fail"
    BY <1>2 DEF Refusals
  <2>2. PICK y : y = [x EXCEPT !.u = Reject(x.u, "peer"), !.status = "failed"]
    OBVIOUS
  <2>3. IsCaller(y) /\ y.type = x.type /\ y.status = "failed"
    BY <2>2 DEF CallerInv, IsCaller
  <2>4. Connecting(x, m) = Result(y, << >>)
    BY <2>1, <2>2 DEF Connecting
  <2>5. << >> \in Seq(ToSockets(i))
    BY EmptySeq
  <2>6. QED
    BY <2>3, <2>4, <2>5, StoppedIs
<1>3. CASE m \in FromSockets(i)
  <2>1. m.type \in {"concl", "data"}
    BY <1>3 DEF FromSockets
  <2>2. CASE m.type = "concl"
    <3>1. Connecting(x, m) = PostConnect(x, m)
      BY <2>2 DEF Connecting
    <3>2. QED
      BY <1>3, <3>1, PostConnectIs
  <2>3. CASE m.type = "data"
    <3>1. Connecting(x, m) = RepeatRequest(x)
      BY <2>3 DEF Connecting
    <3>2. QED
      BY <3>1, RepeatIs
  <2>4. QED
    BY <2>1, <2>2, <2>3
<1>4. QED
  BY <1>1, <1>2, <1>3 DEF Downward

\* CUDT::processCtrl of a connected caller. With room in the queue no refusal is on its way
\* for a request that reads, and an induction has no extensions to read again.
LEMMA EstablishedIs ==
  ASSUME IInv, NEW i \in Callers, NEW x, CallerInv(i, x), x.status = "connected", NEW m \in Downward(i)
  PROVE  ResultOk(i, x, Established(x, m))
<1>1. Settled(i, x) /\ IsCaller(x)
  BY DEF CallerInv
<1>2. Read(i).ok
  BY <1>1 DEF Settled, IInv, AccInv, MadeFor
<1>3. CASE m \in Inductions
  <2>1. m.type = "induct" /\ m.ext = NoExt
    BY <1>3 DEF Inductions
  <2>2. PICK v : v = [x.u EXCEPT !.reject = "unknown"]
    OBVIOUS
  <2>3. PICK w : w = [v EXCEPT !.reject = "rogue"]
    OBVIOUS
  <2>4. Interpret(x.u, m.ext, TRUE).ok = FALSE /\ Interpret(x.u, m.ext, TRUE).u = w
    <3>1. w = [[x.u EXCEPT !.reject = "unknown"] EXCEPT !.reject = "rogue"]
      BY <2>2, <2>3
    <3>2. Interpret(x.u, NoExt, TRUE).ok = FALSE /\ Interpret(x.u, NoExt, TRUE).u = w
      BY <3>1, BareIsRefused, Zenon
    <3>3. QED
      BY <2>1, <3>2
  <2>5. PICK z : z = [w EXCEPT !.reject = "rogue"]
    OBVIOUS
  <2>6. PICK y : y = [x EXCEPT !.u = z]
    OBVIOUS
  <2>7. Established(x, m) = Result(y, <<Msg(x.peer, "fail", 0, NoExt)>>)
    BY <2>1, <2>4, <2>5, <2>6 DEF Established
  <2>8. IsCaller(y) /\ y.type = x.type /\ y.status = "connected" /\ y.peer = x.peer /\ y.heard = x.heard /\ y.u = z
    BY <1>1, <2>6 DEF IsCaller
  <2>9. ASSUME NEW h, Alike(x.u, h) PROVE Alike(z, h)
    <3>1. IsSocket(x.u) /\ \A f \in Members \ {"reject"} : x.u[f] = h[f]
      BY <2>9 DEF Alike
    <3>2. DOMAIN x.u = Members
      BY <3>1 DEF IsSocket
    <3>3. DOMAIN z = Members /\ IsSocket(z) /\ \A f \in Members \ {"reject"} : z[f] = x.u[f]
      BY <2>2, <2>3, <2>5, <3>1, <3>2 DEF IsSocket, Members
    <3>4. QED
      BY <3>1, <3>3 DEF Alike
  <2>10. Settled(i, y)
    BY <1>1, <2>8, <2>9 DEF Settled
  <2>11. CallerInv(i, y)
    BY <2>8, <2>10 DEF CallerInv
  <2>12. <<Msg(x.peer, "fail", 0, NoExt)>> \in Seq(UpNext(i, y))
    <3>1. Msg(x.peer, "fail", 0, NoExt) \in ToSockets(i)
      BY <1>1 DEF Settled, ToSockets, Msg
    <3>2. QED
      BY <3>1, OneMessage DEF UpNext
  <2>13. PICK r : r = Result(y, <<Msg(x.peer, "fail", 0, NoExt)>>)
    OBVIOUS
  <2>14. r.x = y /\ r.out = <<Msg(x.peer, "fail", 0, NoExt)>>
    BY <2>13, ResultIs
  <2>15. ResultOk(i, x, r)
    BY <2>8, <2>11, <2>12, <2>14 DEF ResultOk
  <2>16. QED
    BY <2>7, <2>13, <2>15
<1>4. m \notin Refusals(i)
  BY <1>2 DEF Refusals
<1>5. CASE m \in FromSockets(i)
  <2>1. m.type \in {"concl", "data"}
    BY <1>5 DEF FromSockets
  <2>2. Established(x, m) = Result(x, << >>)
    BY <2>1 DEF Established
  <2>3. PICK r : r = Result(x, << >>)
    OBVIOUS
  <2>4. r.x = x /\ r.out = << >>
    BY <2>3, ResultIs
  <2>5. ResultOk(i, x, r)
    BY <2>4, EmptySeq DEF ResultOk
  <2>6. QED
    BY <2>2, <2>3, <2>5
<1>6. QED
  BY <1>3, <1>4, <1>5 DEF Downward

\* A message reaches a caller.
LEMMA CallerReceivesStep ==
  ASSUME IInv, NEW i \in Callers, CallerReceives(i)
  PROVE  IInv'
<1>1. PICK n \in Arrivals(down[i]) :
          \E r \in {IF c[i].status = "connecting" THEN Connecting(c[i], down[i][n])
                    ELSE IF c[i].status = "connected" THEN Established(c[i], down[i][n])
                    ELSE Result(c[i], << >>)} :
              /\ c' = [c EXCEPT ![i] = r.x]
              /\ down' = [down EXCEPT ![i] = RemoveAt(@, n)]
              /\ up' = [up EXCEPT ![i] = Sent(@, r.out)]
              /\ UNCHANGED <<minute, env, acc>>
  BY Zenon DEF CallerReceives
<1>2. PICK m, x : m = down[i][n] /\ x = c[i]
  OBVIOUS
<1>3. PICK r : /\ r = IF x.status = "connecting" THEN Connecting(x, m)
                      ELSE IF x.status = "connected" THEN Established(x, m) ELSE Result(x, << >>)
               /\ c' = [c EXCEPT ![i] = r.x] /\ down' = [down EXCEPT ![i] = RemoveAt(down[i], n)]
               /\ up' = [up EXCEPT ![i] = Sent(up[i], r.out)] /\ UNCHANGED <<minute, opt, acc>>
  BY <1>1, <1>2 DEF env
<1>4. CallerInv(i, x) /\ down[i] \in Seq(Downward(i)) /\ n \in DOMAIN down[i] /\ m \in Downward(i)
  BY <1>1, <1>2, Facts, ArrivalIs
<1>5. ResultOk(i, x, r)
  <2>1. CASE x.status = "connecting"
    BY <1>3, <1>4, <2>1, ConnectingIs
  <2>2. CASE x.status = "connected"
    BY <1>3, <1>4, <2>2, EstablishedIs
  <2>3. CASE x.status \notin {"connecting", "connected"}
    <3>1. r = Result(x, << >>)
      BY <1>3, <2>3
    <3>2. IsCaller(x) /\ << >> \in Seq(ToSockets(i))
      BY <1>4, EmptySeq DEF CallerInv
    <3>3. QED
      BY <1>4, <2>3, <3>1, <3>2, StoppedIs
  <2>4. QED
    BY <2>1, <2>2, <2>3
<1>6. RemoveAt(down[i], n) \in Seq(Downward(i))
  BY <1>4, RemoveIs
<1>7. QED
  BY <1>2, <1>3, <1>5, <1>6, CallerStep

\* A caller repeats its request.
LEMMA RetryStep ==
  ASSUME IInv, NEW i \in Callers, Retry(i)
  PROVE  IInv'
<1>1. PICK r : /\ r = RepeatRequest(c[i]) /\ c' = [c EXCEPT ![i] = r.x] /\ up' = [up EXCEPT ![i] = Sent(up[i], r.out)]
               /\ UNCHANGED <<minute, opt, acc, down>> /\ c[i].status = "connecting"
  BY DEF Retry, CanRetry, env
<1>2. ResultOk(i, c[i], r)
  BY <1>1, Facts, RepeatIs
<1>3. down' = [down EXCEPT ![i] = down[i]]
  BY <1>1 DEF IInv, NetInv
<1>4. QED
  BY <1>1, <1>2, <1>3, Facts, CallerStep

\* The time is over, or the application closes the caller.
LEMMA StopStep ==
  ASSUME IInv, NEW i \in Callers, Timeout(i) \/ Close(i)
  PROVE  IInv'
<1>1. PICK x : x = c[i]
  OBVIOUS
<1>2. CallerInv(i, x) /\ IsCaller(x) /\ DOMAIN c = Callers
  BY <1>1, Facts DEF CallerInv, IInv, CallersInv
<1>3. CASE Timeout(i)
  <2>1. PICK y : y = [x EXCEPT !.status = "late"]
    OBVIOUS
  <2>2. IsCaller(y) /\ y.type = x.type /\ y.status = "late"
    BY <1>2, <2>1 DEF IsCaller
  <2>3. c' = [c EXCEPT ![i] = y] /\ UNCHANGED <<minute, opt, acc, up, down>>
    BY <1>1, <1>2, <1>3, <2>1 DEF Timeout, env
  <2>4. CallerInv(i, y)
    BY <1>2, <2>2 DEF CallerInv
  <2>5. Onward
    <3>1. \A j \in Callers : c'[j].type = c[j].type
      BY <1>1, <1>2, <2>2, <2>3
    <3>2. \A j \in Callers : MadeFor(j)' = MadeFor(j)
      BY <2>3 DEF MadeFor
    <3>3. QED
      BY <2>3, <3>1, <3>2 DEF Onward, Grows
  <2>6. CallerInv(i, y)'
    <3>1. y.type # "concl" => MadeFor(i)' = {}
      BY <2>3, <2>4 DEF CallerInv, MadeFor
    <3>2. QED
      BY <2>4, <2>5, <3>1, CallerStays
  <2>7. QED
    BY <2>3, <2>5, <2>6, CallersAfter, NetStays, SocketsStay DEF IInv
<1>4. CASE Close(i)
  <2>1. PICK y : y = [x EXCEPT !.status = "closed"]
    OBVIOUS
  <2>2. IsCaller(y) /\ y.type = x.type /\ y.status = "closed"
    BY <1>2, <2>1 DEF IsCaller
  <2>3. PICK out : out = <<Msg(x.peer, "shut", 0, NoExt)>>
    OBVIOUS
  <2>4. /\ c' = [c EXCEPT ![i] = y] /\ up' = [up EXCEPT ![i] = Sent(up[i], out)]
        /\ x.status = "connected" /\ UNCHANGED <<minute, opt, acc, down>>
    BY <1>1, <1>2, <1>4, <2>1, <2>3 DEF Close, env
  <2>5. out \in Seq(ToSockets(i))
    <3>1. x.peer \in MadeFor(i)
      BY <1>2, <2>4 DEF CallerInv, Settled
    <3>2. Msg(x.peer, "shut", 0, NoExt) \in ToSockets(i)
      BY <3>1 DEF ToSockets, Msg
    <3>3. QED
      BY <2>3, <3>2, OneMessage
  <2>6. PICK r : r = Result(y, out)
    OBVIOUS
  <2>7. ResultOk(i, c[i], r) /\ r.x = y /\ r.out = out
    BY <1>1, <1>2, <2>2, <2>5, <2>6, StoppedIs, ResultIs
  <2>8. down' = [down EXCEPT ![i] = down[i]]
    BY <2>4 DEF IInv, NetInv
  <2>9. QED
    BY <2>4, <2>7, <2>8, Facts, CallerStep
<1>5. QED
  BY <1>3, <1>4

\* A step of one of the listener's sockets that makes none.
LEMMA AgedStep ==
  ASSUME IInv, NEW d \in Seq(Sockets(Answers)), AloneIn(d), LivingQueued(d), DOMAIN d = DOMAIN acc,
         \A k \in DOMAIN acc : d[k].peer = acc[k].peer /\ d[k].u = acc[k].u,
         acc' = d, UNCHANGED <<minute, opt, c, up, down>>
  PROVE  IInv'
<1>1. Onward
  BY DEF Onward, Grows, MadeFor
<1>2. AccInv'
  <2>1. \A k \in DOMAIN d : d[k].u = Rsp(d[k].peer).u /\ Read(d[k].peer).ok
    BY DEF IInv, AccInv
  <2>2. QED
    BY <2>1 DEF AccInv, AloneIn, LivingQueued, Answers, Rsp, Read, Own
<1>3. QED
  BY <1>1, <1>2, NetStays, CallersStay DEF IInv

\* A socket of the listener is accepted, breaks or is collected.
LEMMA SocketStep ==
  ASSUME IInv, NEW k \in DOMAIN acc, Accept(k) \/ Expire(k) \/ Collect(k)
  PROVE  IInv'
<1>1. acc \in Seq(Sockets(Answers)) /\ AloneIn(acc) /\ LivingQueued(acc)
  BY DEF IInv, AccInv
<1>2. PICK d : d = acc'
  OBVIOUS
<1>3. d \in {[acc EXCEPT ![k].queued = FALSE], [acc EXCEPT ![k].status = "broken"], Drop(acc, {k})}
      /\ UNCHANGED <<minute, opt, c, up, down>>
  BY <1>2 DEF Accept, Expire, Collect, env
<1>4. CASE d = [acc EXCEPT ![k].queued = FALSE]
  <2>1. d \in Seq(Sockets(Answers)) /\ AloneIn(d) /\ LivingQueued(d) /\ Aged(acc, d)
    BY <1>1, <1>4, AcceptKeeps
  <2>2. DOMAIN d = DOMAIN acc /\ \A j \in DOMAIN acc : d[j].peer = acc[j].peer /\ d[j].u = acc[j].u
    BY <2>1 DEF Aged
  <2>3. QED
    BY <1>2, <1>3, <2>1, <2>2, AgedStep
<1>5. CASE d = [acc EXCEPT ![k].status = "broken"]
  <2>1. d \in Seq(Sockets(Answers)) /\ AloneIn(d) /\ LivingQueued(d) /\ Aged(acc, d)
    BY <1>1, <1>5, BrokenKeeps
  <2>2. DOMAIN d = DOMAIN acc /\ \A j \in DOMAIN acc : d[j].peer = acc[j].peer /\ d[j].u = acc[j].u
    BY <2>1 DEF Aged
  <2>3. QED
    BY <1>2, <1>3, <2>1, <2>2, AgedStep
<1>6. CASE d = Drop(acc, {k})
  <2>1. d \in Seq(Sockets(Answers)) /\ AloneIn(d) /\ LivingQueued(d) /\ Dropped(acc, {k}, d)
    BY <1>1, <1>6, DropIs, DropKeeps
  <2>2. DOMAIN d = DOMAIN acc /\ \A j \in DOMAIN acc : d[j].peer = acc[j].peer /\ d[j].u = acc[j].u
    BY <2>1 DEF Dropped
  <2>3. QED
    BY <1>2, <1>3, <2>1, <2>2, AgedStep
<1>7. QED
  BY <1>3, <1>4, <1>5, <1>6

\* A socket of the listener sends data.
LEMMA SendDataStep ==
  ASSUME IInv, NEW k \in DOMAIN acc, SendData(k)
  PROVE  IInv'
<1>1. PICK i : i = acc[k].peer
  OBVIOUS
<1>2. i \in Callers /\ k \in MadeFor(i)
  <2>1. acc[k] \in Sockets(Answers)
    BY SeqIsFunction DEF IInv, AccInv
  <2>2. QED
    BY <1>1, <2>1 DEF Sockets, MadeFor
<1>3. PICK q : q = Append(down[i], Msg(k, "data", 0, NoExt))
  OBVIOUS
<1>4. down' = [down EXCEPT ![i] = q] /\ UNCHANGED <<minute, opt, c, acc, up>>
  BY <1>1, <1>3 DEF SendData, env
<1>5. Onward
  BY <1>4 DEF Onward, Grows, MadeFor
<1>6. q \in Seq(Downward(i)')
  <2>1. Msg(k, "data", 0, NoExt) \in Downward(i)
    BY <1>2 DEF Downward, FromSockets, Msg
  <2>2. q \in Seq(Downward(i))
    BY <1>2, <1>3, <2>1, Facts, AppendProperties
  <2>3. QED
    BY <1>2, <1>5, <2>2, OnwardIs, SeqMonotonic
<1>7. up[i] \in Seq(Upward(i)')
  BY <1>2, <1>5, Facts, OnwardIs, SeqMonotonic
<1>8. up' = [up EXCEPT ![i] = up[i]]
  BY <1>4 DEF IInv, NetInv
<1>9. NetInv'
  BY <1>2, <1>4, <1>5, <1>6, <1>7, <1>8, NetAfter
<1>10. QED
  BY <1>4, <1>5, <1>9, CallersStay, SocketsStay DEF IInv

\* The network loses a message.
LEMMA LoseStep ==
  ASSUME IInv, NEW i \in Callers, Lose(i)
  PROVE  IInv'
<1>1. UNCHANGED <<minute, opt, c, acc>>
  BY DEF Lose, env
<1>2. Onward
  BY <1>1 DEF Onward, Grows, MadeFor
<1>3. Upward(i) \subseteq Upward(i)' /\ Downward(i) \subseteq Downward(i)'
  BY <1>2, OnwardIs
<1>4. up[i] \in Seq(Upward(i)') /\ down[i] \in Seq(Downward(i)')
  BY <1>3, Facts, SeqMonotonic
<1>5. NetInv'
  <2>1. CASE up[i] # << >> /\ up' = [up EXCEPT ![i] = Tail(@)] /\ UNCHANGED down
    <3>1. Tail(up[i]) \in Seq(Upward(i)')
      BY <1>4, <2>1, HeadTailProperties
    <3>2. down' = [down EXCEPT ![i] = down[i]] /\ up' = [up EXCEPT ![i] = Tail(up[i])]
      BY <2>1 DEF IInv, NetInv
    <3>3. QED
      BY <1>2, <1>4, <3>1, <3>2, NetAfter
  <2>2. CASE down[i] # << >> /\ down' = [down EXCEPT ![i] = Tail(@)] /\ UNCHANGED up
    <3>1. Tail(down[i]) \in Seq(Downward(i)')
      BY <1>4, <2>2, HeadTailProperties
    <3>2. up' = [up EXCEPT ![i] = up[i]] /\ down' = [down EXCEPT ![i] = Tail(down[i])]
      BY <2>2 DEF IInv, NetInv
    <3>3. QED
      BY <1>2, <1>4, <3>1, <3>2, NetAfter
  <2>3. QED
    BY <2>1, <2>2 DEF Lose
<1>6. QED
  BY <1>1, <1>2, <1>5, CallersStay, SocketsStay DEF IInv

\* The invariant holds at the start: an induction request is on its way from each caller.
LEMMA InitHolds == ASSUME Init PROVE IInv
<1>1. acc = << >> /\ << >> \in Seq(Sockets(Answers)) /\ DOMAIN acc = {}
  BY EmptySeq DEF Init
<1>2. AccInv
  BY <1>1 DEF AccInv, AloneIn, LivingQueued
<1>3. NetInv
  <2>1. ASSUME NEW i \in Callers PROVE up[i] \in Seq(Upward(i)) /\ down[i] \in Seq(Downward(i))
    <3>1. up[i] = <<Ask>> /\ down[i] = << >>
      BY DEF Init
    <3>2. Ask \in Upward(i)
      BY DEF Ask, Msg, Upward, Inductions
    <3>3. QED
      BY <3>1, <3>2, OneMessage, EmptySeq
  <2>2. QED
    BY <2>1 DEF NetInv, Init
<1>4. CallersInv
  <2>1. ASSUME NEW i \in Callers PROVE CallerInv(i, c[i])
    <3>1. PICK x : x = c[i]
      OBVIOUS
    <3>2. x = Start(Own(i))
      BY <3>1 DEF Init, Own
    <3>3. IsCaller(x) /\ x.status = "connecting" /\ x.type = "induct" /\ x.cookie = 0 /\ x.u = Opened(Own(i))
      BY <3>2 DEF Start, IsCaller
    <3>4. MadeFor(i) = {}
      BY <1>1 DEF MadeFor
    <3>5. CallerInv(i, x)
      BY <3>3, <3>4 DEF CallerInv, Asking
    <3>6. QED
      BY <3>1, <3>5
  <2>2. QED
    BY <2>1 DEF CallersInv, Init
<1>5. QED
  BY <1>2, <1>3, <1>4 DEF Init, IInv

\* Every step keeps it.
LEMMA StepHolds == ASSUME Roomy, IInv, [Next]_vars PROVE IInv'
<1>1. CASE UNCHANGED vars
  <2>1. UNCHANGED <<minute, opt, c, acc, up, down>>
    BY <1>1 DEF vars
  <2>2. Onward
    BY <2>1 DEF Onward, Grows, MadeFor
  <2>3. QED
    BY <2>1, <2>2, NetStays, CallersStay, SocketsStay DEF IInv
<1>2. CASE Minute
  <2>1. UNCHANGED <<opt, c, acc, up, down>> /\ minute' \in Nat
    BY <1>2 DEF Minute, env, IInv
  <2>2. Onward
    BY <2>1 DEF Onward, Grows, MadeFor
  <2>3. QED
    BY <2>1, <2>2, NetStays, CallersStay, SocketsStay DEF IInv
<1>3. QED
  BY <1>1, <1>2, ListenerStep, CallerReceivesStep, RetryStep, StopStep, LoseStep, SocketStep, SendDataStep DEF Next

\* The listener's sockets, the callers and all that is on its way between them stay within
\* what the callers' own requests and the responses to them make (core.cpp, api.cpp).
THEOREM InvariantHolds == ASSUME Roomy PROVE Spec => []IInv
<1>1. Init => IInv
  BY InitHolds
<1>2. IInv /\ [Next]_vars => IInv'
  BY StepHolds
<1>3. QED
  BY <1>1, <1>2, PTL DEF Spec

\* What two ends agree on does not depend on a rejection kept later.
LEMMA AlikeAgree ==
  ASSUME NEW u, NEW a, NEW b, Alike(u, a), SettingsAgree(a, b), Enforced(a, b), Enforced(b, a)
  PROVE  SettingsAgree(u, b) /\ Enforced(u, b) /\ Enforced(b, u)
<1>1. /\ u.opt = a.opt /\ u.tsbpd = a.tsbpd /\ u.rcvDelay = a.rcvDelay /\ u.sndDelay = a.sndDelay
      /\ u.peerTsbpd = a.peerTsbpd /\ u.peerNak = a.peerNak /\ u.filter = a.filter
      /\ u.sndKm = a.sndKm /\ u.rcvKm = a.rcvKm
  BY DEF Alike, Members
<1>2. DelaysAgree(u, b) /\ DelaysAgree(b, u)
  BY <1>1 DEF SettingsAgree, DelaysAgree
<1>3. SettingsAgree(u, b)
  BY <1>1, <1>2 DEF SettingsAgree
<1>4. Enforced(u, b) /\ Enforced(b, u)
  BY <1>1 DEF Enforced
<1>5. QED
  BY <1>3, <1>4

\* The invariant gives the property: what a caller took was read as NegotiationAgrees says.
LEMMA SettledFollows == ASSUME IInv PROVE SettledUnlessEchoed
<1>1. ASSUME NEW i \in Callers, ~Echoed(i), Served(i)
      PROVE  /\ SettingsAgree(c[i].u, acc[c[i].peer].u)
             /\ Enforced(c[i].u, acc[c[i].peer].u) /\ Enforced(acc[c[i].peer].u, c[i].u)
  <2>1. PICK x, k : x = c[i] /\ k = c[i].peer
    OBVIOUS
  <2>2. Settled(i, x) /\ x.peer = k
    BY <1>1, <2>1, Facts DEF Served, CallerInv
  <2>3. x.heard = Rsp(i).ext
    <3>1. Req(i).hs.cmd = "hsreq" /\ Req(i) # NoExt
      BY Facts, ReqFields DEF Req
    <3>2. x.heard # Req(i)
      BY <1>1, <2>1, <3>1 DEF Echoed
    <3>3. QED
      BY <2>2, <3>2 DEF Settled
  <2>4. PICK a, b : a = HeardBy(Own(i), Rsp(i).ext).u /\ b = Rsp(i).u
    OBVIOUS
  <2>5. HeardBy(Own(i), Rsp(i).ext).ok /\ Alike(x.u, a)
    BY <2>2, <2>3, <2>4 DEF Settled
  <2>6. acc[k].u = b /\ Read(i).ok
    BY <2>2, <2>4 DEF Settled, MadeFor, IInv, AccInv
  <2>7. SettingsAgree(a, b) /\ Enforced(a, b) /\ Enforced(b, a)
    BY <2>4, <2>5, <2>6, Facts, NegotiationAgrees DEF Rsp, Read
  <2>8. SettingsAgree(x.u, b) /\ Enforced(x.u, b) /\ Enforced(b, x.u)
    BY <2>5, <2>7, AlikeAgree
  <2>9. QED
    BY <2>1, <2>6, <2>8
<1>2. QED
  BY <1>1 DEF SettledUnlessEchoed, AgreedUnlessEchoed, EnforcedUnlessEchoed, Agreement

\* Once a caller and the socket made for it are connected, delays, key state and filter of the
\* two agree and the strict rules hold, unless the caller read its own request
\* (interpretSrtHandshake, core.cpp), for any options and any network.
THEOREM SettledHolds == ASSUME Roomy PROVE Spec => []SettledUnlessEchoed
<1>1. IInv => SettledUnlessEchoed
  BY SettledFollows
<1>2. QED
  BY <1>1, InvariantHolds, PTL
=============================================================================
