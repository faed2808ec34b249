---------------------------- MODULE KeyRefresh ----------------------------
(***************************************************************************)
(* The keys of an encrypted connection while it runs, in one direction: the *)
(* sender's two contexts (hcrypt_ctx_tx.c), announced and switched when a    *)
(* full ACK is processed, the messages that carry the keys and their repeats *)
(* (CCryptoControl), the receiver's two contexts (hcrypt_ctx_rx.c), and the  *)
(* packets, whose flags one thread reads while another switches the keys.    *)
(***************************************************************************)
EXTENDS Integers, FiniteSets, FiniteSetsExt, Sequences, SequencesExt

CONSTANTS
    Keys,         \* 1 .. n: 0 stands for no key
    RefreshRate,  \* km_refresh_rate_pkt
    PreAnnounce,  \* km_pre_announce_pkt
    PerAck,       \* packets between two full ACKs
    Lag,          \* packets sent while a message with keys travels, and while it is repeated
    Window,       \* packets in flight
    Retries       \* SRT_MAX_KMRETRY

\* What setOpt accepts for SRTO_KMREFRESHRATE and SRTO_KMPREANNOUNCE.
ASSUME KeyAssumption ==
    /\ IsFiniteSet(Keys) /\ Keys = 1 .. Cardinality(Keys)
    /\ {RefreshRate, PreAnnounce, PerAck, Window} \subseteq Nat \ {0}
    /\ PreAnnounce <= (RefreshRate - 1) \div 2 /\ {Lag, Retries} \subseteq Nat

VARIABLES
    tx,       \* the sender's session: ctx, the active context, and both contexts
    km,       \* m_SndKmMsg[1], and m_SndKmState
    rx,       \* the receiver's session: the key of each context
    flags,    \* what packData has read of the flags for its packet
    out,      \* packets that are not acknowledged
    net,      \* messages with keys on their way
    since,    \* packets since the last full ACK, whether a light ACK came since, and
              \* packets since keys were announced
    garbled   \* why packets were refused, or decrypted with another key than their own:
              \* the receiver had not theirs in the context ("key"), or they carried the
              \* flags of the other context ("flags")

vars == <<tx, km, rx, flags, out, net, since, garbled>>

Parity == {0, 1}
NoFlags == 2
Alt(p) == 1 - p

Init ==
    /\ tx = [ctx |-> 0,
             pair |-> [p \in Parity |-> IF p = 0 THEN [key |-> 1, status |-> "active", announce |-> TRUE, cnt |-> 1]
                                        ELSE [key |-> 0, status |-> "sardy", announce |-> FALSE, cnt |-> 0]]]
    /\ km = [keys |-> <<0, 0>>, retry |-> 0, state |-> "secured"]
    /\ rx = <<1, 0>>
    /\ flags = NoFlags
    /\ out = <<>>
    /\ net = {}
    /\ since = [packets |-> 0, lite |-> FALSE, announced |-> 0]
    /\ garbled = {}

Active(t) == t.pair[t.ctx]
Other(t) == t.pair[Alt(t.ctx)]

\* prng: a key that is in no other place.
Used == {tx.pair[p].key : p \in Parity} \union Range(rx) \union {out[i].key : i \in DOMAIN out}
        \union Range(km.keys) \union UNION {Range(m.keys) : m \in net}
NewKey == Min(Keys \ Used)

-----------------------------------------------------------------------------
(* hcryptCtx_Tx_ManageKM.                                                  *)

Switch(t) ==
    [t EXCEPT !.ctx = Alt(@), !.pair[t.ctx].status = "deprecated",
              !.pair[Alt(t.ctx)].status = "active", !.pair[Alt(t.ctx)].announce = TRUE]

\* Variant of the next definition: the active context gets the new key.
RefreshActive(t) ==
    [t EXCEPT !.pair[t.ctx].key = NewKey, !.pair[t.ctx].announce = FALSE,
              !.pair[Alt(t.ctx)].status = "keyed", !.pair[Alt(t.ctx)].announce = TRUE]

\* hcryptCtx_Tx_Refresh and hcryptCtx_Tx_PreSwitch
Refresh(t) ==
    [t EXCEPT !.pair[Alt(t.ctx)] = [key |-> NewKey, status |-> "keyed", announce |-> TRUE, cnt |-> 0],
              !.pair[t.ctx].announce = FALSE]

PostSwitch(t) ==
    [t EXCEPT !.pair[Alt(t.ctx)].announce = FALSE, !.pair[Alt(t.ctx)].status = "sardy"]

SwitchDue(t) == Active(t).cnt > RefreshRate \/ Active(t).cnt = 0

\* Variant of the next definition: the threshold of the announcement is added.
RefreshNever(t) == Active(t).cnt > RefreshRate + PreAnnounce

RefreshDue(t) == ~SwitchDue(t) /\ Active(t).cnt > RefreshRate - PreAnnounce /\ ~Other(t).announce

PostSwitchDue(t) == ~SwitchDue(t) /\ ~RefreshDue(t) /\ Other(t).status = "deprecated" /\ Active(t).cnt > PreAnnounce

ManageKM(t) ==
    CASE SwitchDue(t)     -> Switch(t)
      [] RefreshDue(t)    -> Refresh(t)
      [] PostSwitchDue(t) -> PostSwitch(t)
      [] OTHER            -> t

BothKeys(t) == <<t.pair[0].key, t.pair[1].key>>

-----------------------------------------------------------------------------
(* CCryptoControl.                                                         *)

KmReq(keys) == [kind |-> "KMREQ", keys |-> keys, age |-> 0]
Repeats(due) == IF due /\ km.retry > 0 THEN {KmReq(km.keys)} ELSE {}
Repeated(due, k) == IF due /\ k.retry > 0 THEN [k EXCEPT !.retry = @ - 1] ELSE k

\* sendKeysToPeer(REGEN_KM): a repeat, if it is due, and then regenCryptoKm.
SendKeys(due) ==
    /\ tx' = ManageKM(tx)
    /\ IF RefreshDue(tx)
       THEN /\ km' = [Repeated(due, km) EXCEPT !.keys = BothKeys(tx'), !.retry = Retries]
            /\ net' = net \union Repeats(due) \union {KmReq(BothKeys(tx'))}
       ELSE km' = Repeated(due, km) /\ net' = net \union Repeats(due)

\* sendKeysToPeer(DONT_REGEN_KM), of the side that initiated the connection.
Timer ==
    /\ km.retry > 0
    /\ km' = Repeated(TRUE, km) /\ net' = net \union Repeats(TRUE)
    /\ UNCHANGED <<tx, rx, flags, out, since, garbled>>

\* processSrtMsg_KMREQ, HaiCrypt_Rx_Process and hcryptCtx_Rx_ParseKM: the message
\* has both keys, and goes back as it is.
Parsed(keys) == keys

TakeKmReq(m) ==
    /\ m \in net /\ m.kind = "KMREQ"
    /\ rx' = Parsed(m.keys)
    /\ net' = (net \ {m}) \union {[m EXCEPT !.kind = "KMRSP"]}
    /\ UNCHANGED <<tx, km, flags, out, since, garbled>>

\* getKmMsg_acceptResponse
Accepted(m) == m.keys = km.keys

TakeKmRsp(m) ==
    /\ m \in net /\ m.kind = "KMRSP"
    /\ km' = IF Accepted(m) THEN [km EXCEPT !.retry = 0, !.state = "secured"] ELSE [km EXCEPT !.state = "badsecret"]
    /\ net' = net \ {m}
    /\ UNCHANGED <<tx, rx, flags, out, since, garbled>>

\* The network loses a message, and keeps a copy for later.
Lose(m) ==
    /\ m \in net /\ net' = net \ {m}
    /\ UNCHANGED <<tx, km, rx, flags, out, since, garbled>>
Repeat(m) ==
    /\ m \in net /\ m.kind = "KMREQ" /\ rx # m.keys
    /\ rx' = Parsed(m.keys)
    /\ net' = net \union {[m EXCEPT !.kind = "KMRSP"]}
    /\ UNCHANGED <<tx, km, flags, out, since, garbled>>

-----------------------------------------------------------------------------
(* CUDT::packData, of the sender queue's thread, and processData.          *)

\* The receiver has the keys that were announced, and the repeats are over, when Lag
\* packets have been sent since.
Unknown == Other(tx).status = "keyed" /\ Other(tx).key \notin Range(rx)
InTime == Unknown \/ km.retry > 0 => since.announced < Lag

ReadFlags ==
    /\ flags = NoFlags /\ Len(out) < Window /\ since.packets < PerAck /\ InTime
    /\ flags' = tx.ctx
    /\ UNCHANGED <<tx, km, rx, out, net, since, garbled>>

\* HaiCrypt_Tx_Data. Only whether the counter exceeds the rate is of interest there.
Older(messages) == {[m EXCEPT !.age = @ + 1] : m \in {n \in messages : n.age < Lag}}
Encrypt ==
    /\ flags # NoFlags
    /\ out' = Append(out, [flag |-> flags, key |-> Active(tx).key, by |-> tx.ctx, got |-> FALSE])
    /\ tx' = [tx EXCEPT !.pair[tx.ctx].cnt = Min({@ + 1, RefreshRate + 1})]
    /\ flags' = NoFlags
    /\ net' = Older(net)
    /\ since' = [since EXCEPT !.packets = @ + 1, !.announced = Min({@ + 1, Lag})]
    /\ UNCHANGED <<km, rx, garbled>>

\* processData: CCryptoControl::decrypt and HaiCrypt_Rx_Data, at the first or at a
\* later transmission, with the key in the context that the packet's flags name.  Flags
\* that were read before a switch name another one than that which encrypted it.
Why(p) ==
    IF rx[p.flag + 1] = p.key THEN {} ELSE {IF p.flag = p.by THEN "key" ELSE "flags"}

Receive(i) ==
    /\ ~out[i].got
    /\ out' = [out EXCEPT ![i].got = TRUE]
    /\ garbled' = garbled \union Why(out[i])
    /\ UNCHANGED <<tx, km, rx, flags, net, since>>

\* processCtrlAck. A light ACK does not come to the keys.
Acked(n) == n <= Len(out) /\ \A i \in 1 .. n : out[i].got
LiteAck(n) ==
    /\ n > 0 /\ Acked(n)
    /\ out' = SubSeq(out, n + 1, Len(out))
    /\ since' = [since EXCEPT !.lite = TRUE]
    /\ UNCHANGED <<tx, km, rx, flags, net, garbled>>
FullAck(n, due) ==
    /\ n > 0 \/ since.lite
    /\ Acked(n)
    /\ out' = SubSeq(out, n + 1, Len(out))
    /\ since' = [packets |-> 0, lite |-> FALSE, announced |-> IF RefreshDue(tx) THEN 0 ELSE since.announced]
    /\ SendKeys(due)
    /\ UNCHANGED <<rx, flags, garbled>>

-----------------------------------------------------------------------------
Next ==
    \/ Timer \/ ReadFlags \/ Encrypt
    \/ \E m \in net : TakeKmReq(m) \/ TakeKmRsp(m) \/ Lose(m) \/ Repeat(m)
    \/ \E i \in DOMAIN out : Receive(i)
    \/ \E n \in 0 .. Window : LiteAck(n) \/ (\E due \in BOOLEAN : FullAck(n, due))

Spec == Init /\ [][Next]_vars

-----------------------------------------------------------------------------
(* Properties.                                                             *)

TypeOK ==
    /\ tx.ctx \in Parity /\ \A p \in Parity : tx.pair[p].status \in {"sardy", "keyed", "active", "deprecated"}
    /\ Len(out) <= Window /\ km.retry \in 0 .. Retries /\ rx \in Seq(Keys \union {0})
    /\ garbled \subseteq {"key", "flags"}

\* A packet that carries the flags of the context that encrypted it is decrypted with the
\* key it was encrypted with, at its first transmission and at a later one: the new key
\* comes early enough, and the old one stays as long as packets need it
\* (hcryptCtx_Tx_ManageKM, hcryptCtx_Rx_ParseKM).  Others are the matter of FlagsMatch.
KeysInTime == "key" \notin garbled

\* Every packet is decrypted with its own key, whatever flags it carries.
Deciphered == garbled = {}

\* "ASSERT(HCRYPT_CTX_S_KEYED <= ctx->alt->status)" in hcryptCtx_Tx_Switch: no context
\* is activated that has no key that was announced.
SwitchIsKeyed ==
    [][tx'.ctx # tx.ctx => Other(tx).status \in {"keyed", "active", "deprecated"}]_vars

\* A response never turns a secured connection into one with a bad secret.
StaysSecured == km.state = "secured"

\* The refresh goes unnoticed: the connection stays secured, and every packet is
\* decrypted with its own key, except those whose flags packData read before a switch and
\* which it encrypted after it (core.cpp:8094), for which FlagsMatch is violated.
Unnoticed == KeysInTime /\ StaysSecured

\* HCRYPT_CTX_S_DEPRECATED: "Still announced but no longer used".
DeprecatedUnused ==
    [][\A p \in Parity : tx.pair[p].status = "deprecated" => tx'.pair[p].status # "active"]_vars

\* CCryptoControl::encrypt: "Encryption flags in the PH_MSGNO field in the header must be
\* correctly set before calling" (crypto.h:254).  A packet carries the flags of the context
\* that encrypts it, although another thread may switch contexts in between.
FlagsMatch == \A i \in DOMAIN out : out[i].flag = out[i].by

=============================================================================
