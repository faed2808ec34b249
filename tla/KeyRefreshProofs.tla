-------------------------- MODULE KeyRefreshProofs --------------------------
(***************************************************************************)
(* Machine-checked proofs about KeyRefresh, for all rates: the sender never *)
(* switches to a context that has no key that was announced, provided that  *)
(* full ACKs come often enough for the two thresholds; and a refresh goes    *)
(* unnoticed, provided that messages and acknowledgements are prompt.        *)
(***************************************************************************)
EXTENDS KeyRefresh, TLAPS, SequenceTheorems, FiniteSetTheorems

\* Full ACKs are in time: at most PreAnnounce packets are sent from one to the next, and
\* PreAnnounce more than those of two such intervals stay within the rate.
Timely == PerAck <= PreAnnounce /\ PreAnnounce + 2 * PerAck <= RefreshRate

\* A key may be any value: that there is a new one is not assumed.
Contexts(keys) ==
    [key : keys, status : {"sardy", "keyed", "active", "deprecated"}, announce : BOOLEAN, cnt : Nat]

Session(t) == t \in [ctx : Parity, pair : [Parity -> Contexts({t.pair[0].key, t.pair[1].key})]]

\* How far the counter of the active context has come, n packets after a full ACK, by
\* what the other one is there for: the next full ACK is in time to announce a new key,
\* or to end the announcement of the old one.  A deprecated context has not been used
\* since it was keyed, or was used up: switching to it again leads on to another switch.
InStep(t, n) ==
    /\ Other(t).status \in {"sardy", "keyed", "deprecated"}
    /\ Other(t).status = "sardy" =>
        /\ ~Other(t).announce /\ Active(t).cnt >= 1
        /\ Active(t).cnt <= RefreshRate - PreAnnounce + n \/ Active(t).cnt <= PreAnnounce + PerAck + n
    /\ Other(t).status = "keyed" => Other(t).cnt = 0
    /\ Other(t).status = "deprecated" =>
        /\ Other(t).cnt = 0 \/ Other(t).cnt > RefreshRate
        /\ Active(t).cnt <= PreAnnounce + n \/ Active(t).cnt > RefreshRate

Counted ==
    /\ since.packets \in 0 .. PerAck
    /\ since = [packets |-> since.packets, lite |-> since.lite, announced |-> since.announced]
    /\ flags # NoFlags => since.packets < PerAck

Inv == Session(tx) /\ Counted /\ InStep(tx, since.packets)

-----------------------------------------------------------------------------

\* The constants are numbers.
LEMMA Numbers == {RefreshRate, PreAnnounce, PerAck} \subseteq Nat \ {0} /\ PreAnnounce < RefreshRate
BY KeyAssumption

\* Which keys there are does not matter.
LEMMA AnyKeys ==
    ASSUME NEW t, NEW keys, t \in [ctx : Parity, pair : [Parity -> Contexts(keys)]]
    PROVE  Session(t)
BY DEF Session, Parity, Contexts

\* A session by its active and its other context.
Pair(c, x, y) == [ctx |-> c, pair |-> [p \in {0, 1} |-> IF p = c THEN x ELSE y]]

\* The two contexts of a session.
LEMMA TwoContexts ==
    ASSUME NEW t, Session(t)
    PROVE  /\ t.ctx \in {0, 1} /\ Alt(t.ctx) = 1 - t.ctx
           /\ 1 - t.ctx \in {0, 1} /\ 1 - t.ctx # t.ctx /\ 1 - (1 - t.ctx) = t.ctx
           /\ t = [ctx |-> t.ctx, pair |-> t.pair] /\ DOMAIN t.pair = {0, 1} /\ t = Pair(t.ctx, Active(t), Other(t))
           /\ {Active(t), Other(t)} \subseteq Contexts({t.pair[0].key, t.pair[1].key})
           /\ Active(t) = t.pair[t.ctx] /\ Other(t) = t.pair[1 - t.ctx]
BY DEF Session, Parity, Contexts, Active, Other, Alt, Pair

\* What a session is, from its contexts.
LEMMA PairIs ==
    ASSUME NEW c \in {0, 1}, NEW keys, NEW x \in Contexts(keys), NEW y \in Contexts(keys)
    PROVE  /\ Session(Pair(c, x, y)) /\ Active(Pair(c, x, y)) = x /\ Other(Pair(c, x, y)) = y
           /\ Pair(c, x, y).ctx = c /\ Pair(c, x, y).pair[c] = x /\ Pair(c, x, y).pair[1 - c] = y
<1>1. Pair(c, x, y) \in [ctx : Parity, pair : [Parity -> Contexts(keys)]]
    BY DEF Pair, Parity
<1> QED
    BY <1>1, AnyKeys DEF Active, Other, Alt, Pair

\* hcryptCtx_Tx_Switch
LEMMA SwitchIs ==
    ASSUME NEW t, Session(t)
    PROVE  Switch(t) = Pair(1 - t.ctx, [Other(t) EXCEPT !.status = "active", !.announce = TRUE],
                            [Active(t) EXCEPT !.status = "deprecated"])
<1> DEFINE a == t.pair[t.ctx]
           o == t.pair[1 - t.ctx]
           keys == {t.pair[0].key, t.pair[1].key}
           x == [a EXCEPT !.status = "deprecated"]
           y == [o EXCEPT !.status = "active", !.announce = TRUE]
           f == [t.pair EXCEPT ![t.ctx].status = "deprecated"]
           g == [f EXCEPT ![1 - t.ctx].status = "active"]
           h == [g EXCEPT ![1 - t.ctx].announce = TRUE]
<1>1. /\ t.ctx \in {0, 1} /\ 1 - t.ctx \in {0, 1} /\ 1 - t.ctx # t.ctx
      /\ t \in [ctx : {0, 1}, pair : [{0, 1} -> Contexts(keys)]]
      /\ a \in Contexts(keys) /\ o \in Contexts(keys) /\ Active(t) = a /\ Other(t) = o
    BY DEF Session, Parity, Active, Other, Alt
<1>2. Switch(t) = [ctx |-> 1 - t.ctx, pair |-> h]
  <2> DEFINE r == [t EXCEPT !.ctx = 1 - t.ctx]
             u == [r EXCEPT !.pair[t.ctx].status = "deprecated"]
             v == [u EXCEPT !.pair[1 - t.ctx].status = "active"]
  <2>1. r = [ctx |-> 1 - t.ctx, pair |-> t.pair]
    BY <1>1
  <2> HIDE DEF r
  <2>2. u = [ctx |-> 1 - t.ctx, pair |-> f]
    BY <2>1
  <2> HIDE DEF u, f
  <2>3. v = [ctx |-> 1 - t.ctx, pair |-> g]
    BY <2>2
  <2> USE DEF r, u, f
  <2>4. Switch(t) = [v EXCEPT !.pair[1 - t.ctx].announce = TRUE]
    BY DEF Switch, Alt
  <2> QED
    BY <2>3, <2>4
<1>3. f = [p \in {0, 1} |-> IF p = t.ctx THEN x ELSE o]
    BY <1>1
<1>4. h = [p \in {0, 1} |-> IF p = 1 - t.ctx THEN y ELSE x]
    BY <1>1, <1>3 DEF Contexts
<1> QED
    BY <1>1, <1>2, <1>4 DEF Pair

\* hcryptCtx_Tx_Refresh and hcryptCtx_Tx_PreSwitch
LEMMA RefreshIs ==
    ASSUME NEW t, Session(t)
    PROVE  Refresh(t) = Pair(t.ctx, [Active(t) EXCEPT !.announce = FALSE],
                             [key |-> NewKey, status |-> "keyed", announce |-> TRUE, cnt |-> 0])
<1> DEFINE a == t.pair[t.ctx]
           keys == {t.pair[0].key, t.pair[1].key}
           x == [a EXCEPT !.announce = FALSE]
           y == [key |-> NewKey, status |-> "keyed", announce |-> TRUE, cnt |-> 0]
           f == [t.pair EXCEPT ![1 - t.ctx] = y]
           h == [f EXCEPT ![t.ctx].announce = FALSE]
           r == [t EXCEPT !.pair[1 - t.ctx] = y]
<1>1. /\ t.ctx \in {0, 1} /\ 1 - t.ctx \in {0, 1} /\ 1 - t.ctx # t.ctx
      /\ t \in [ctx : {0, 1}, pair : [{0, 1} -> Contexts(keys)]]
      /\ a \in Contexts(keys) /\ Active(t) = a
    BY DEF Session, Parity, Active
<1>2. r = [ctx |-> t.ctx, pair |-> f]
    BY <1>1
<1>3. Refresh(t) = [r EXCEPT !.pair[t.ctx].announce = FALSE]
    BY DEF Refresh, Alt
<1>4. Refresh(t) = [ctx |-> t.ctx, pair |-> h]
    BY <1>2, <1>3
<1>5. f = [p \in {0, 1} |-> IF p = t.ctx THEN a ELSE y]
    BY <1>1
<1>6. h = [p \in {0, 1} |-> IF p = t.ctx THEN x ELSE y]
    BY <1>1, <1>5 DEF Contexts
<1> QED
    BY <1>1, <1>4, <1>6 DEF Pair

\* hcryptCtx_Tx_PostSwitch
LEMMA PostSwitchIs ==
    ASSUME NEW t, Session(t)
    PROVE  PostSwitch(t) = Pair(t.ctx, Active(t), [Other(t) EXCEPT !.announce = FALSE, !.status = "sardy"])
<1> DEFINE a == t.pair[t.ctx]
           o == t.pair[1 - t.ctx]
           keys == {t.pair[0].key, t.pair[1].key}
           y == [o EXCEPT !.announce = FALSE, !.status = "sardy"]
           f == [t.pair EXCEPT ![1 - t.ctx].announce = FALSE]
           h == [f EXCEPT ![1 - t.ctx].status = "sardy"]
           r == [t EXCEPT !.pair[1 - t.ctx].announce = FALSE]
<1>1. /\ t.ctx \in {0, 1} /\ 1 - t.ctx \in {0, 1} /\ 1 - t.ctx # t.ctx
      /\ t \in [ctx : {0, 1}, pair : [{0, 1} -> Contexts(keys)]]
      /\ a \in Contexts(keys) /\ o \in Contexts(keys) /\ Active(t) = a /\ Other(t) = o
    BY DEF Session, Parity, Active, Other, Alt
<1>2. r = [ctx |-> t.ctx, pair |-> f]
    BY <1>1
<1>3. PostSwitch(t) = [r EXCEPT !.pair[1 - t.ctx].status = "sardy"]
    BY DEF PostSwitch, Alt
<1>4. PostSwitch(t) = [ctx |-> t.ctx, pair |-> h]
    BY <1>2, <1>3
<1>5. f = [p \in {0, 1} |-> IF p = t.ctx THEN a ELSE [o EXCEPT !.announce = FALSE]]
    BY <1>1
<1>6. h = [p \in {0, 1} |-> IF p = t.ctx THEN a ELSE y]
    BY <1>1, <1>5 DEF Contexts
<1> QED
    BY <1>1, <1>4, <1>6 DEF Pair

\* What hcryptCtx_Tx_ManageKM makes of session t.
Kept(t, s) == \A p \in {0, 1} : s.pair[p].key = t.pair[p].key
Switched(t, s) ==
    /\ s.ctx = 1 - t.ctx /\ Kept(t, s) /\ Other(t).cnt = Active(s).cnt
    /\ Other(s).status = "deprecated" /\ Other(s).cnt = Active(t).cnt
Refreshed(t, s) ==
    /\ s.ctx = t.ctx /\ Active(s).key = Active(t).key /\ Active(s).cnt = Active(t).cnt
    /\ Other(s).key = NewKey /\ Other(s).status = "keyed" /\ Other(s).announce /\ Other(s).cnt = 0
Ended(t, s) ==
    /\ s.ctx = t.ctx /\ Kept(t, s) /\ Active(s).cnt = Active(t).cnt /\ Other(s).status = "sardy" /\ ~Other(s).announce

LEMMA ManageIs ==
    ASSUME NEW t, Session(t)
    PROVE  /\ Session(ManageKM(t))
           /\ SwitchDue(t) => Switched(t, ManageKM(t))
           /\ RefreshDue(t) => Refreshed(t, ManageKM(t))
           /\ PostSwitchDue(t) => Ended(t, ManageKM(t))
           /\ ~SwitchDue(t) /\ ~RefreshDue(t) /\ ~PostSwitchDue(t) => ManageKM(t) = t
<1>1. PICK c, a, o : c = t.ctx /\ a = Active(t) /\ o = Other(t)
    OBVIOUS
<1> DEFINE keys == {t.pair[0].key, t.pair[1].key, NewKey}
<1>2. /\ c \in {0, 1} /\ 1 - c \in {0, 1} /\ 1 - (1 - c) = c /\ t = Pair(c, a, o)
      /\ a \in Contexts(keys) /\ o \in Contexts(keys)
  <2>1. a \in Contexts({t.pair[0].key, t.pair[1].key}) /\ o \in Contexts({t.pair[0].key, t.pair[1].key})
    BY <1>1, TwoContexts
  <2>2. a \in Contexts(keys) /\ o \in Contexts(keys)
    BY <2>1 DEF Contexts
  <2> QED
    BY <1>1, <2>2, TwoContexts
<1> HIDE DEF keys
<1>3. t.pair[c] = a /\ t.pair[1 - c] = o
    BY <1>2, PairIs
<1>4. CASE SwitchDue(t)
  <2>1. PICK x, y : x = [o EXCEPT !.status = "active", !.announce = TRUE] /\ y = [a EXCEPT !.status = "deprecated"]
    OBVIOUS
  <2>2. ManageKM(t) = Pair(1 - c, x, y)
    BY <1>1, <1>4, <2>1, SwitchIs DEF ManageKM, RefreshDue, PostSwitchDue
  <2>3. /\ x \in Contexts(keys) /\ x.key = o.key /\ x.cnt = o.cnt
        /\ y \in Contexts(keys) /\ y.key = a.key /\ y.cnt = a.cnt /\ y.status = "deprecated"
    BY <1>2, <2>1 DEF Contexts
  <2>4. PICK s : s = Pair(1 - c, x, y)
    OBVIOUS
  <2>5. /\ Session(s) /\ Active(s) = x /\ Other(s) = y /\ s.ctx = 1 - c /\ s.pair[1 - c] = x /\ s.pair[c] = y
    BY <1>2, <2>3, <2>4, PairIs
  <2>6. Kept(t, s)
    BY <1>2, <1>3, <2>3, <2>5 DEF Kept
  <2>7. Switched(t, s)
    BY <1>1, <2>3, <2>5, <2>6 DEF Switched
  <2> QED
    BY <1>4, <2>2, <2>4, <2>5, <2>7 DEF RefreshDue, PostSwitchDue
<1>5. CASE RefreshDue(t)
  <2>1. PICK x, y : /\ x = [a EXCEPT !.announce = FALSE]
                    /\ y = [key |-> NewKey, status |-> "keyed", announce |-> TRUE, cnt |-> 0]
    OBVIOUS
  <2>2. ManageKM(t) = Pair(c, x, y)
    BY <1>1, <1>5, <2>1, RefreshIs DEF ManageKM, RefreshDue, PostSwitchDue
  <2>3. /\ x \in Contexts(keys) /\ x.key = a.key /\ x.cnt = a.cnt
        /\ y \in Contexts(keys) /\ y.key = NewKey /\ y.cnt = 0 /\ y.status = "keyed" /\ y.announce
    BY <1>2, <2>1 DEF Contexts, keys
  <2>4. PICK s : s = Pair(c, x, y)
    OBVIOUS
  <2>5. /\ Session(s) /\ Active(s) = x /\ Other(s) = y /\ s.ctx = c
    BY <1>2, <2>3, <2>4, PairIs
  <2>6. Refreshed(t, s)
    BY <1>1, <2>3, <2>5 DEF Refreshed
  <2> QED
    BY <1>5, <2>2, <2>4, <2>5, <2>6 DEF RefreshDue, PostSwitchDue
<1>6. CASE PostSwitchDue(t)
  <2>1. PICK y : y = [o EXCEPT !.announce = FALSE, !.status = "sardy"]
    OBVIOUS
  <2>2. ManageKM(t) = Pair(c, a, y)
    BY <1>1, <1>6, <2>1, PostSwitchIs DEF ManageKM, PostSwitchDue
  <2>3. y \in Contexts(keys) /\ y.key = o.key /\ y.status = "sardy" /\ ~y.announce
    BY <1>2, <2>1 DEF Contexts
  <2>4. PICK s : s = Pair(c, a, y)
    OBVIOUS
  <2>5. /\ Session(s) /\ Active(s) = a /\ Other(s) = y /\ s.ctx = c /\ s.pair[c] = a /\ s.pair[1 - c] = y
    BY <1>2, <2>3, <2>4, PairIs
  <2>6. Kept(t, s)
    BY <1>2, <1>3, <2>3, <2>5 DEF Kept
  <2>7. Ended(t, s)
    BY <1>1, <2>3, <2>5, <2>6 DEF Ended
  <2> QED
    BY <1>6, <2>2, <2>4, <2>5, <2>7 DEF RefreshDue, PostSwitchDue
<1>7. CASE ~SwitchDue(t) /\ ~RefreshDue(t) /\ ~PostSwitchDue(t)
    BY <1>7 DEF ManageKM
<1> QED
    BY <1>4, <1>5, <1>6, <1>7

\* hcryptCtx_Tx_ManageKM, at a full ACK in time, keeps the contexts in step, and switches
\* only to one that was keyed.
LEMMA Managed ==
    ASSUME Timely, NEW t, Session(t), NEW n \in 0 .. PerAck, InStep(t, n)
    PROVE  /\ Session(ManageKM(t)) /\ InStep(ManageKM(t), 0)
           /\ ManageKM(t).ctx # t.ctx => Other(t).status # "sardy"
<1> USE Numbers DEF Timely
<1>1. PICK s : s = ManageKM(t)
    OBVIOUS
<1>2. Session(s) /\ t.ctx \in {0, 1} /\ {Active(t).cnt, Other(t).cnt, Active(s).cnt} \subseteq Nat
    BY <1>1, ManageIs, TwoContexts DEF Contexts
<1>3. CASE SwitchDue(t)
  <2>1. Switched(t, s)
    BY <1>1, <1>3, ManageIs
  <2>2. Other(t).status # "sardy"
    BY <1>2, <1>3 DEF SwitchDue, InStep
  <2>3. InStep(s, 0)
    BY <1>2, <1>3, <2>1, <2>2 DEF InStep, SwitchDue, Switched
  <2> QED
    BY <1>1, <1>2, <2>2, <2>3
<1>4. CASE RefreshDue(t)
  <2>1. Refreshed(t, s)
    BY <1>1, <1>4, ManageIs
  <2> QED
    BY <1>1, <1>2, <2>1 DEF InStep, Refreshed
<1>5. CASE PostSwitchDue(t)
  <2>1. Ended(t, s)
    BY <1>1, <1>5, ManageIs
  <2> QED
    BY <1>1, <1>2, <1>5, <2>1 DEF InStep, SwitchDue, PostSwitchDue, Ended
<1>6. CASE ~SwitchDue(t) /\ ~RefreshDue(t) /\ ~PostSwitchDue(t)
  <2>1. s = t
    BY <1>1, <1>6, ManageIs
  <2> QED
    BY <1>1, <1>2, <1>6, <2>1 DEF InStep, SwitchDue, RefreshDue, PostSwitchDue
<1> QED
    BY <1>3, <1>4, <1>5, <1>6

\* The session that the handshake leaves.
LEMMA Begins == Init => Inv
<1> SUFFICES ASSUME Init PROVE Inv
    OBVIOUS
<1> DEFINE x == [key |-> 1, status |-> "active", announce |-> TRUE, cnt |-> 1]
           y == [key |-> 0, status |-> "sardy", announce |-> FALSE, cnt |-> 0]
<1>1. tx = [ctx |-> 0, pair |-> [p \in {0, 1} |-> IF p = 0 THEN x ELSE y]]
    BY DEF Init, Parity
<1>2. x \in Contexts({0, 1}) /\ y \in Contexts({0, 1})
    BY DEF Contexts
<1>3. tx \in [ctx : Parity, pair : [Parity -> Contexts({0, 1})]]
    BY <1>1, <1>2 DEF Parity
<1>4. Active(tx) = x /\ Other(tx) = y
    BY <1>1 DEF Active, Other, Alt
<1>5. since = [packets |-> 0, lite |-> FALSE, announced |-> 0] /\ flags = NoFlags
    BY DEF Init
<1>6. Counted
    BY <1>5, Numbers DEF Counted
<1>7. InStep(tx, since.packets)
    BY <1>4, <1>5, Numbers DEF InStep
<1> QED
    BY <1>3, <1>6, <1>7, AnyKeys DEF Inv

\* HaiCrypt_Tx_Data counts a packet of the active context, up to one more than the rate.
CountedOnce(t, s) ==
    /\ Session(s) /\ s.ctx = t.ctx /\ Kept(t, s) /\ Other(s) = Other(t) /\ Active(s).key = Active(t).key
    /\ Active(s).cnt <= Active(t).cnt + 1
    /\ Active(s).cnt = Active(t).cnt + 1 \/ Active(s).cnt > RefreshRate

LEMMA EncryptIs ==
    ASSUME Session(tx), Encrypt
    PROVE  CountedOnce(tx, tx')
<1> USE Numbers
<1> DEFINE keys == {tx.pair[0].key, tx.pair[1].key}
<1>1. PICK c, a, o : c = tx.ctx /\ a = Active(tx) /\ o = Other(tx)
    OBVIOUS
<1>2. PICK n : n = Min({a.cnt + 1, RefreshRate + 1})
    OBVIOUS
<1>3. PICK x : x = [a EXCEPT !.cnt = n]
    OBVIOUS
<1>4. /\ c \in {0, 1} /\ 1 - c \in {0, 1} /\ 1 - (1 - c) = c
      /\ tx = [ctx |-> c, pair |-> tx.pair] /\ DOMAIN tx.pair = {0, 1}
      /\ a \in Contexts(keys) /\ o \in Contexts(keys) /\ tx.pair[c] = a /\ tx.pair[1 - c] = o /\ tx = Pair(c, a, o)
    BY <1>1, TwoContexts
<1>5. n \in Nat /\ n <= a.cnt + 1 /\ (n = a.cnt + 1 \/ n > RefreshRate)
  <2>1. a.cnt \in Nat
    BY <1>4 DEF Contexts
  <2>2. \E m \in {a.cnt + 1, RefreshRate + 1} : \A k \in {a.cnt + 1, RefreshRate + 1} : m <= k
    <3>1. CASE a.cnt <= RefreshRate
      BY <2>1, <3>1
    <3>2. CASE ~(a.cnt <= RefreshRate)
      BY <2>1, <3>2
    <3> QED
      BY <3>1, <3>2
  <2>3. n \in {a.cnt + 1, RefreshRate + 1} /\ \A k \in {a.cnt + 1, RefreshRate + 1} : n <= k
    BY <1>2, <2>2 DEF Min
  <2> QED
    BY <2>1, <2>3
<1>6. tx' = Pair(c, x, o)
  <2>1. tx' = [tx EXCEPT !.pair[c].cnt = n]
    BY <1>1, <1>2 DEF Encrypt, Active
  <2>2. [tx.pair EXCEPT ![c].cnt = n] = [p \in {0, 1} |-> IF p = c THEN x ELSE o]
    BY <1>3, <1>4
  <2> QED
    BY <1>4, <2>1, <2>2 DEF Pair
<1>7. x \in Contexts(keys) /\ x.cnt = n /\ x.key = a.key
    BY <1>3, <1>4, <1>5 DEF Contexts
<1>8. PICK s : s = tx'
    OBVIOUS
<1> HIDE DEF keys
<1>9. Session(s) /\ Active(s) = x /\ Other(s) = o /\ s.ctx = c /\ s.pair[c] = x /\ s.pair[1 - c] = o
    BY <1>4, <1>6, <1>7, <1>8, PairIs
<1>10. Kept(tx, s)
    BY <1>4, <1>7, <1>9 DEF Kept
<1> QED
    BY <1>1, <1>5, <1>7, <1>8, <1>9, <1>10 DEF CountedOnce

\* The counter stays in step with the packets sent.
LEMMA Encrypted == Inv /\ Encrypt => Inv' /\ tx'.ctx = tx.ctx
<1> SUFFICES ASSUME Inv, Encrypt PROVE Inv' /\ tx'.ctx = tx.ctx
    OBVIOUS
<1> USE Numbers
<1>1. CountedOnce(tx, tx') /\ Session(tx)
    BY EncryptIs DEF Inv
<1>2. since.packets \in 0 .. PerAck - 1 /\ since'.packets = since.packets + 1 /\ Counted'
  <2> DEFINE m == Min({since.announced + 1, Lag})
  <2>1. since.packets \in 0 .. PerAck - 1
    BY DEF Inv, Counted, Encrypt
  <2>2. since' = [since EXCEPT !.packets = @ + 1, !.announced = m] /\ flags' = NoFlags
    BY DEF Encrypt
  <2> HIDE DEF m
  <2>3. since' = [packets |-> since.packets + 1, lite |-> since.lite, announced |-> m]
    BY <2>2 DEF Inv, Counted
  <2>4. since'.packets = since.packets + 1
    BY <2>3
  <2>5. since' = [packets |-> since'.packets, lite |-> since'.lite, announced |-> since'.announced]
    BY <2>3
  <2>6. since'.packets \in 0 .. PerAck
    BY <2>1, <2>4
  <2> QED
    BY <2>1, <2>2, <2>4, <2>5, <2>6 DEF Counted
<1>3. {Active(tx).cnt, Active(tx').cnt} \subseteq Nat
    BY <1>1, TwoContexts DEF CountedOnce, Contexts
<1>4. InStep(tx', since'.packets)
    BY <1>1, <1>2, <1>3 DEF Inv, InStep, CountedOnce
<1> QED
    BY <1>1, <1>2, <1>4 DEF Inv, CountedOnce

\* A full ACK manages the keys.
LEMMA Acknowledged ==
    ASSUME Timely, Inv, NEW n, NEW due, FullAck(n, due)
    PROVE  Inv' /\ (tx'.ctx # tx.ctx => Other(tx).status # "sardy")
<1>1. tx' = ManageKM(tx) /\ flags' = flags
    BY DEF FullAck, SendKeys
<1>2. since'.packets = 0 /\ Counted'
    BY Numbers, <1>1 DEF Inv, Counted, FullAck
<1> QED
    BY <1>1, <1>2, Managed DEF Inv, Counted

\* The other steps leave the contexts alone.
LEMMA Others ==
    ASSUME Inv, UNCHANGED <<tx, since.packets>>, Counted'
    PROVE  Inv'
BY DEF Inv

\* Each step keeps the invariant, and switches only to a context that was keyed.
LEMMA Steps == Timely /\ Inv /\ [Next]_vars => Inv' /\ (tx'.ctx # tx.ctx => Other(tx).status # "sardy")
<1> SUFFICES ASSUME Timely, Inv, [Next]_vars PROVE Inv' /\ (tx'.ctx # tx.ctx => Other(tx).status # "sardy")
    OBVIOUS
<1>1. CASE Encrypt
    BY <1>1, Encrypted
<1>2. ASSUME NEW n \in 0 .. Window, NEW due \in BOOLEAN, FullAck(n, due)
      PROVE  Inv' /\ (tx'.ctx # tx.ctx => Other(tx).status # "sardy")
    BY <1>2, Acknowledged
<1>3. CASE ReadFlags
    BY <1>3, Others DEF ReadFlags, Inv, Counted
<1>4. CASE Timer
    BY <1>4, Others DEF Timer, Inv, Counted
<1>5. ASSUME NEW m \in net, TakeKmReq(m) \/ TakeKmRsp(m) \/ Lose(m) \/ Repeat(m)
      PROVE  Inv' /\ tx' = tx
    BY <1>5, Others DEF TakeKmReq, TakeKmRsp, Lose, Repeat, Inv, Counted
<1>6. ASSUME NEW i \in DOMAIN out, Receive(i)
      PROVE  Inv' /\ tx' = tx
    BY <1>6, Others DEF Receive, Inv, Counted
<1>7. ASSUME NEW n \in 0 .. Window, LiteAck(n)
      PROVE  Inv' /\ tx' = tx
    BY <1>7, Others DEF LiteAck, Inv, Counted
<1>8. CASE UNCHANGED vars
    BY <1>8, Others DEF vars, Inv, Counted
<1> QED
    BY <1>1, <1>2, <1>3, <1>4, <1>5, <1>6, <1>7, <1>8 DEF Next, ReadFlags, Timer

-----------------------------------------------------------------------------

\* The contexts stay in step with the packets (hcryptCtx_Tx_ManageKM), if full ACKs are
\* in time.
THEOREM InStepHolds == ASSUME Timely PROVE Spec => []Inv
<1>1. Inv /\ [Next]_vars => Inv'
    BY Steps
<1> QED
    BY Begins, <1>1, PTL DEF Spec

\* No context is activated that has no key that was announced (hcryptCtx_Tx_Switch), if
\* full ACKs are in time.
THEOREM SwitchHolds == ASSUME Timely PROVE Spec => SwitchIsKeyed
<1>1. Inv /\ [Next]_vars => [tx'.ctx # tx.ctx => Other(tx).status \in {"keyed", "active", "deprecated"}]_vars
    BY Steps DEF Inv, InStep
<1> QED
    BY <1>1, InStepHolds, PTL DEF Spec, SwitchIsKeyed

-----------------------------------------------------------------------------
(* The refresh goes unnoticed.                                             *)

\* Messages travel, and are repeated, for a time (Lag) that fits into what is left before
\* the switch and, twice, into the time between two announcements; and a packet is
\* acknowledged before its context is keyed again.
Prompt ==
    /\ 1 <= Lag /\ Lag + PerAck <= PreAnnounce /\ Lag + PreAnnounce + 2 * PerAck <= RefreshRate
    /\ 2 * Lag <= RefreshRate - PreAnnounce /\ Window <= RefreshRate - PreAnnounce

\* There are keys for a first refresh. (A key is used again when nobody has it.)
Plenty == {1, 2, 3} \subseteq Keys

\* The active context has the key announced last, and has not come to the rate.
Fresh(t) == Other(t).status \in {"sardy", "deprecated"} /\ Active(t).cnt <= RefreshRate
\* The other context has a key that is announced, and not in use yet.
Keyed(t) == Other(t).status = "keyed"

\* A keyed context is announced, and the active one has been used.
KeyedOk(t) == Keyed(t) => Active(t).cnt >= 1 /\ Other(t).announce

\* k is the message that is repeated, n those on their way, f the flags read, a the
\* packets since the announcement.
KmOk(t, k, n, f, a) ==
    /\ k = [keys |-> k.keys, retry |-> k.retry, state |-> "secured"] /\ k.retry \in Nat /\ a \in 0 .. Lag
    /\ k.keys = BothKeys(t) \/ (k.keys = <<0, 0>> /\ k.retry = 0 /\ n = {})
    /\ k.retry > 0 /\ Fresh(t) => Active(t).cnt <= a
    /\ k.retry > 0 /\ f # NoFlags => a < Lag

\* Only the last message is on its way, and no longer than Lag after its last repeat.
MessageOk(t, k, m) ==
    /\ m = [kind |-> m.kind, keys |-> k.keys, age |-> m.age] /\ m.age \in 0 .. Lag
    /\ Fresh(t) => Active(t).cnt <= m.age + Lag
MessagesOk(t, k, n) == \A m \in n : MessageOk(t, k, m)

\* Packets o in flight have the keys of the contexts.
Packets(t) ==
    {r \in [flag : Parity, key : {t.pair[0].key, t.pair[1].key}, by : Parity, got : BOOLEAN] : r.key = t.pair[r.by].key}
OutOk(t, o, f) ==
    /\ o \in Seq(Packets(t)) /\ Len(o) <= Window /\ (f # NoFlags => Len(o) < Window)
    /\ \A i \in DOMAIN o : o[i].by # t.ctx /\ Fresh(t) => Len(o) - i >= Active(t).cnt

\* The receiver has both keys, or waits for the one that was announced.
Waits(t, r, o, f, a) ==
    /\ Keyed(t) /\ r[t.ctx + 1] = Active(t).key /\ Other(t).key \notin Range(r)
    /\ \A i \in DOMAIN o : o[i].by = t.ctx
    /\ Active(t).cnt <= RefreshRate - Lag + a
    /\ f # NoFlags => a < Lag
RxOk(t, r, o, f, a) == r = BothKeys(t) \/ Waits(t, r, o, f, a)

\* The keys of session t, message k, those on their way n, packets o, the receiver r, with
\* flags f read and a packets since the announcement.
Well(t, k, n, o, r, f, a) ==
    KeyedOk(t) /\ KmOk(t, k, n, f, a) /\ MessagesOk(t, k, n) /\ OutOk(t, o, f) /\ RxOk(t, r, o, f, a)

\* The inductive invariant.
IInv ==
    /\ Inv /\ Well(tx, km, net, out, rx, flags, since.announced)
    /\ flags \in Parity \union {NoFlags} /\ "key" \notin garbled

\* The bounds are numbers, too.
LEMMA MoreNumbers == {Lag, Retries} \subseteq Nat /\ Window \in Nat \ {0}
BY KeyAssumption

\* A key that nobody has.
LEMMA NewKeyIs ==
    ASSUME Plenty, NEW k0, NEW k1, Used \subseteq {k0, k1, 0}
    PROVE  NewKey \notin Used
<1> DEFINE S == Keys \ Used
<1>1. \A k \in Keys : k \in Int /\ k >= 1
  <2>1. Keys = 1 .. Cardinality(Keys) /\ Cardinality(Keys) \in Nat
    BY KeyAssumption, FS_CardinalityType
  <2> QED
    BY <2>1
<1>2. {1, 2, 3} \subseteq Keys
    BY DEF Plenty
<1>3. \E x \in S : \A y \in S : x <= y
  <2>1. CASE 1 \in S
    BY <1>1, <2>1
  <2>2. CASE 1 \notin S /\ 2 \in S
    BY <1>1, <2>2
  <2>3. CASE 1 \notin S /\ 2 \notin S
    <3>1. 3 \in S
      BY <1>2, <2>3
    <3> QED
      BY <1>1, <2>3, <3>1
  <2> QED
    BY <2>1, <2>2, <2>3
<1>4. NewKey \in S
    BY <1>3 DEF NewKey, Min
<1> QED
    BY <1>4

\* An acknowledgement takes packets from the front.
LEMMA OutAcked ==
    ASSUME NEW t, Session(t), NEW o, NEW f, OutOk(t, o, f), NEW n \in 0 .. Len(o), NEW r, NEW a, RxOk(t, r, o, f, a)
    PROVE  OutOk(t, SubSeq(o, n + 1, Len(o)), f) /\ RxOk(t, r, SubSeq(o, n + 1, Len(o)), f, a)
<1>1. o \in Seq(Packets(t)) /\ Len(o) \in Nat /\ DOMAIN o = 1 .. Len(o) /\ Len(o) <= Window
    BY LenProperties DEF OutOk
<1>2. PICK p : p = SubSeq(o, n + 1, Len(o))
    OBVIOUS
<1>3. p \in Seq(Packets(t)) /\ Len(p) = Len(o) - n /\ \A i \in 1 .. Len(o) - n : p[i] = o[i + n]
  <2>1. n + 1 \in Int /\ Len(o) \in Int /\ n \in Nat /\ n <= Len(o) /\ \A i \in n + 1 .. Len(o) : o[i] \in Packets(t)
    BY <1>1, ElementOfSeq
  <2>2. /\ p \in Seq(Packets(t))
        /\ Len(p) = IF n + 1 <= Len(o) THEN Len(o) - (n + 1) + 1 ELSE 0
        /\ \A i \in 1 .. Len(o) - (n + 1) + 1 : p[i] = o[n + 1 + i - 1]
    BY <1>1, <1>2, <2>1, SubSeqProperties
  <2>3. Len(p) = Len(o) - n
    BY <2>1, <2>2
  <2>4. \A i \in 1 .. Len(o) - n : p[i] = o[i + n]
    <3>1. \A i \in 1 .. Len(o) - n : n + 1 + i - 1 = i + n /\ i \in 1 .. Len(o) - (n + 1) + 1
      BY <2>1
    <3> QED
      BY <2>2, <3>1
  <2> QED
    BY <2>2, <2>3, <2>4
<1>4. DOMAIN p = 1 .. Len(o) - n
    BY <1>3, LenProperties
<1>5. \A i \in DOMAIN p : i + n \in DOMAIN o /\ p[i] = o[i + n] /\ Len(p) - i = Len(o) - (i + n)
    BY <1>1, <1>3, <1>4
<1>6. OutOk(t, p, f)
  <2>1. \A i \in DOMAIN p : p[i].by # t.ctx /\ Fresh(t) => Len(p) - i >= Active(t).cnt
    BY <1>5 DEF OutOk
  <2>2. Len(p) <= Window /\ (f # NoFlags => Len(p) < Window)
    BY <1>1, <1>3, MoreNumbers DEF OutOk
  <2> QED
    BY <1>3, <2>1, <2>2 DEF OutOk
<1>7. RxOk(t, r, p, f, a)
    BY <1>5 DEF RxOk, Waits
<1> QED
    BY <1>2, <1>6, <1>7

\* The least of two numbers.
LEMMA MinIs ==
    ASSUME NEW x \in Nat, NEW y \in Nat
    PROVE  Min({x, y}) \in Nat /\ Min({x, y}) <= x /\ Min({x, y}) <= y /\ Min({x, y}) \in {x, y}
<1>1. \E m \in {x, y} : \A k \in {x, y} : m <= k
  <2>1. CASE x <= y
    BY <2>1
  <2>2. CASE ~(x <= y)
    BY <2>2
  <2> QED
    BY <2>1, <2>2
<1>2. Min({x, y}) \in {x, y} /\ \A k \in {x, y} : Min({x, y}) <= k
    BY <1>1 DEF Min
<1> QED
    BY <1>2

\* What depends on the keys only.
LEMMA SameKeys ==
    ASSUME NEW t, NEW s, Kept(t, s)
    PROVE  BothKeys(s) = BothKeys(t) /\ Packets(s) = Packets(t)
BY DEF Kept, BothKeys, Packets, Parity

\* What a full ACK and a packet need of the contexts.
LEMMA Contained ==
    ASSUME NEW t, Session(t)
    PROVE  /\ t.ctx \in {0, 1} /\ Active(t) = t.pair[t.ctx] /\ Other(t) = t.pair[1 - t.ctx] /\ 1 - t.ctx \in {0, 1}
           /\ Active(t).cnt \in Nat /\ Other(t).cnt \in Nat
           /\ {t.pair[0].key, t.pair[1].key} = {Active(t).key, Other(t).key}
BY TwoContexts DEF Contexts

\* A packet is encrypted with the active context's key.
LEMMA EncryptKeeps ==
    ASSUME Prompt, IInv, Encrypt
    PROVE  IInv'
<1> USE Numbers, MoreNumbers
<1>1. PICK t, s, a, b : t = tx /\ s = tx' /\ a = since.announced /\ b = since'.announced
    OBVIOUS
<1>2. Session(t) /\ CountedOnce(t, s) /\ Inv' /\ Kept(t, s) /\ s.ctx = t.ctx
    BY <1>1, EncryptIs, Encrypted DEF IInv, Well, Inv, CountedOnce
<1>3. {Active(t).cnt, Active(s).cnt} \subseteq Nat
    BY <1>2, Contained DEF CountedOnce
<1>4. a \in 0 .. Lag /\ b \in 0 .. Lag /\ (a < Lag => b = a + 1) /\ b >= a
  <2>1. a \in 0 .. Lag
    BY <1>1 DEF IInv, Well, KmOk
  <2>2. b = Min({a + 1, Lag})
    BY <1>1 DEF Encrypt, IInv, Well, Inv, Counted
  <2> QED
    BY <2>1, <2>2, MinIs
<1>5. Fresh(s) => Fresh(t) /\ Active(s).cnt = Active(t).cnt + 1
    BY <1>2, <1>3 DEF Fresh, CountedOnce
<1>6. Keyed(s) <=> Keyed(t)
    BY <1>2 DEF Keyed, CountedOnce
<1>7. flags # NoFlags /\ flags \in Parity /\ flags' = NoFlags /\ UNCHANGED <<km, rx, garbled>>
    BY DEF Encrypt, IInv, Well
<1>8. BothKeys(s) = BothKeys(t) /\ Packets(s) = Packets(t)
    BY <1>2, SameKeys
<1>9. KeyedOk(s)
    BY <1>1, <1>2, <1>3, <1>6 DEF KeyedOk, IInv, Well, CountedOnce
<1>10. net' = Older(net)
    BY DEF Encrypt
<1>11. KmOk(s, km, net', NoFlags, b)
  <2>1. KmOk(t, km, net, flags, a)
    BY <1>1 DEF IInv, Well
  <2>2. net = {} => net' = {}
    BY <1>10 DEF Older
  <2>3. km.retry > 0 /\ Fresh(s) => Active(s).cnt <= b
    BY <1>3, <1>4, <1>5, <1>7, <2>1 DEF KmOk
  <2> QED
    BY <1>4, <1>8, <2>1, <2>2, <2>3 DEF KmOk
<1>12. MessagesOk(s, km, net')
  <2>1. ASSUME NEW m \in net' PROVE MessageOk(s, km, m)
    <3>1. PICK l \in net : l.age < Lag /\ m = [l EXCEPT !.age = l.age + 1]
      BY <1>10, <2>1 DEF Older
    <3>2. MessageOk(t, km, l)
      BY <1>1 DEF IInv, Well, MessagesOk
    <3>3. /\ l = [kind |-> l.kind, keys |-> km.keys, age |-> l.age] /\ l.age \in 0 .. Lag
          /\ Fresh(t) => Active(t).cnt <= l.age + Lag
      BY <3>2 DEF MessageOk
    <3>4. m = [kind |-> l.kind, keys |-> km.keys, age |-> l.age + 1] /\ m.age = l.age + 1 /\ m.kind = l.kind
      BY <3>1, <3>3
    <3> QED
      BY <1>3, <1>5, <3>1, <3>3, <3>4 DEF MessageOk
  <2> QED
    BY <2>1 DEF MessagesOk
<1>13. PICK r : r = [flag |-> flags, key |-> Active(t).key, by |-> t.ctx, got |-> FALSE]
    OBVIOUS
<1>14. out' = Append(out, r) /\ r \in Packets(t) /\ r.by = t.ctx
  <2>1. out' = Append(out, r)
    BY <1>1, <1>13 DEF Encrypt
  <2>2. t.ctx \in {0, 1} /\ Active(t) = t.pair[t.ctx] /\ Active(t).key \in {t.pair[0].key, t.pair[1].key}
    BY <1>2, Contained
  <2> QED
    BY <1>7, <1>13, <2>1, <2>2 DEF Packets, Parity
<1>15. /\ out \in Seq(Packets(t)) /\ Len(out) \in Nat /\ DOMAIN out = 1 .. Len(out) /\ Len(out) < Window
       /\ out' \in Seq(Packets(s)) /\ Len(out') = Len(out) + 1 /\ DOMAIN out' = 1 .. Len(out) + 1
       /\ out'[Len(out) + 1] = r /\ \A i \in DOMAIN out : out'[i] = out[i]
  <2>1. out \in Seq(Packets(t)) /\ Len(out) < Window
    BY <1>1, <1>7 DEF IInv, Well, OutOk
  <2> QED
    BY <1>8, <1>14, <2>1, AppendProperties, LenProperties
<1>16. OutOk(s, out', NoFlags)
  <2>1. ASSUME NEW i \in DOMAIN out', out'[i].by # s.ctx, Fresh(s) PROVE Len(out') - i >= Active(s).cnt
    <3>1. i \in DOMAIN out
      BY <1>2, <1>14, <1>15, <2>1
    <3>2. Len(out) - i >= Active(t).cnt
      BY <1>1, <1>2, <1>5, <1>15, <2>1, <3>1 DEF IInv, Well, OutOk
    <3> QED
      BY <1>3, <1>5, <1>15, <2>1, <3>1, <3>2
  <2> QED
    BY <1>15, <2>1 DEF OutOk
<1>17. RxOk(s, rx, out', NoFlags, b)
  <2>1. CASE rx = BothKeys(t)
    BY <1>8, <2>1 DEF RxOk
  <2>2. CASE Waits(t, rx, out, flags, a)
    <3>1. Active(s).key = Active(t).key /\ Other(s).key = Other(t).key
      BY <1>2 DEF CountedOnce
    <3>2. \A i \in DOMAIN out' : out'[i].by = s.ctx
      BY <1>2, <1>14, <1>15, <2>2 DEF Waits
    <3>3. Active(s).cnt <= RefreshRate - Lag + b
      BY <1>2, <1>3, <1>4, <1>7, <2>2 DEF Waits, CountedOnce
    <3> QED
      BY <1>2, <1>6, <2>2, <3>1, <3>2, <3>3 DEF RxOk, Waits
  <2> QED
    BY <1>1, <2>1, <2>2 DEF IInv, Well, RxOk
<1> QED
    BY <1>1, <1>2, <1>7, <1>9, <1>11, <1>12, <1>16, <1>17 DEF IInv, Well

\* Full ACKs are in time for what Prompt says.
LEMMA PromptTimely == Prompt => Timely
BY Numbers, MoreNumbers DEF Prompt, Timely

\* A repeat of the message (sendKeysToPeer).
LEMMA RepeatedIs ==
    ASSUME NEW t, Session(t), NEW f, NEW a, KmOk(t, km, net, f, a), MessagesOk(t, km, net), NEW due \in BOOLEAN
    PROVE  /\ KmOk(t, Repeated(due, km), net \union Repeats(due), f, a)
           /\ MessagesOk(t, Repeated(due, km), net \union Repeats(due))
           /\ km.retry = 0 => Repeated(due, km) = km /\ Repeats(due) = {}
<1> USE MoreNumbers
<1>1. km.retry \in Nat /\ a \in 0 .. Lag /\ km = [keys |-> km.keys, retry |-> km.retry, state |-> "secured"]
    BY DEF KmOk
<1>2. CASE due /\ km.retry > 0
  <2>1. PICK k : k = Repeated(due, km)
    OBVIOUS
  <2>2. PICK m : m = KmReq(km.keys)
    OBVIOUS
  <2>3. k = [keys |-> km.keys, retry |-> km.retry - 1, state |-> "secured"] /\ km.retry - 1 \in Nat
    BY <1>1, <1>2, <2>1 DEF Repeated
  <2>4. k.keys = km.keys /\ k.retry = km.retry - 1
    BY <2>3
  <2>5. km.keys = BothKeys(t) /\ (Fresh(t) => Active(t).cnt <= a)
    BY <1>1, <1>2 DEF KmOk
  <2>6. KmOk(t, k, net \union {m}, f, a)
    BY <1>1, <1>2, <2>3, <2>4, <2>5 DEF KmOk
  <2>7. MessageOk(t, k, m)
    <3>1. m = [kind |-> "KMREQ", keys |-> k.keys, age |-> 0]
      BY <2>2, <2>4 DEF KmReq
    <3>2. m.kind = "KMREQ" /\ m.age = 0
      BY <3>1
    <3>3. Fresh(t) => Active(t).cnt <= 0 + Lag
      BY <1>1, <2>5, Contained
    <3> QED
      BY <3>1, <3>2, <3>3 DEF MessageOk
  <2>8. MessagesOk(t, k, net \union {m})
    BY <2>4, <2>7 DEF MessagesOk, MessageOk
  <2>9. Repeats(due) = {m}
    BY <1>2, <2>2 DEF Repeats
  <2>10. km.retry # 0
    BY <1>2
  <2>11. /\ KmOk(t, Repeated(due, km), net \union Repeats(due), f, a)
         /\ MessagesOk(t, Repeated(due, km), net \union Repeats(due))
    BY <2>1, <2>6, <2>8, <2>9
  <2> QED
    BY <2>10, <2>11
<1>3. CASE ~(due /\ km.retry > 0)
  <2>1. Repeated(due, km) = km /\ Repeats(due) = {}
    BY <1>3 DEF Repeated, Repeats
  <2>2. net \union Repeats(due) = net
    BY <2>1
  <2> QED
    BY <2>1, <2>2
<1>4. km.retry = 0 => Repeated(due, km) = km /\ Repeats(due) = {}
    BY DEF Repeated, Repeats
<1> QED
    BY <1>2, <1>3, <1>4

\* packData reads the flags when the keys are known and the repeats over, or in time.
LEMMA ReadFlagsKeeps ==
    ASSUME Prompt, IInv, ReadFlags
    PROVE  IInv'
<1>1. Inv'
    BY PromptTimely, Steps DEF IInv, Well, Next
<1>2. UNCHANGED <<tx, km, rx, out, net, since, garbled>> /\ flags' = tx.ctx /\ Len(out) < Window /\ InTime
    BY DEF ReadFlags
<1>3. flags' \in Parity
    BY <1>2, TwoContexts DEF IInv, Well, Inv, Parity
<1>4. PICK t, k, o, n, r, f, g, a :
        t = tx /\ k = km /\ o = out /\ n = net /\ r = rx /\ f = flags /\ g = flags' /\ a = since.announced
    OBVIOUS
<1>5. KmOk(t, k, n, g, a)
    BY <1>2, <1>4 DEF IInv, Well, KmOk, InTime
<1>6. OutOk(t, o, g)
    BY <1>2, <1>4 DEF IInv, Well, OutOk
<1>7. RxOk(t, r, o, g, a)
  <2>1. Waits(t, r, o, f, a) => a < Lag
    BY <1>2, <1>4 DEF Waits, Keyed, InTime, Unknown
  <2> QED
    BY <1>4, <2>1 DEF IInv, Well, RxOk, Waits
<1> QED
    BY <1>1, <1>2, <1>3, <1>4, <1>5, <1>6, <1>7 DEF IInv, Well

\* The timer repeats the message.
LEMMA TimerKeeps ==
    ASSUME Prompt, IInv, Timer
    PROVE  IInv'
<1>1. Inv'
    BY PromptTimely, Steps DEF IInv, Well, Next
<1>2. /\ km' = Repeated(TRUE, km) /\ net' = net \union Repeats(TRUE)
      /\ UNCHANGED <<tx, rx, flags, out, since, garbled>>
    BY DEF Timer
<1>3. PICK t, f, a, k, n : t = tx /\ f = flags /\ a = since.announced /\ k = km' /\ n = net'
    OBVIOUS
<1>4. KmOk(t, k, n, f, a) /\ MessagesOk(t, k, n)
    BY <1>2, <1>3, RepeatedIs DEF IInv, Well, Inv
<1> QED
    BY <1>1, <1>2, <1>3, <1>4 DEF IInv, Well

\* A message on its way has the keys of both contexts.
LEMMA CurrentKeys ==
    ASSUME NEW t, NEW k, NEW n, NEW f, NEW a, KmOk(t, k, n, f, a), MessagesOk(t, k, n), NEW m \in n
    PROVE  m.keys = k.keys /\ k.keys = BothKeys(t) /\ MessageOk(t, k, m)
<1>1. MessageOk(t, k, m)
    BY DEF MessagesOk
<1>2. m = [kind |-> m.kind, keys |-> k.keys, age |-> m.age]
    BY <1>1 DEF MessageOk
<1>3. m.keys = k.keys
    BY <1>2
<1> QED
    BY <1>1, <1>3 DEF KmOk

\* The receiver takes the keys, and answers.
LEMMA TakeKmReqKeeps ==
    ASSUME Prompt, IInv, NEW m \in net, TakeKmReq(m) \/ Repeat(m)
    PROVE  IInv'
<1>1. Inv'
    BY PromptTimely, Steps DEF IInv, Well, Next
<1>2. UNCHANGED <<tx, km, flags, out, since, garbled>> /\ rx' = m.keys
    BY DEF TakeKmReq, Repeat, Parsed
<1>3. PICK l : l = [m EXCEPT !.kind = "KMRSP"]
    OBVIOUS
<1>4. net' \subseteq net \union {l}
    BY <1>3 DEF TakeKmReq, Repeat
<1>5. PICK t, k, f, a, n, o, r, p :
        t = tx /\ k = km /\ f = flags /\ a = since.announced /\ n = net /\ o = out /\ r = rx' /\ p = net'
    OBVIOUS
<1>6. KmOk(t, k, n, f, a) /\ MessagesOk(t, k, n) /\ m \in n
    BY <1>5 DEF IInv, Well
<1>7. m.keys = k.keys /\ k.keys = BothKeys(t) /\ MessageOk(t, k, m)
    BY <1>6, CurrentKeys
<1>8. MessageOk(t, k, l)
  <2>1. m = [kind |-> m.kind, keys |-> k.keys, age |-> m.age]
    BY <1>7 DEF MessageOk
  <2>2. l = [kind |-> "KMRSP", keys |-> k.keys, age |-> m.age]
    BY <1>3, <2>1
  <2>3. l.kind = "KMRSP" /\ l.age = m.age
    BY <2>2
  <2> QED
    BY <1>7, <2>2, <2>3 DEF MessageOk
<1>9. MessagesOk(t, k, p)
    BY <1>4, <1>5, <1>6, <1>8 DEF MessagesOk
<1>10. KmOk(t, k, p, f, a)
    BY <1>6, <1>7 DEF KmOk
<1>11. RxOk(t, r, o, f, a)
    BY <1>2, <1>5, <1>7 DEF RxOk
<1> QED
    BY <1>1, <1>2, <1>5, <1>9, <1>10, <1>11 DEF IInv, Well

\* The response has the keys of the last message, and is accepted.
LEMMA TakeKmRspKeeps ==
    ASSUME Prompt, IInv, NEW m \in net, TakeKmRsp(m)
    PROVE  IInv'
<1>1. Inv'
    BY PromptTimely, Steps DEF IInv, Well, Next
<1>2. PICK t, k, f, a, n, j, p :
        t = tx /\ k = km /\ f = flags /\ a = since.announced /\ n = net /\ j = km' /\ p = net'
    OBVIOUS
<1>3. KmOk(t, k, n, f, a) /\ MessagesOk(t, k, n) /\ m \in n
    BY <1>2 DEF IInv, Well
<1>4. m.keys = k.keys /\ k.keys = BothKeys(t) /\ k = [keys |-> k.keys, retry |-> k.retry, state |-> "secured"]
    BY <1>3, CurrentKeys DEF KmOk
<1>5. j = [keys |-> k.keys, retry |-> 0, state |-> "secured"]
  <2>1. j = [k EXCEPT !.retry = 0, !.state = "secured"]
    BY <1>2, <1>4 DEF TakeKmRsp, Accepted
  <2> QED
    BY <1>4, <2>1
<1>6. j.keys = k.keys /\ j.retry = 0 /\ a \in 0 .. Lag
    BY <1>3, <1>5 DEF KmOk
<1>7. KmOk(t, j, p, f, a)
    BY <1>4, <1>5, <1>6 DEF KmOk
<1>8. p \subseteq n /\ UNCHANGED <<tx, rx, flags, out, since, garbled>>
    BY <1>2 DEF TakeKmRsp
<1>9. MessagesOk(t, j, p)
    BY <1>3, <1>6, <1>8 DEF MessagesOk, MessageOk
<1> QED
    BY <1>1, <1>2, <1>7, <1>8, <1>9 DEF IInv, Well

\* A message is lost.
LEMMA LoseKeeps ==
    ASSUME Prompt, IInv, NEW m \in net, Lose(m)
    PROVE  IInv'
<1>1. Inv'
    BY PromptTimely, Steps DEF IInv, Well, Next
<1>2. PICK t, k, f, a, n, p : t = tx /\ k = km /\ f = flags /\ a = since.announced /\ n = net /\ p = net'
    OBVIOUS
<1>3. p \subseteq n /\ UNCHANGED <<tx, km, rx, flags, out, since, garbled>>
    BY <1>2 DEF Lose
<1>4. KmOk(t, k, p, f, a) /\ MessagesOk(t, k, p)
    BY <1>2, <1>3 DEF IInv, Well, KmOk, MessagesOk
<1> QED
    BY <1>1, <1>2, <1>3, <1>4 DEF IInv, Well

\* A packet in flight is decrypted with its own key.
LEMMA ReceiveKeeps ==
    ASSUME Prompt, IInv, NEW i \in DOMAIN out, Receive(i)
    PROVE  IInv'
<1>1. Inv'
    BY PromptTimely, Steps DEF IInv, Well, Next
<1>2. PICK t, f, a, r, o, p : t = tx /\ f = flags /\ a = since.announced /\ r = rx /\ o = out /\ p = out'
    OBVIOUS
<1>3. OutOk(t, o, f) /\ RxOk(t, r, o, f, a) /\ i \in DOMAIN o /\ Session(t)
    BY <1>2 DEF IInv, Well, Inv
<1>4. o \in Seq(Packets(t)) /\ o[i] \in Packets(t)
    BY <1>3, ElementOfSeq, LenProperties DEF OutOk
<1>5. /\ o[i] = [flag |-> o[i].flag, key |-> o[i].key, by |-> o[i].by, got |-> o[i].got]
      /\ o[i].by \in {0, 1} /\ o[i].key = t.pair[o[i].by].key
    BY <1>4 DEF Packets, Parity
<1>6. p = [o EXCEPT ![i].got = TRUE] /\ UNCHANGED <<tx, km, rx, flags, net, since>>
    BY <1>2 DEF Receive
<1>7. PICK q : q = [o[i] EXCEPT !.got = TRUE]
    OBVIOUS
<1>8. q \in Packets(t) /\ q.by = o[i].by
    BY <1>4, <1>7 DEF Packets
<1>9. p \in Seq(Packets(t)) /\ Len(p) = Len(o) /\ DOMAIN p = DOMAIN o /\ \A j \in DOMAIN o : p[j].by = o[j].by
  <2>1. p = [o EXCEPT ![i] = q]
    BY <1>6, <1>7
  <2>2. p \in Seq(Packets(t)) /\ Len(p) = Len(o) /\ DOMAIN p = DOMAIN o
    BY <1>3, <1>4, <1>8, <2>1, ExceptSeq
  <2> QED
    BY <1>8, <2>1, <2>2
<1>10. OutOk(t, p, f)
    BY <1>3, <1>9 DEF OutOk
<1>11. RxOk(t, r, p, f, a)
    BY <1>3, <1>9 DEF RxOk, Waits
<1>12. r[o[i].by + 1] = o[i].key
  <2>1. CASE r = BothKeys(t)
    BY <1>5, <2>1 DEF BothKeys
  <2>2. CASE Waits(t, r, o, f, a)
    BY <1>3, <1>5, <2>2, Contained DEF Waits
  <2> QED
    BY <1>3, <2>1, <2>2 DEF RxOk
<1>13. "key" \notin garbled'
  <2>1. "key" \notin Why(o[i])
    BY <1>2, <1>12 DEF Why
  <2>2. garbled' = garbled \union Why(o[i])
    BY <1>2 DEF Receive
  <2> QED
    BY <2>1, <2>2 DEF IInv
<1> QED
    BY <1>1, <1>2, <1>6, <1>10, <1>11, <1>13 DEF IInv, Well

\* A light ACK only takes packets.
LEMMA LiteAckKeeps ==
    ASSUME Prompt, IInv, NEW n \in 0 .. Window, LiteAck(n)
    PROVE  IInv'
<1>1. Inv'
    BY PromptTimely, Steps DEF IInv, Well, Next
<1>2. PICK t, f, a, r, o, p : t = tx /\ f = flags /\ a = since.announced /\ r = rx /\ o = out /\ p = out'
    OBVIOUS
<1>3. OutOk(t, o, f) /\ RxOk(t, r, o, f, a) /\ Session(t)
    BY <1>2 DEF IInv, Well, Inv
<1>4. n \in 0 .. Len(o) /\ p = SubSeq(o, n + 1, Len(o)) /\ UNCHANGED <<tx, km, rx, flags, net, garbled>>
    BY <1>2, <1>3, MoreNumbers, LenProperties DEF LiteAck, Acked, OutOk
<1>5. OutOk(t, p, f) /\ RxOk(t, r, p, f, a)
    BY <1>3, <1>4, OutAcked
<1>6. since'.announced = since.announced
    BY DEF LiteAck, IInv, Well, Inv, Counted
<1> QED
    BY <1>1, <1>2, <1>4, <1>5, <1>6 DEF IInv, Well

\* hcryptCtx_Tx_Switch: the receiver has both keys.
LEMMA SwitchKeeps ==
    ASSUME Prompt, NEW t, Session(t), NEW i \in 0 .. PerAck, InStep(t, i), SwitchDue(t),
           NEW s, Session(s), Switched(t, s),
           NEW k, NEW n, NEW o, NEW r, NEW f, NEW a, Well(t, k, n, o, r, f, a)
    PROVE  Well(s, k, n, o, r, f, a)
<1> USE Numbers, MoreNumbers
<1>1. {Active(t).cnt, Active(s).cnt} \subseteq Nat /\ a \in 0 .. Lag
    BY Contained DEF Well, KmOk
<1>2. Fresh(s) => Active(s).cnt = 0
    BY <1>1 DEF Fresh, InStep, SwitchDue, Switched, Prompt
<1>3. BothKeys(s) = BothKeys(t) /\ Packets(s) = Packets(t)
    BY SameKeys DEF Switched
<1>4. KeyedOk(s)
    BY DEF KeyedOk, Keyed, Switched
<1>5. KmOk(s, k, n, f, a)
    BY <1>1, <1>2, <1>3 DEF Well, KmOk
<1>6. MessagesOk(s, k, n)
  <2>1. ASSUME NEW m \in n PROVE MessageOk(s, k, m)
    BY <1>2 DEF Well, MessagesOk, MessageOk
  <2> QED
    BY <2>1 DEF MessagesOk
<1>7. OutOk(s, o, f)
  <2>1. DOMAIN o = 1 .. Len(o) /\ Len(o) \in Nat
    BY LenProperties DEF Well, OutOk
  <2>2. \A j \in DOMAIN o : o[j].by # s.ctx /\ Fresh(s) => Len(o) - j >= Active(s).cnt
    BY <1>2, <2>1
  <2> QED
    BY <1>3, <2>2 DEF Well, OutOk
<1>8. RxOk(s, r, o, f, a)
  <2>1. ~Waits(t, r, o, f, a)
    BY <1>1 DEF Waits, SwitchDue, Well, KeyedOk
  <2> QED
    BY <1>3, <2>1 DEF Well, RxOk
<1> QED
    BY <1>4, <1>5, <1>6, <1>7, <1>8 DEF Well

\* hcryptCtx_Tx_PostSwitch: the old key is no longer announced.
LEMMA PostSwitchKeeps ==
    ASSUME NEW t, Session(t), PostSwitchDue(t), NEW s, Session(s), Ended(t, s),
           NEW k, NEW n, NEW o, NEW r, NEW f, NEW a, Well(t, k, n, o, r, f, a)
    PROVE  Well(s, k, n, o, r, f, a)
<1> USE Numbers, MoreNumbers
<1>1. Active(t).cnt \in Nat
    BY Contained
<1>2. Fresh(t) /\ ~Keyed(t) /\ Active(s).cnt = Active(t).cnt /\ s.ctx = t.ctx
    BY <1>1 DEF Fresh, Keyed, PostSwitchDue, SwitchDue, Ended
<1>3. BothKeys(s) = BothKeys(t) /\ Packets(s) = Packets(t)
    BY SameKeys DEF Ended
<1>4. KeyedOk(s)
    BY DEF KeyedOk, Keyed, Ended
<1>5. KmOk(s, k, n, f, a) /\ MessagesOk(s, k, n)
    BY <1>2, <1>3 DEF Well, KmOk, MessagesOk, MessageOk
<1>6. OutOk(s, o, f)
    BY <1>2, <1>3 DEF Well, OutOk
<1>7. RxOk(s, r, o, f, a)
    BY <1>2, <1>3 DEF Well, RxOk, Waits
<1> QED
    BY <1>4, <1>5, <1>6, <1>7 DEF Well

\* When a refresh is due, the last one is over: nothing of it is on its way, and no
\* packet in flight has the old key.
LEMMA RefreshQuiet ==
    ASSUME Prompt, NEW t, Session(t), NEW i \in 0 .. PerAck, InStep(t, i), RefreshDue(t),
           NEW k, NEW n, NEW o, NEW r, NEW f, NEW a, Well(t, k, n, o, r, f, a)
    PROVE  /\ k.retry = 0 /\ n = {} /\ r = BothKeys(t) /\ \A j \in DOMAIN o : o[j].by = t.ctx
           /\ Active(t).cnt >= 1 /\ Active(t).cnt <= RefreshRate - Lag
<1> USE Numbers, MoreNumbers DEF Prompt
<1>1. Active(t).cnt \in Nat /\ a \in 0 .. Lag /\ k.retry \in Nat
    BY Contained DEF Well, KmOk
<1>2. Active(t).cnt > RefreshRate - PreAnnounce /\ Active(t).cnt <= RefreshRate /\ ~Other(t).announce
    BY <1>1 DEF RefreshDue, SwitchDue
<1>3. ~Keyed(t) /\ Fresh(t)
    BY <1>2 DEF Well, KeyedOk, Keyed, Fresh, InStep
<1>4. k.retry = 0
  <2>1. k.retry > 0 => Active(t).cnt <= a
    BY <1>3 DEF Well, KmOk
  <2> QED
    BY <1>1, <1>2, <2>1
<1>5. n = {}
  <2>1. ASSUME NEW m \in n PROVE FALSE
    <3>1. m.age \in 0 .. Lag /\ Active(t).cnt <= m.age + Lag
      BY <1>3 DEF Well, MessagesOk, MessageOk
    <3> QED
      BY <1>1, <1>2, <3>1
  <2> QED
    BY <2>1
<1>6. \A j \in DOMAIN o : o[j].by = t.ctx
  <2>1. DOMAIN o = 1 .. Len(o) /\ Len(o) \in Nat /\ Len(o) <= Window
    BY LenProperties DEF Well, OutOk
  <2>2. \A j \in DOMAIN o : o[j].by # t.ctx => Len(o) - j >= Active(t).cnt
    BY <1>3 DEF Well, OutOk
  <2>3. ASSUME NEW j \in 1 .. Len(o), Len(o) - j >= Active(t).cnt PROVE FALSE
    <3>1. PICK l, c, q : l = Len(o) /\ c = Active(t).cnt /\ q = RefreshRate - PreAnnounce
      OBVIOUS
    <3>2. {l, c} \subseteq Nat /\ q \in Int /\ l <= q
      <4>1. {l, c} \subseteq Nat /\ q \in Int
        BY <1>1, <2>1, <3>1
      <4>2. l <= Window
        BY <2>1, <3>1
      <4>3. Window <= q
        BY <3>1
      <4> QED
        BY <4>1, <4>2, <4>3
    <3>3. c > q
      BY <1>2, <3>1
    <3>4. l - j >= c /\ j \in Nat /\ j >= 1
      BY <2>3, <3>1
    <3>5. c < l
      <4> HIDE DEF Prompt
      <4> QED
        BY <3>2, <3>4
    <3> QED
      BY <3>2, <3>3, <3>5
  <2> QED
    BY <2>1, <2>2, <2>3
<1>7. r = BothKeys(t)
    BY <1>3 DEF Well, RxOk, Waits
<1>8. Active(t).cnt <= RefreshRate - Lag
    BY <1>1, <1>2, <1>3 DEF InStep, Fresh
<1> QED
    BY <1>1, <1>2, <1>4, <1>5, <1>6, <1>7, <1>8

\* hcryptCtx_Tx_Refresh: the keys are announced, before packets need the new one.
LEMMA RefreshKeeps ==
    ASSUME Prompt, NEW t, Session(t), NEW i \in 0 .. PerAck, InStep(t, i), RefreshDue(t),
           NEW s, Session(s), Refreshed(t, s),
           NEW k, NEW n, NEW o, NEW r, NEW f, NEW a, Well(t, k, n, o, r, f, a), NewKey \notin Range(r),
           NEW j, j = [keys |-> BothKeys(s), retry |-> Retries, state |-> "secured"]
    PROVE  Well(s, j, {KmReq(BothKeys(s))}, o, r, f, 0)
<1> USE Numbers, MoreNumbers
<1>1. /\ k.retry = 0 /\ n = {} /\ r = BothKeys(t) /\ \A x \in DOMAIN o : o[x].by = t.ctx
      /\ Active(t).cnt >= 1 /\ Active(t).cnt <= RefreshRate - Lag
    BY RefreshQuiet
<1>2. /\ s.ctx = t.ctx /\ t.ctx \in {0, 1} /\ Active(t) = t.pair[t.ctx] /\ Active(s) = s.pair[t.ctx]
      /\ Active(s).key = Active(t).key /\ Active(s).cnt = Active(t).cnt /\ Active(t).cnt \in Nat
    BY Contained DEF Refreshed
<1>3. Keyed(s) /\ ~Fresh(s) /\ Other(s).announce /\ Other(s).key = NewKey
    BY DEF Keyed, Fresh, Refreshed
<1>4. KeyedOk(s)
    BY <1>1, <1>2, <1>3 DEF KeyedOk
<1>5. KmOk(s, j, {KmReq(BothKeys(s))}, f, 0)
  <2>1. j.keys = BothKeys(s) /\ j.retry = Retries
    OBVIOUS
  <2> QED
    BY <1>3, <2>1 DEF KmOk, Prompt
<1>6. MessagesOk(s, j, {KmReq(BothKeys(s))})
  <2>1. PICK m : m = KmReq(BothKeys(s))
    OBVIOUS
  <2>2. m = [kind |-> "KMREQ", keys |-> j.keys, age |-> 0] /\ m.kind = "KMREQ" /\ m.age = 0
    BY <2>1 DEF KmReq
  <2>3. MessageOk(s, j, m)
    BY <1>3, <2>2 DEF MessageOk
  <2> QED
    BY <2>1, <2>3 DEF MessagesOk
<1>7. OutOk(s, o, f)
  <2>1. o \in Seq(Packets(t)) /\ DOMAIN o = 1 .. Len(o)
    BY LenProperties DEF Well, OutOk
  <2>2. \A x \in 1 .. Len(o) : o[x] \in Packets(s)
    <3>1. ASSUME NEW x \in 1 .. Len(o) PROVE o[x] \in Packets(s)
      <4>1. o[x] \in Packets(t) /\ o[x].by = t.ctx
        BY <1>1, <2>1, <3>1, ElementOfSeq
      <4>2. o[x].key = s.pair[t.ctx].key
        BY <1>2, <4>1 DEF Packets
      <4>3. s.pair[t.ctx].key \in {s.pair[0].key, s.pair[1].key}
        BY <1>2
      <4> QED
        BY <4>1, <4>2, <4>3 DEF Packets
    <3> QED
      BY <3>1
  <2>3. o \in Seq(Packets(s))
    BY <2>1, <2>2, LenProperties, IsASeq
  <2> QED
    BY <1>3, <2>3 DEF Well, OutOk
<1>8. RxOk(s, r, o, f, 0)
  <2>1. r[s.ctx + 1] = Active(s).key
    BY <1>1, <1>2 DEF BothKeys
  <2>2. Waits(s, r, o, f, 0)
    BY <1>1, <1>2, <1>3, <2>1 DEF Waits, Prompt
  <2> QED
    BY <2>2 DEF RxOk
<1> QED
    BY <1>4, <1>5, <1>6, <1>7, <1>8 DEF Well

\* When a refresh is due, the keys in use are those of the contexts.
LEMMA UsedIs ==
    ASSUME Prompt, IInv, RefreshDue(tx)
    PROVE  Used \subseteq {tx.pair[0].key, tx.pair[1].key, 0}
<1>1. PICK t, k, n, o, r, f, a :
        t = tx /\ k = km /\ n = net /\ o = out /\ r = rx /\ f = flags /\ a = since.announced
    OBVIOUS
<1>2. Session(t) /\ Well(t, k, n, o, r, f, a)
    BY <1>1 DEF IInv, Inv
<1>3. n = {} /\ r = BothKeys(t)
    BY <1>1, <1>2, RefreshQuiet DEF IInv, Inv, Counted
<1> DEFINE S == {t.pair[0].key, t.pair[1].key, 0}
<1>4. \A x, y : Range(<<x, y>>) \subseteq {x, y}
    BY DEF Range
<1>5. Range(r) \subseteq S
    BY <1>3, <1>4 DEF BothKeys
<1>6. Range(k.keys) \subseteq S
  <2>1. k.keys = BothKeys(t) \/ k.keys = <<0, 0>>
    BY <1>2 DEF Well, KmOk
  <2> QED
    BY <1>4, <2>1 DEF BothKeys
<1>7. \A i \in DOMAIN o : o[i].key \in S
  <2>1. \A i \in DOMAIN o : o[i] \in Packets(t)
    BY <1>2, LenProperties, ElementOfSeq DEF Well, OutOk
  <2> QED
    BY <2>1 DEF Packets
<1> QED
    BY <1>1, <1>3, <1>5, <1>6, <1>7 DEF Used, Parity

\* A full ACK.
LEMMA FullAckKeeps ==
    ASSUME Prompt, Plenty, IInv, NEW c \in 0 .. Window, NEW due \in BOOLEAN, FullAck(c, due)
    PROVE  IInv'
<1>1. Inv'
    BY PromptTimely, Acknowledged DEF IInv
<1>2. PICK t, s, k, n, j, m, o, p, r, f, a, b, i :
        /\ t = tx /\ s = tx' /\ k = km /\ n = net /\ j = km' /\ m = net' /\ o = out /\ p = out'
        /\ r = rx /\ f = flags /\ a = since.announced /\ b = since'.announced /\ i = since.packets
    OBVIOUS
<1>3. Session(t) /\ Well(t, k, n, o, r, f, a) /\ i \in 0 .. PerAck /\ InStep(t, i) /\ Session(s)
    BY <1>1, <1>2 DEF IInv, Inv, Counted
<1>4. /\ p = SubSeq(o, c + 1, Len(o)) /\ s = ManageKM(t) /\ UNCHANGED <<rx, flags, garbled>>
      /\ b = IF RefreshDue(t) THEN 0 ELSE a
    BY <1>2 DEF FullAck, SendKeys
<1>5. c \in 0 .. Len(o)
    BY <1>2, <1>3, LenProperties DEF FullAck, Acked, Well, OutOk
<1>6. Well(t, k, n, p, r, f, a)
    BY <1>3, <1>4, <1>5, OutAcked DEF Well
<1>7. CASE RefreshDue(t)
  <2>1. k.retry = 0
    BY <1>3, <1>7, RefreshQuiet
  <2>2. n = {}
    BY <1>3, <1>7, RefreshQuiet
  <2>3. Repeated(due, km) = k /\ Repeats(due) = {}
    BY <1>2, <2>1 DEF Repeated, Repeats
  <2>4. j = [k EXCEPT !.keys = BothKeys(s), !.retry = Retries] /\ m = {KmReq(BothKeys(s))}
    BY <1>2, <1>7, <2>2, <2>3 DEF FullAck, SendKeys
  <2>5. PICK x, y : k = [keys |-> x, retry |-> y, state |-> "secured"]
    BY <1>3 DEF Well, KmOk
  <2>6. j = [keys |-> BothKeys(s), retry |-> Retries, state |-> "secured"]
    BY <2>4, <2>5
  <2>7. NewKey \notin Range(r)
    <3>1. NewKey \notin Used
      BY <1>2, <1>7, UsedIs, NewKeyIs
    <3> QED
      BY <1>2, <3>1 DEF Used
  <2>8. Refreshed(t, s)
    BY <1>3, <1>4, <1>7, ManageIs
  <2>9. Well(s, j, {KmReq(BothKeys(s))}, p, r, f, 0)
    BY <1>3, <1>6, <1>7, <2>6, <2>7, <2>8, RefreshKeeps
  <2>10. b = 0
    BY <1>4, <1>7
  <2>11. Well(s, j, m, p, r, f, b)
    BY <2>4, <2>9, <2>10
  <2> QED
    BY <1>1, <1>2, <1>4, <2>11 DEF IInv
<1>8. CASE ~RefreshDue(t)
  <2>1. j = Repeated(due, km) /\ m = n \union Repeats(due)
    BY <1>2, <1>8 DEF FullAck, SendKeys
  <2>2. b = a
    BY <1>4, <1>8
  <2>3. KmOk(t, j, m, f, a) /\ MessagesOk(t, j, m)
    BY <1>2, <1>3, <2>1, RepeatedIs DEF Well
  <2>4. Well(t, j, m, p, r, f, a)
    BY <1>6, <2>3 DEF Well
  <2>5. ASSUME SwitchDue(t) PROVE Well(s, j, m, p, r, f, a)
    <3>1. Switched(t, s)
      BY <1>3, <1>4, <2>5, ManageIs
    <3> QED
      BY <1>3, <2>4, <2>5, <3>1, SwitchKeeps
  <2>6. ASSUME PostSwitchDue(t) PROVE Well(s, j, m, p, r, f, a)
    <3>1. Ended(t, s)
      BY <1>3, <1>4, <2>6, ManageIs
    <3> QED
      BY <1>3, <2>4, <2>6, <3>1, PostSwitchKeeps
  <2>7. ASSUME ~SwitchDue(t), ~PostSwitchDue(t) PROVE Well(s, j, m, p, r, f, a)
    <3>1. s = t
      BY <1>3, <1>4, <1>8, <2>7, ManageIs
    <3> QED
      BY <2>4, <3>1
  <2>8. Well(s, j, m, p, r, f, b)
    BY <2>2, <2>5, <2>6, <2>7
  <2> QED
    BY <1>1, <1>2, <1>4, <2>8 DEF IInv
<1> QED
    BY <1>7, <1>8

\* Each step keeps the invariant.
LEMMA AllKeep == Prompt /\ Plenty /\ IInv /\ [Next]_vars => IInv'
<1> SUFFICES ASSUME Prompt, Plenty, IInv, [Next]_vars PROVE IInv'
    OBVIOUS
<1>1. CASE UNCHANGED vars
  <2>1. Inv'
    BY PromptTimely, Steps DEF IInv
  <2> QED
    BY <1>1, <2>1 DEF IInv, vars
<1> QED
    BY <1>1, EncryptKeeps, ReadFlagsKeeps, TimerKeeps, TakeKmReqKeeps, TakeKmRspKeeps, LoseKeeps, ReceiveKeeps,
       LiteAckKeeps, FullAckKeeps DEF Next

\* The handshake leaves the first key on both sides.
LEMMA KeysBegin == Prompt /\ Init => IInv
<1> SUFFICES ASSUME Prompt, Init PROVE IInv
    OBVIOUS
<1> USE Numbers, MoreNumbers
<1> DEFINE x == [key |-> 1, status |-> "active", announce |-> TRUE, cnt |-> 1]
           y == [key |-> 0, status |-> "sardy", announce |-> FALSE, cnt |-> 0]
           k == [keys |-> <<0, 0>>, retry |-> 0, state |-> "secured"]
<1>1. Inv
    BY Begins
<1>2. tx.pair = [p \in {0, 1} |-> IF p = 0 THEN x ELSE y] /\ Active(tx) = x /\ Other(tx) = y
    BY DEF Init, Parity, Active, Other, Alt
<1>3. /\ km = k /\ net = {} /\ out = <<>> /\ rx = <<1, 0>> /\ flags = NoFlags /\ "key" \notin garbled
      /\ since.announced = 0
    BY DEF Init
<1>4. KeyedOk(tx)
    BY <1>2 DEF KeyedOk, Keyed
<1>5. KmOk(tx, km, net, flags, 0)
    BY <1>3 DEF KmOk
<1>6. MessagesOk(tx, km, net)
    BY <1>3 DEF MessagesOk
<1>7. OutOk(tx, out, flags)
  <2>1. out \in Seq(Packets(tx)) /\ Len(out) = 0 /\ DOMAIN out = {}
    BY <1>3, EmptySeq
  <2> QED
    BY <2>1 DEF OutOk
<1>8. RxOk(tx, rx, out, flags, 0)
    BY <1>2, <1>3 DEF RxOk, BothKeys
<1> QED
    BY <1>1, <1>3, <1>4, <1>5, <1>6, <1>7, <1>8 DEF IInv, Well

\* A refresh of the keys (hcryptCtx_Tx_ManageKM, CCryptoControl) goes unnoticed: the
\* connection stays secured, and every packet that carries the flags of its key is
\* decrypted with it, if messages and acknowledgements are prompt.  Of a packet whose flags
\* were read before a switch and which was encrypted after it the theorem says nothing.
THEOREM UnnoticedHolds == ASSUME Prompt, Plenty PROVE Spec => []Unnoticed
<1>1. Init => IInv
    BY KeysBegin
<1>2. IInv /\ [Next]_vars => IInv'
    BY AllKeep
<1>3. IInv => Unnoticed
  <2>1. IInv => km = [keys |-> km.keys, retry |-> km.retry, state |-> "secured"]
    BY DEF IInv, Well, KmOk
  <2>2. IInv => km.state = "secured"
    BY <2>1
  <2> QED
    BY <2>2 DEF IInv, Unnoticed, KeysInTime, StaysSecured
<1> QED
    BY <1>1, <1>2, <1>3, PTL DEF Spec
=============================================================================
