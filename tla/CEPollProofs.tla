---------------------------- MODULE CEPollProofs ----------------------------
(***************************************************************************)
(* Machine-checked proofs about CEPoll, for every set of sockets, every    *)
(* wrap limit of the eid seed and every set of watch masks.                *)
(*                                                                         *)
(* All properties of the descriptor are properties of one Wait record, so  *)
(* the first part proves what each CEPollDesc operation does to one record *)
(* and the second lifts that to the table over the actions of Next.        *)
(***************************************************************************)
EXTENDS CEPoll, TLAPS

\* The level-triggered part of one record is complete.
Level(w) == (w.state \cap w.watch) \ w.edge \subseteq w.notice

\* The record's notice tells exactly of watched events that are on; the record
\* watches all events or is no entry at all.
Exact(w) ==
  /\ w.watch = {} \/ w.watch = Events
  /\ w.notice \subseteq w.state \cap w.watch

\* The only values a step gives a record: the results of the CEPollDesc operations.
\* The operations on a subscribed record keep what it watches.
Touched(w, v) ==
  \/ v = w
  \/ v = NoEntry
  \/ v = checkEdge(w)
  \/ \E evts \in WatchMasks, et \in BOOLEAN : v = subscribe(w, evts, et)
  \/ \E evts \in EnableMasks : w.watch # {} /\ v = applyEvents(w, evts, TRUE)
  \/ \E evts \in DisableMasks \cup {{"IN", "OUT"}} :
       w.watch # {} /\ v = applyEvents(w, evts, FALSE)

\* Every step treats every record by one of the CEPollDesc operations.
TouchedStep == \A e \in EIDs, u \in Socks : Touched(desc[e][u], desc'[e][u])

-----------------------------------------------------------------------------

\* The operations of epoll.h map records to records.
LEMMA TouchedType ==
  ASSUME NEW w \in Wait, NEW v, Touched(w, v)
  PROVE  v \in Wait
<1> USE DEF Wait, Events
<1>1. CASE v = w
  BY <1>1
<1>2. CASE v = NoEntry
  BY <1>2 DEF NoEntry
<1>3. CASE v = checkEdge(w)
  BY <1>3 DEF checkEdge, edgeOnly
<1>4. ASSUME NEW evts \in WatchMasks, NEW et \in BOOLEAN, v = subscribe(w, evts, et)
      PROVE  v \in Wait
  <2> DEFINE x == IF w.watch = {} THEN newWait(evts, et) ELSE reconfigure(w, evts, et)
  <2>1. x \in Wait
    BY WatchMasksAssumption DEF newWait, reconfigure, removeExcessEvents
  <2>2. v = addEventNotice(x, x.watch \cap x.state)
    BY <1>4 DEF subscribe
  <2> HIDE DEF x
  <2> QED
    BY <2>1, <2>2 DEF addEventNotice
<1>5. ASSUME NEW evts \in EnableMasks, v = applyEvents(w, evts, TRUE)
      PROVE  v \in Wait
  BY <1>5 DEF EnableMasks, applyEvents, updateEventNotice, addEventNotice
<1>6. ASSUME NEW evts \in DisableMasks \cup {{"IN", "OUT"}}, v = applyEvents(w, evts, FALSE)
      PROVE  v \in Wait
  BY <1>6 DEF DisableMasks, applyEvents, updateEventNotice, removeExcessEvents
<1> QED
  BY <1>1, <1>2, <1>3, <1>4, <1>5, <1>6 DEF Touched

\* The operations of epoll.h keep the level-triggered part of a record complete.
LEMMA TouchedLevel ==
  ASSUME NEW w \in Wait, NEW v, Level(w), Touched(w, v)
  PROVE  Level(v)
<1> USE DEF Wait, Events, Level
<1>1. CASE v = w
  BY <1>1
<1>2. CASE v = NoEntry
  BY <1>2 DEF NoEntry
<1>3. CASE v = checkEdge(w)
  BY <1>3 DEF checkEdge, edgeOnly
<1>4. ASSUME NEW evts \in WatchMasks, NEW et \in BOOLEAN, v = subscribe(w, evts, et)
      PROVE  Level(v)
  <2> DEFINE x == IF w.watch = {} THEN newWait(evts, et) ELSE reconfigure(w, evts, et)
  <2>1. x \in Wait
    BY WatchMasksAssumption DEF newWait, reconfigure, removeExcessEvents
  <2>2. v = addEventNotice(x, x.watch \cap x.state)
    BY <1>4 DEF subscribe
  <2> HIDE DEF x
  <2> QED
    BY <2>1, <2>2 DEF addEventNotice
<1>5. ASSUME NEW evts \in EnableMasks, v = applyEvents(w, evts, TRUE)
      PROVE  Level(v)
  BY <1>5 DEF EnableMasks, applyEvents, updateEventNotice, addEventNotice
<1>6. ASSUME NEW evts \in DisableMasks \cup {{"IN", "OUT"}}, v = applyEvents(w, evts, FALSE)
      PROVE  Level(v)
  BY <1>6 DEF DisableMasks, applyEvents, updateEventNotice, removeExcessEvents
<1> QED
  BY <1>1, <1>2, <1>3, <1>4, <1>5, <1>6 DEF Touched

\* With subscriptions to all three events only, the operations of epoll.h keep the
\* notice exact.
LEMMA TouchedExact ==
  ASSUME NEW w \in Wait, NEW v, Exact(w), Touched(w, v), WatchMasks \subseteq {Events}
  PROVE  Exact(v)
<1> USE DEF Wait, Events, Exact
<1>1. CASE v = w
  BY <1>1
<1>2. CASE v = NoEntry
  BY <1>2 DEF NoEntry
<1>3. CASE v = checkEdge(w)
  BY <1>3 DEF checkEdge, edgeOnly
<1>4. ASSUME NEW evts \in WatchMasks, NEW et \in BOOLEAN, v = subscribe(w, evts, et)
      PROVE  Exact(v)
  <2> DEFINE x == IF w.watch = {} THEN newWait(evts, et) ELSE reconfigure(w, evts, et)
  <2>1. evts = Events
    OBVIOUS
  <2>2. x \in Wait /\ Exact(x)
    BY <2>1 DEF newWait, reconfigure, removeExcessEvents
  <2>3. v = addEventNotice(x, x.watch \cap x.state)
    BY <1>4 DEF subscribe
  <2> HIDE DEF x
  <2> QED
    BY <2>2, <2>3 DEF addEventNotice
<1>5. ASSUME NEW evts \in EnableMasks, w.watch # {}, v = applyEvents(w, evts, TRUE)
      PROVE  Exact(v)
  BY <1>5 DEF EnableMasks, applyEvents, updateEventNotice, addEventNotice
<1>6. ASSUME NEW evts \in DisableMasks \cup {{"IN", "OUT"}}, w.watch # {},
             v = applyEvents(w, evts, FALSE)
      PROVE  Exact(v)
  BY <1>6 DEF DisableMasks, applyEvents, updateEventNotice, removeExcessEvents
<1> QED
  BY <1>1, <1>2, <1>3, <1>4, <1>5, <1>6 DEF Touched

\* A watched event that the operations of epoll.h turn on is in the notice.
LEMMA TouchedRise ==
  ASSUME NEW w \in Wait, NEW v, Touched(w, v)
  PROVE  (v.state \ w.state) \cap w.watch \subseteq v.notice
<1> USE DEF Wait, Events
<1>1. CASE v = w
  BY <1>1
<1>2. CASE v = NoEntry
  BY <1>2 DEF NoEntry
<1>3. CASE v = checkEdge(w)
  BY <1>3 DEF checkEdge, edgeOnly
<1>4. ASSUME NEW evts \in WatchMasks, NEW et \in BOOLEAN, v = subscribe(w, evts, et)
      PROVE  v.state \subseteq w.state
  <2> DEFINE x == IF w.watch = {} THEN newWait(evts, et) ELSE reconfigure(w, evts, et)
  <2>1. x \in Wait /\ x.state \subseteq w.state
    BY WatchMasksAssumption DEF newWait, reconfigure, removeExcessEvents
  <2>2. v = addEventNotice(x, x.watch \cap x.state)
    BY <1>4 DEF subscribe
  <2> HIDE DEF x
  <2> QED
    BY <2>1, <2>2 DEF addEventNotice
<1>5. ASSUME NEW evts \in EnableMasks, w.watch # {}, v = applyEvents(w, evts, TRUE)
      PROVE  (v.state \ w.state) \cap w.watch \subseteq v.notice
  BY <1>5 DEF EnableMasks, applyEvents, updateEventNotice, addEventNotice
<1>6. ASSUME NEW evts \in DisableMasks \cup {{"IN", "OUT"}}, w.watch # {},
             v = applyEvents(w, evts, FALSE)
      PROVE  v.state \subseteq w.state
  BY <1>6 DEF DisableMasks, applyEvents, updateEventNotice, removeExcessEvents
<1> QED
  BY <1>1, <1>2, <1>3, <1>4, <1>5, <1>6 DEF Touched

-----------------------------------------------------------------------------

\* Each action of Next treats every record of the table by one operation.
LEMMA NextTouches ==
  ASSUME TypeOK, [Next]_vars
  PROVE  TouchedStep
<1> SUFFICES ASSUME NEW f \in EIDs, NEW x \in Socks
             PROVE  Touched(desc[f][x], desc'[f][x])
  BY DEF TouchedStep
<1>0. desc \in [EIDs -> [Socks -> Wait]]
  BY DEF TypeOK
<1>1. CASE UNCHANGED desc
  BY <1>1 DEF Touched
<1>2. ASSUME NEW e \in EIDs, NEW u \in Socks, ClientPair(e, u)
      PROVE  Touched(desc[f][x], desc'[f][x])
  <2>1. ASSUME NEW evts \in WatchMasks, NEW et \in BOOLEAN, update_usock(e, u, evts, et)
        PROVE  Touched(desc[f][x], desc'[f][x])
    <3>1. desc' = [desc EXCEPT ![e][u] = subscribe(desc[e][u], evts, et)]
      BY <2>1 DEF update_usock
    <3>2. desc'[f][x] = IF f = e /\ x = u THEN subscribe(desc[e][u], evts, et) ELSE desc[f][x]
      BY <3>1, <1>0
    <3> QED
      BY <3>2 DEF Touched
  <2>2. CASE remove_usock(e, u)
    <3>1. desc'[f][x] = IF f = e /\ x = u THEN NoEntry ELSE desc[f][x]
      BY <2>2, <1>0 DEF remove_usock
    <3> QED
      BY <3>1 DEF Touched
  <2>3. CASE removeEPollClear(e, u)
    <3>1. \/ desc'[f][x] = desc[f][x]
          \/ /\ desc[e][u].watch # {} /\ f = e /\ x = u
             /\ desc'[f][x] = applyEvents(desc[e][u], {"IN", "OUT"}, FALSE)
      BY <2>3, <1>0 DEF removeEPollClear
    <3> QED
      BY <3>1 DEF Touched
  <2>4. CASE addEPoll(e, u) \/ removeEPollErase(e, u)
    BY <2>4, <1>1 DEF addEPoll, removeEPollErase
  <2> QED
    BY <1>2, <2>1, <2>2, <2>3, <2>4 DEF ClientPair
<1>3. ASSUME NEW e \in EIDs, ClientEid(e)
      PROVE  Touched(desc[f][x], desc'[f][x])
  <2>1. CASE release(e)
    <3>1. desc'[f][x] = NoEntry \/ desc'[f][x] = desc[f][x]
      BY <2>1, <1>0 DEF release
    <3> QED
      BY <3>1 DEF Touched
  <2>2. ASSUME NEW askR \in BOOLEAN, NEW askW \in BOOLEAN, wait(e, askR, askW)
        PROVE  Touched(desc[f][x], desc'[f][x])
    <3>1. desc' = [desc EXCEPT ![e] = [u \in Socks |-> checkEdge(desc[e][u])]]
      BY <2>2 DEF wait
    <3>2. desc'[f][x] = checkEdge(desc[f][x]) \/ desc'[f][x] = desc[f][x]
      BY <3>1, <1>0
    <3> QED
      BY <3>2 DEF Touched
  <2>3. ASSUME NEW n \in 0..MaxFds, NEW fds \in SUBSET Socks, uwait(e, n, fds)
        PROVE  Touched(desc[f][x], desc'[f][x])
    <3>1. desc' = [desc EXCEPT ![e] = [u \in Socks |->
                     IF u \in fds THEN checkEdge(desc[e][u]) ELSE desc[e][u]]]
      BY <2>3 DEF uwait
    <3>2. desc'[f][x] = checkEdge(desc[f][x]) \/ desc'[f][x] = desc[f][x]
      BY <3>1, <1>0
    <3> QED
      BY <3>2 DEF Touched
  <2>4. ASSUME NEW flags \in SUBSET FlagBits, setflags(e, flags)
        PROVE  Touched(desc[f][x], desc'[f][x])
    BY <2>4, <1>1 DEF setflags
  <2> QED
    BY <1>3, <2>1, <2>2, <2>3, <2>4 DEF ClientEid
<1>4. ASSUME NEW u \in Socks, Notify(u)
      PROVE  Touched(desc[f][x], desc'[f][x])
  <2>1. ASSUME NEW evts, NEW enable, update_events(u, evts, enable)
        PROVE  \/ desc'[f][x] = desc[f][x]
               \/ desc[f][x].watch # {} /\ desc'[f][x] = applyEvents(desc[f][x], evts, enable)
    BY <2>1, <1>0 DEF update_events
  <2>2. ASSUME NEW evts \in EnableMasks, update_events(u, evts, TRUE)
        PROVE  Touched(desc[f][x], desc'[f][x])
    BY <2>2, <2>1 DEF Touched
  <2>3. ASSUME NEW evts \in DisableMasks, update_events(u, evts, FALSE)
        PROVE  Touched(desc[f][x], desc'[f][x])
    BY <2>3, <2>1 DEF Touched
  <2> QED
    BY <1>4, <2>2, <2>3 DEF Notify
<1>5. CASE create
  BY <1>5, <1>1 DEF create
<1>6. CASE UNCHANGED vars
  BY <1>6, <1>1 DEF vars
<1> QED
  BY <1>2, <1>3, <1>4, <1>5, <1>6 DEF Next

-----------------------------------------------------------------------------

LEMMA InitType == Init => TypeOK
BY IdLimitAssumption DEF Init, TypeOK, EIDs, NoEntry, Wait

\* The conjuncts of TypeOK that are not about the table.
OtherType ==
  /\ m_iIDSeed \in EIDs
  /\ m_mPolls \subseteq EIDs
  /\ m_Flags \in [EIDs -> SUBSET FlagBits]
  /\ m_sPollID \in [Socks -> SUBSET EIDs]
  /\ adding \subseteq EIDs \X Socks
  /\ clearing \subseteq EIDs \X Socks
  /\ erasing \subseteq EIDs \X Socks

\* TypeOK is inductive.
LEMMA NextType ==
  ASSUME TypeOK, [Next]_vars
  PROVE  TypeOK'
<1>1. TouchedStep
  BY NextTouches
<1>2. desc' = [e \in EIDs |-> [u \in Socks |-> desc'[e][u]]]
  <2> USE DEF TypeOK
  <2>1. ASSUME NEW e \in EIDs, NEW u \in Socks, ClientPair(e, u)
        PROVE  desc' = [f \in EIDs |-> [x \in Socks |-> desc'[f][x]]]
    BY <2>1 DEF ClientPair, update_usock, addEPoll, remove_usock, removeEPollClear, removeEPollErase
  <2>2. ASSUME NEW e \in EIDs, ClientEid(e)
        PROVE  desc' = [f \in EIDs |-> [x \in Socks |-> desc'[f][x]]]
    <3>0. \A u \in Socks : desc[e][u] \in Wait /\ checkEdge(desc[e][u]) \in Wait
      BY TouchedType DEF Touched
    <3>1. ASSUME release(e)
          PROVE  \E row \in [Socks -> Wait] : desc' = [desc EXCEPT ![e] = row]
      <4> DEFINE row == [u \in Socks |-> NoEntry]
      <4>1. row \in [Socks -> Wait]
        BY <3>0 DEF NoEntry, Wait
      <4>2. desc' = [desc EXCEPT ![e] = row]
        BY <3>1 DEF release
      <4> HIDE DEF row
      <4> QED
        BY <4>1, <4>2
    <3>2. ASSUME NEW askR \in BOOLEAN, NEW askW \in BOOLEAN, wait(e, askR, askW)
          PROVE  \E row \in [Socks -> Wait] : desc' = [desc EXCEPT ![e] = row]
      <4> DEFINE row == [u \in Socks |-> checkEdge(desc[e][u])]
      <4>1. row \in [Socks -> Wait]
        BY <3>0 DEF NoEntry, Wait
      <4>2. desc' = [desc EXCEPT ![e] = row]
        BY <3>2 DEF wait
      <4> HIDE DEF row
      <4> QED
        BY <4>1, <4>2
    <3>3. ASSUME NEW n \in 0..MaxFds, NEW fds \in SUBSET Socks, uwait(e, n, fds)
          PROVE  \E row \in [Socks -> Wait] : desc' = [desc EXCEPT ![e] = row]
      <4> DEFINE row == [u \in Socks |-> IF u \in fds THEN checkEdge(desc[e][u]) ELSE desc[e][u]]
      <4>1. row \in [Socks -> Wait]
        BY <3>0 DEF NoEntry, Wait
      <4>2. desc' = [desc EXCEPT ![e] = row]
        BY <3>3 DEF uwait
      <4> HIDE DEF row
      <4> QED
        BY <4>1, <4>2
    <3>4. ASSUME NEW flags \in SUBSET FlagBits, setflags(e, flags)
          PROVE  UNCHANGED desc
      BY <3>4 DEF setflags
    <3>5. ASSUME NEW row \in [Socks -> Wait], desc' = [desc EXCEPT ![e] = row]
          PROVE  desc' \in [EIDs -> [Socks -> Wait]]
      BY <3>5
    <3>6. desc' \in [EIDs -> [Socks -> Wait]]
      BY <2>2, <3>1, <3>2, <3>3, <3>4, <3>5 DEF ClientEid
    <3> QED
      BY <3>6
  <2>3. ASSUME NEW u \in Socks, Notify(u)
        PROVE  desc' = [f \in EIDs |-> [x \in Socks |-> desc'[f][x]]]
    <3>1. ASSUME NEW evts, NEW enable, update_events(u, evts, enable)
          PROVE  desc' = [f \in EIDs |-> [x \in Socks |-> desc'[f][x]]]
      <4>1. \A f \in EIDs : DOMAIN desc'[f] = Socks /\ desc'[f] = [x \in Socks |-> desc'[f][x]]
        BY <3>1 DEF update_events
      <4>2. desc' = [f \in EIDs |-> desc'[f]]
        BY <3>1 DEF update_events
      <4> QED
        BY <4>1, <4>2
    <3> QED
      BY <2>3, <3>1 DEF Notify
  <2> QED
    BY <2>1, <2>2, <2>3 DEF Next, create, vars
<1>3. desc' \in [EIDs -> [Socks -> Wait]]
  <2>1. ASSUME NEW e \in EIDs, NEW u \in Socks
        PROVE  desc'[e][u] \in Wait
    <3>1. desc[e][u] \in Wait
      BY DEF TypeOK
    <3> QED
      BY <1>1, <3>1, TouchedType DEF TouchedStep
  <2> QED
    BY <1>2, <2>1
<1>4. OtherType'
  <2> USE DEF TypeOK, OtherType
  <2>1. ASSUME NEW e \in EIDs, NEW u \in Socks, ClientPair(e, u)
        PROVE  OtherType'
    <3>1. ASSUME NEW evts \in WatchMasks, NEW et \in BOOLEAN, update_usock(e, u, evts, et)
          PROVE  OtherType'
      BY <3>1 DEF update_usock
    <3>2. CASE addEPoll(e, u)
      BY <3>2 DEF addEPoll
    <3>3. CASE remove_usock(e, u)
      BY <3>3 DEF remove_usock
    <3>4. CASE removeEPollClear(e, u)
      BY <3>4 DEF removeEPollClear
    <3>5. CASE removeEPollErase(e, u)
      BY <3>5 DEF removeEPollErase
    <3> QED
      BY <2>1, <3>1, <3>2, <3>3, <3>4, <3>5 DEF ClientPair
  <2>2. ASSUME NEW e \in EIDs, ClientEid(e)
        PROVE  OtherType'
    <3>1. ASSUME NEW flags \in SUBSET FlagBits, setflags(e, flags)
          PROVE  OtherType'
      BY <3>1 DEF setflags
    <3>2. CASE release(e)
      BY <3>2 DEF release
    <3>3. ASSUME NEW askR \in BOOLEAN, NEW askW \in BOOLEAN, wait(e, askR, askW)
          PROVE  OtherType'
      BY <3>3 DEF wait
    <3>4. ASSUME NEW n \in 0..MaxFds, NEW fds \in SUBSET Socks, uwait(e, n, fds)
          PROVE  OtherType'
      BY <3>4 DEF uwait
    <3> QED
      BY <2>2, <3>1, <3>2, <3>3, <3>4 DEF ClientEid
  <2>3. ASSUME NEW u \in Socks, Notify(u)
        PROVE  OtherType'
    <3>1. ASSUME NEW evts, NEW enable, update_events(u, evts, enable)
          PROVE  OtherType'
      <4>1. /\ m_sPollID' = [m_sPollID EXCEPT ![u] = @ \cap m_mPolls]
            /\ UNCHANGED <<m_iIDSeed, m_mPolls, m_Flags, adding, clearing, erasing>>
        BY <3>1 DEF update_events
      <4>2. m_sPollID' \in [Socks -> SUBSET EIDs]
        BY <4>1
      <4> QED
        BY <4>1, <4>2
    <3> HIDE DEF OtherType, TypeOK
    <3> QED
      BY <2>3, <3>1 DEF Notify
  <2>4. CASE create
    BY <2>4, IdLimitAssumption DEF create, nextSeed, EIDs
  <2>5. CASE UNCHANGED vars
    BY <2>5 DEF vars
  <2> HIDE DEF OtherType
  <2> QED
    BY <2>1, <2>2, <2>3, <2>4, <2>5 DEF Next
<1> QED
  BY <1>3, <1>4 DEF TypeOK, OtherType

\* Type correctness of the event poll, for every behaviour of clients and library
\* threads.
THEOREM TypeCorrect == Spec => []TypeOK
<1>1. TypeOK /\ [Next]_vars => TypeOK'
  BY NextType
<1> QED
  BY <1>1, InitType, PTL DEF Spec

\* No level-triggered event is ever missed: the table is complete in every
\* reachable state (epoll.cpp update_usock and update_events, epoll.h checkEdge).
THEOREM LevelSafe == Spec => []LevelNeverMissed
<1> DEFINE Inv == TypeOK /\ LevelNeverMissed
<1>1. Init => Inv
  <2> SUFFICES ASSUME Init PROVE LevelNeverMissed
    BY InitType
  <2> QED
    BY DEF Init, LevelNeverMissed, NoEntry
<1>2. Inv /\ [Next]_vars => Inv'
  <2> SUFFICES ASSUME Inv, [Next]_vars, NEW e \in EIDs, NEW u \in Socks
               PROVE  Level(desc'[e][u])
    BY NextType DEF LevelNeverMissed, Level
  <2>1. desc[e][u] \in Wait /\ Level(desc[e][u])
    BY DEF TypeOK, LevelNeverMissed, Level
  <2>2. Touched(desc[e][u], desc'[e][u])
    BY NextTouches DEF TouchedStep
  <2> QED
    BY <2>1, <2>2, TouchedLevel
<1> QED
  BY <1>1, <1>2, PTL DEF Spec

\* When clients subscribe to all three events only, as every channel of
\* ClientChannel.swift does, no client is ever told of an event that is off.
THEOREM ExactSafe ==
  ASSUME WatchMasks \subseteq {Events}
  PROVE  Spec => []NoticeExact
<1> DEFINE AllExact == \A e \in EIDs, u \in Socks : Exact(desc[e][u])
           Inv == TypeOK /\ AllExact
<1>1. Init => Inv
  <2> SUFFICES ASSUME Init PROVE AllExact
    BY InitType
  <2> QED
    BY DEF Init, Exact, NoEntry
<1>2. Inv /\ [Next]_vars => Inv'
  <2> SUFFICES ASSUME Inv, [Next]_vars, NEW e \in EIDs, NEW u \in Socks
               PROVE  Exact(desc'[e][u])
    BY NextType DEF Exact
  <2>1. desc[e][u] \in Wait /\ Exact(desc[e][u])
    BY DEF TypeOK
  <2>2. Touched(desc[e][u], desc'[e][u])
    BY NextTouches DEF TouchedStep
  <2> QED
    BY <2>1, <2>2, TouchedExact
<1>3. Inv => NoticeExact
  BY DEF NoticeExact, Exact
<1> QED
  BY <1>1, <1>2, <1>3, PTL DEF Spec

\* Every rise of a watched event is noticed in the step that makes it (epoll.cpp
\* update_events), whatever else the subscription went through.
THEOREM RiseSafe == Spec => RiseIsNoticed
<1>1. TypeOK /\ [Next]_vars =>
        [\A e \in EIDs, u \in Socks :
           (desc'[e][u].state \ desc[e][u].state) \cap desc[e][u].watch
             \subseteq desc'[e][u].notice]_vars
  <2> SUFFICES ASSUME TypeOK, [Next]_vars, NEW e \in EIDs, NEW u \in Socks
               PROVE  (desc'[e][u].state \ desc[e][u].state) \cap desc[e][u].watch
                        \subseteq desc'[e][u].notice
    OBVIOUS
  <2>1. desc[e][u] \in Wait
    BY DEF TypeOK
  <2>2. Touched(desc[e][u], desc'[e][u])
    BY NextTouches DEF TouchedStep
  <2> QED
    BY <2>1, <2>2, TouchedRise
<1> QED
  BY <1>1, TypeCorrect, PTL DEF Spec, RiseIsNoticed

-----------------------------------------------------------------------------
(* Deaf subscriptions.  NoDeafSubscription is not inductive: the step that *)
(* drops a dead eid from m_sPollID needs that dead eids have no table      *)
(* entries, and the end of removeEPoll that the entry has stayed away      *)
(* since remove_usock.                                                     *)

DeafInv ==
  /\ NoDeafSubscription
  /\ \A e \in EIDs, u \in Socks : desc[e][u].watch # {} => e \in m_mPolls
  /\ \A e \in EIDs, u \in Socks :
       <<e, u>> \in clearing \cup erasing => desc[e][u].watch = {}

\* Once epoll_add_usock has returned, the library keeps the subscription up to date:
\* no interleaving of removals, releases and reused eid numbers leaves one deaf.
THEOREM DeafSafe == Spec => []NoDeafSubscription
<1> DEFINE Inv == TypeOK /\ DeafInv
<1>1. Init => Inv
  <2> SUFFICES ASSUME Init PROVE DeafInv
    BY InitType
  <2> QED
    BY DEF Init, DeafInv, NoDeafSubscription, NoEntry
<1>2. Inv /\ [Next]_vars => Inv'
  <2> SUFFICES ASSUME Inv, [Next]_vars
               PROVE  DeafInv'
    BY NextType
  <2> USE DEF DeafInv, NoDeafSubscription, Idle
  <2>0. desc \in [EIDs -> [Socks -> Wait]] /\ m_sPollID \in [Socks -> SUBSET EIDs]
    BY DEF TypeOK
  <2>1. ASSUME NEW e \in EIDs, NEW u \in Socks, NEW evts \in WatchMasks, NEW et \in BOOLEAN,
               update_usock(e, u, evts, et)
        PROVE  DeafInv'
    <3>1. \A f \in EIDs, x \in Socks :
            desc'[f][x] = IF f = e /\ x = u THEN subscribe(desc[e][u], evts, et) ELSE desc[f][x]
      <4>1. desc' = [desc EXCEPT ![e][u] = subscribe(desc[e][u], evts, et)]
        BY <2>1 DEF update_usock
      <4> QED
        BY <4>1, <2>0
    <3> QED
      BY <2>1, <3>1 DEF update_usock
  <2>2. ASSUME NEW e \in EIDs, NEW u \in Socks, addEPoll(e, u)
        PROVE  DeafInv'
    BY <2>2, <2>0 DEF addEPoll
  <2>3. ASSUME NEW e \in EIDs, NEW u \in Socks, remove_usock(e, u)
        PROVE  DeafInv'
    BY <2>3, <2>0 DEF remove_usock, NoEntry
  <2>4. ASSUME NEW e \in EIDs, NEW u \in Socks, removeEPollClear(e, u)
        PROVE  DeafInv'
    BY <2>4, <2>0 DEF removeEPollClear
  <2>5. ASSUME NEW e \in EIDs, NEW u \in Socks, removeEPollErase(e, u)
        PROVE  DeafInv'
    BY <2>5, <2>0 DEF removeEPollErase
  <2>6. ASSUME NEW e \in EIDs, release(e)
        PROVE  DeafInv'
    BY <2>6, <2>0 DEF release, NoEntry
  <2>7. ASSUME NEW e \in EIDs, NEW askR \in BOOLEAN, NEW askW \in BOOLEAN, wait(e, askR, askW)
        PROVE  DeafInv'
    <3>1. desc' = [desc EXCEPT ![e] = [u \in Socks |-> checkEdge(desc[e][u])]]
      BY <2>7 DEF wait
    <3>2. \A f \in EIDs, x \in Socks : desc'[f][x].watch = desc[f][x].watch
      BY <3>1, <2>0 DEF checkEdge, Wait
    <3> QED
      BY <2>7, <3>2 DEF wait
  <2>8. ASSUME NEW e \in EIDs, NEW n \in 0..MaxFds, NEW fds \in SUBSET Socks, uwait(e, n, fds)
        PROVE  DeafInv'
    <3>1. desc' = [desc EXCEPT ![e] = [u \in Socks |->
                     IF u \in fds THEN checkEdge(desc[e][u]) ELSE desc[e][u]]]
      BY <2>8 DEF uwait
    <3>2. \A f \in EIDs, x \in Socks : desc'[f][x].watch = desc[f][x].watch
      BY <3>1, <2>0 DEF checkEdge, Wait
    <3> QED
      BY <2>8, <3>2 DEF uwait
  <2>9. ASSUME NEW u \in Socks, NEW evts, NEW enable, update_events(u, evts, enable)
        PROVE  DeafInv'
    <3>1. \A f \in EIDs, x \in Socks :
            \/ desc'[f][x] = desc[f][x]
            \/ x = u /\ desc'[f][x] = applyEvents(desc[f][x], evts, enable)
      BY <2>9, <2>0 DEF update_events
    <3>2. \A f \in EIDs, x \in Socks : desc'[f][x].watch = desc[f][x].watch
      <4>1. ASSUME NEW w \in Wait
            PROVE  applyEvents(w, evts, enable).watch = w.watch
        BY DEF applyEvents, updateEventNotice, addEventNotice, removeExcessEvents, Wait
      <4> QED
        BY <3>1, <4>1, <2>0
    <3> QED
      BY <2>9, <3>2, <2>0 DEF update_events
  <2>10. ASSUME NEW e \in EIDs, NEW flags \in SUBSET FlagBits, setflags(e, flags)
         PROVE  DeafInv'
    BY <2>10 DEF setflags
  <2>11. CASE create
    BY <2>11 DEF create
  <2>12. CASE UNCHANGED vars
    BY <2>12 DEF vars
  <2> HIDE DEF DeafInv
  <2> QED
    BY <2>1, <2>2, <2>3, <2>4, <2>5, <2>6, <2>7, <2>8, <2>9, <2>10, <2>11, <2>12
       DEF Next, ClientPair, ClientEid, Notify
<1>3. Inv => NoDeafSubscription
  BY DEF DeafInv
<1> QED
  BY <1>1, <1>2, <1>3, PTL DEF Spec

=============================================================================
