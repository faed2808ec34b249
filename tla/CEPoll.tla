------------------------------- MODULE CEPoll -------------------------------
(***************************************************************************)
(* The event poll of the SRT library: class CEPoll (epoll.cpp) and its     *)
(* descriptor CEPollDesc (epoll.h), together with the two places that feed *)
(* it, CUDTUnited::epoll_add_usock & co. (api.cpp) and CUDT::addEPoll,     *)
(* CUDT::removeEPoll and the update_events call sites (core.cpp).          *)
(*                                                                         *)
(* A descriptor maps a socket to its Wait object (module EPollDesc).  The  *)
(* order of the notice list matters only to uwait with a short array;      *)
(* uwait reports any of the selections that some order would give.         *)
(*                                                                         *)
(* Every method runs under m_EPollLock and is one action.  The calls that  *)
(* take the lock more than once (epoll_add_usock, epoll_remove_usock) are  *)
(* split there; adding, clearing and erasing hold the calls in between.    *)
(***************************************************************************)
EXTENDS EPollDesc, Naturals, FiniteSets

CONSTANTS
  Socks,       \* SRT socket ids
  IdLimit,     \* the value at which m_iIDSeed wraps (0x7FFFFFFF in the code)
  WatchMasks,  \* the event masks clients subscribe with
  MaxFds       \* bound: largest fdsSize a client passes to uwait

EIDs == 0..(IdLimit - 1)
FlagBits == {"ENABLE_EMPTY", "ENABLE_OUTPUTCHECK"}

ASSUME IdLimitAssumption == IdLimit \in Nat \ {0}
ASSUME WatchMasksAssumption == WatchMasks \subseteq (SUBSET Events) \ {{}}
ASSUME MaxFdsAssumption == MaxFds \in Nat

VARIABLES
  m_iIDSeed,  \* last eid handed out
  m_mPolls,   \* live eids
  desc,       \* desc[e][u]: the Wait object of socket u in descriptor e
  m_Flags,    \* m_Flags[e]: special-behaviour bits of descriptor e
  m_sPollID,  \* m_sPollID[u]: the eids socket u believes it is subscribed in
  adding,     \* <<e, u>> between add_usock and addEPoll
  clearing,   \* <<e, u>> between remove_usock and removeEPoll's first section
  erasing,    \* <<e, u>> between the two sections of removeEPoll
  ret         \* what the call made by this step returned to a waiting client

vars == <<m_iIDSeed, m_mPolls, desc, m_Flags, m_sPollID,
          adding, clearing, erasing, ret>>

NoRet == [op |-> "none", eid |-> 0, size |-> 0, total |-> 0,
          rd |-> {}, wr |-> {}]

TypeOK ==
  /\ m_iIDSeed \in EIDs
  /\ m_mPolls \subseteq EIDs
  /\ desc \in [EIDs -> [Socks -> Wait]]
  /\ m_Flags \in [EIDs -> SUBSET FlagBits]
  /\ m_sPollID \in [Socks -> SUBSET EIDs]
  /\ adding \subseteq EIDs \X Socks
  /\ clearing \subseteq EIDs \X Socks
  /\ erasing \subseteq EIDs \X Socks

Init ==
  /\ m_iIDSeed = 0
  /\ m_mPolls = {}
  /\ desc = [e \in EIDs |-> [u \in Socks |-> NoEntry]]
  /\ m_Flags = [e \in EIDs |-> {}]
  /\ m_sPollID = [u \in Socks |-> {}]
  /\ adding = {} /\ clearing = {} /\ erasing = {}
  /\ ret = NoRet

-----------------------------------------------------------------------------
(* CEPoll and CUDTUnited: the calls of a client.                           *)

nextSeed == IF m_iIDSeed + 1 >= IdLimit THEN 0 ELSE m_iIDSeed + 1

\* CEPoll::create; with the next id still in use it throws, having moved the seed.
create ==
  /\ m_iIDSeed' = nextSeed
  /\ m_mPolls' = m_mPolls \cup {nextSeed}
  /\ ret' = NoRet
  /\ UNCHANGED <<desc, m_Flags, m_sPollID, adding, clearing, erasing>>

\* One thread at a time works on one (eid, socket) pair: EventLoop.swift does all
\* its registrations on pollQueue.
Idle(e, u) == <<e, u>> \notin adding \cup clearing \cup erasing

\* epoll_add_usock and epoll_update_usock, up to the call of addEPoll.
update_usock(e, u, evts, et) ==
  /\ e \in m_mPolls
  /\ Idle(e, u)
  /\ desc' = [desc EXCEPT ![e][u] = subscribe(@, evts, et)]
  /\ adding' = adding \cup {<<e, u>>}
  /\ ret' = NoRet
  /\ UNCHANGED <<m_iIDSeed, m_mPolls, m_Flags, m_sPollID, clearing, erasing>>

addEPoll(e, u) ==
  /\ <<e, u>> \in adding
  /\ m_sPollID' = [m_sPollID EXCEPT ![u] = @ \cup {e}]
  /\ adding' = adding \ {<<e, u>>}
  /\ ret' = NoRet
  /\ UNCHANGED <<m_iIDSeed, m_mPolls, desc, m_Flags, clearing, erasing>>

\* epoll_remove_usock, up to the call of removeEPoll: removeSubscription.
remove_usock(e, u) ==
  /\ e \in m_mPolls
  /\ Idle(e, u)
  /\ desc' = [desc EXCEPT ![e][u] = NoEntry]
  /\ clearing' = clearing \cup {<<e, u>>}
  /\ ret' = NoRet
  /\ UNCHANGED <<m_iIDSeed, m_mPolls, m_Flags, m_sPollID, adding, erasing>>

\* removeEPoll, first section: IN and OUT off in eid e alone.
removeEPollClear(e, u) ==
  /\ <<e, u>> \in clearing
  /\ desc' = IF e \in m_mPolls /\ desc[e][u].watch # {}
             THEN [desc EXCEPT ![e][u] = applyEvents(@, {"IN", "OUT"}, FALSE)]
             ELSE desc
  /\ clearing' = clearing \ {<<e, u>>}
  /\ erasing' = erasing \cup {<<e, u>>}
  /\ ret' = NoRet
  /\ UNCHANGED <<m_iIDSeed, m_mPolls, m_Flags, m_sPollID, adding>>

\* removeEPoll, second section.
removeEPollErase(e, u) ==
  /\ <<e, u>> \in erasing
  /\ m_sPollID' = [m_sPollID EXCEPT ![u] = @ \ {e}]
  /\ erasing' = erasing \ {<<e, u>>}
  /\ ret' = NoRet
  /\ UNCHANGED <<m_iIDSeed, m_mPolls, desc, m_Flags, adding, clearing>>

\* flags = -1 only reads; 0 clears every bit; anything else adds its bits.
setflags(e, flags) ==
  /\ e \in m_mPolls
  /\ m_Flags' = [m_Flags EXCEPT ![e] = IF flags = {} THEN {} ELSE @ \cup flags]
  /\ ret' = NoRet
  /\ UNCHANGED <<m_iIDSeed, m_mPolls, desc, m_sPollID, adding, clearing, erasing>>

\* Variant: the descriptor's table survives the release of its id.
releaseKeepsTable(e) ==
  /\ e \in m_mPolls
  /\ m_mPolls' = m_mPolls \ {e}
  /\ m_Flags' = [m_Flags EXCEPT ![e] = {}]
  /\ ret' = NoRet
  /\ UNCHANGED <<m_iIDSeed, desc, m_sPollID, adding, clearing, erasing>>

release(e) ==
  /\ e \in m_mPolls
  /\ m_mPolls' = m_mPolls \ {e}
  /\ desc' = [desc EXCEPT ![e] = [u \in Socks |-> NoEntry]]
  /\ m_Flags' = [m_Flags EXCEPT ![e] = {}]
  /\ ret' = NoRet
  /\ UNCHANGED <<m_iIDSeed, m_sPollID, adding, clearing, erasing>>

watch_empty(e) == \A u \in Socks : desc[e][u].watch = {}

\* The sockets of a list of notices reported for reading and for writing: a
\* socket with an exception is in both.
Reported(e, from, ev) ==
  {u \in from : desc[e][u].notice \cap {ev, "ERR"} # {}}

Noticed(e) == {u \in Socks : desc[e][u].notice # {}}

\* One round of CEPoll::wait under the lock.  askR (askW) is FALSE when the client
\* passes no read (write) set: its events are then consumed and not reported.
wait(e, askR, askW) ==
  LET rd == IF askR THEN Reported(e, Socks, "IN") ELSE {}
      wr == IF askW THEN Reported(e, Socks, "OUT") ELSE {}
      total == Cardinality(rd) + Cardinality(wr)
  IN  /\ e \in m_mPolls
      /\ "ENABLE_EMPTY" \in m_Flags[e] \/ ~watch_empty(e)
      /\ "ENABLE_OUTPUTCHECK" \in m_Flags[e] => watch_empty(e) \/ (askR /\ askW)
      /\ desc' = [desc EXCEPT ![e] = [u \in Socks |-> checkEdge(@[u])]]
      /\ ret' = IF total = 0 THEN NoRet
                ELSE [op |-> "wait", eid |-> e, size |-> 0, total |-> total,
                      rd |-> rd, wr |-> wr]
      /\ UNCHANGED <<m_iIDSeed, m_mPolls, m_Flags, m_sPollID, adding, clearing, erasing>>

\* CEPoll::uwait with an array of n entries: the loop stops at the (n+1)-th notice.
uwait(e, n, fds) ==
  /\ e \in m_mPolls
  /\ "ENABLE_EMPTY" \in m_Flags[e] \/ ~watch_empty(e)
  /\ "ENABLE_OUTPUTCHECK" \in m_Flags[e] => n > 0
  /\ fds \subseteq Noticed(e)
  /\ Cardinality(fds) = IF Cardinality(Noticed(e)) > n THEN n ELSE Cardinality(Noticed(e))
  /\ desc' = [desc EXCEPT ![e] =
                [u \in Socks |-> IF u \in fds THEN checkEdge(@[u]) ELSE @[u]]]
  /\ ret' = IF Noticed(e) = {} THEN NoRet
            ELSE [op |-> "uwait", eid |-> e, size |-> n,
                  total |-> IF Cardinality(Noticed(e)) > n THEN n + 1
                            ELSE Cardinality(fds),
                  rd |-> Reported(e, fds, "IN"), wr |-> Reported(e, fds, "OUT")]
  /\ UNCHANGED <<m_iIDSeed, m_mPolls, m_Flags, m_sPollID, adding, clearing, erasing>>

-----------------------------------------------------------------------------
(* The library's threads: update_events over the eids of the socket.  The  *)
(* eids that no longer exist leave m_sPollID ("lost").                     *)

update_events(u, evts, enable) ==
  /\ desc' = [e \in EIDs |->
                IF e \in m_sPollID[u] \cap m_mPolls /\ desc[e][u].watch # {}
                THEN [desc[e] EXCEPT ![u] = applyEvents(@, evts, enable)]
                ELSE desc[e]]
  /\ m_sPollID' = [m_sPollID EXCEPT ![u] = @ \cap m_mPolls]
  /\ ret' = NoRet
  /\ UNCHANGED <<m_iIDSeed, m_mPolls, m_Flags, adding, clearing, erasing>>

\* Data ready, connection queued, ACKed space, error; all three in checkExpTimer.
EnableMasks == {{"IN"}, {"OUT"}, {"ERR"}, Events}
\* Buffer drained or filled, accept queue empty; all three in removeSocket.
DisableMasks == {{"IN"}, {"OUT"}, Events}

Notify(u) ==
  \/ \E evts \in EnableMasks : update_events(u, evts, TRUE)
  \/ \E evts \in DisableMasks : update_events(u, evts, FALSE)

ClientPair(e, u) ==
  \/ \E evts \in WatchMasks, et \in BOOLEAN : update_usock(e, u, evts, et)
  \/ addEPoll(e, u)
  \/ remove_usock(e, u)
  \/ removeEPollClear(e, u)
  \/ removeEPollErase(e, u)

ClientEid(e) ==
  \/ \E flags \in SUBSET FlagBits : setflags(e, flags)
  \/ release(e)
  \/ \E askR, askW \in BOOLEAN : wait(e, askR, askW)
  \/ \E n \in 0..MaxFds, fds \in SUBSET Socks : uwait(e, n, fds)

Next ==
  \/ create
  \/ \E e \in EIDs : ClientEid(e)
  \/ \E e \in EIDs, u \in Socks : ClientPair(e, u)
  \/ \E u \in Socks : Notify(u)

Spec == Init /\ [][Next]_vars

-----------------------------------------------------------------------------
(* Properties.                                                             *)

\* A level-triggered event a client watches is never missed: as long as it is on,
\* the descriptor holds a notice with it, whatever subscriptions, waits and
\* updates came before (epoll.cpp update_usock, update_events, epoll.h checkEdge).
LevelNeverMissed ==
  \A e \in EIDs, u \in Socks :
    (desc[e][u].state \cap desc[e][u].watch) \ desc[e][u].edge \subseteq desc[e][u].notice

\* A subscription the library will not update is a deaf one: once epoll_add_usock
\* is done, the socket's own list holds every eid that has it in its table, also
\* after eids were released and their numbers handed out again (epoll.cpp
\* update_events drops eids from m_sPollID, core.cpp addEPoll and removeEPoll).
NoDeafSubscription ==
  \A e \in EIDs, u \in Socks :
    desc[e][u].watch # {} /\ Idle(e, u) => e \in m_sPollID[u]

\* An event leaves a notice only for a reason: it went off, the client stopped
\* watching it, the descriptor was released, or it was edge-triggered and the
\* client's wait call was given it.  With ENABLE_OUTPUTCHECK that last case really
\* hands it out; without, a client that passes no set for it loses it.
NoticeLossJustified ==
  [][\A e \in EIDs, u \in Socks :
       \A ev \in desc[e][u].notice \ desc'[e][u].notice :
         \/ ev \notin desc'[e][u].state
         \/ ev \notin desc'[e][u].watch
         \/ /\ ev \in edgeOnly(desc[e][u])
            /\ "ENABLE_OUTPUTCHECK" \in m_Flags[e] =>
                 /\ ret'.eid = e
                 /\ ev \in {"IN", "ERR"} => u \in ret'.rd
                 /\ ev \in {"OUT", "ERR"} => u \in ret'.wr]_vars

\* Every rise of a watched event is noticed in the step that makes it, edge- or
\* level-triggered (epoll.cpp update_events).
RiseIsNoticed ==
  [][\A e \in EIDs, u \in Socks :
       (desc'[e][u].state \ desc[e][u].state) \cap desc[e][u].watch
         \subseteq desc'[e][u].notice]_vars

\* A client is never told of an event that is off or that it did not ask for.  True
\* when every subscription watches all three events, as the channels of
\* ClientChannel.swift do; see OnlyWatchedNoticed for the other masks.
NoticeExact ==
  \A e \in EIDs, u \in Socks :
    desc[e][u].notice \subseteq desc[e][u].state \cap desc[e][u].watch

\* What the comment on Wait::watch says (epoll.h:87-88): only the watched events are
\* regarded when event flags are updated.
OnlyWatchedNoticed ==
  \A e \in EIDs, u \in Socks : desc[e][u].notice \subseteq desc[e][u].watch

\* What the comment in update_usock says of a changed subscription (epoll.cpp:278):
\* it looks exactly like a newly added one, its edge mask included.
ResubscribedLooksNew ==
  [][\A e \in EIDs, u \in Socks, evts \in WatchMasks, et \in BOOLEAN :
       update_usock(e, u, evts, et) =>
         desc'[e][u].edge = newWait(evts, et).edge]_vars

\* What the comment on uwait says it returns (epoll.h:363): the total of available
\* events in the epoll system.
UWaitReturnsTotal ==
  [][ret'.op = "uwait" => ret'.total = Cardinality(Noticed(ret'.eid))]_vars

\* What the comment in update_events says (epoll.cpp:694): an eid mapped in the
\* socket's data without a subscription is impossible.
MappedIsSubscribed ==
  \A u \in Socks : \A e \in m_sPollID[u] \cap m_mPolls : desc[e][u].watch # {}

=============================================================================
