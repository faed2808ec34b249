----------------------------- MODULE EPollDesc ------------------------------
(***************************************************************************)
(* One subscription of an epoll descriptor: CEPollDesc::Wait with its      *)
(* Notice (epoll.h), and the bodies of update_usock and update_events      *)
(* (epoll.cpp) for it.                                                     *)
(*                                                                         *)
(* A record whose watch is empty stands for "no entry in                   *)
(* m_USockWatchState": update_usock with no events removes the entry, so a *)
(* stored entry always watches something.  The Notice a Wait points to is  *)
(* the component notice; the empty set stands for nullNotice().            *)
(***************************************************************************)

Events == {"IN", "OUT", "ERR"}

Wait == [watch: SUBSET Events, edge: SUBSET Events,
         state: SUBSET Events, notice: SUBSET Events]

NoEntry == [watch |-> {}, edge |-> {}, state |-> {}, notice |-> {}]

edgeOnly(w) == w.edge \cap w.watch

newWait(evts, et) ==
  [watch |-> evts, edge |-> IF et THEN evts ELSE {}, state |-> {}, notice |-> {}]

\* Variant: an existing notice is left as it is instead of gaining the new bits.
addEventNoticeOnce(w, evts) ==
  IF w.notice = {} THEN [w EXCEPT !.notice = evts] ELSE w

addEventNotice(w, evts) == [w EXCEPT !.notice = @ \cup evts]

removeExcessEvents(w, nevts) == [w EXCEPT !.notice = @ \cap nevts]

\* Variant: a reported notice is removed whole, level-triggered bits included.
checkEdgeAll(w) == [w EXCEPT !.notice = {}]

checkEdge(w) == [w EXCEPT !.notice = @ \ edgeOnly(w)]

\* Variant: switching an event off leaves it in the notice.
updateEventNoticeNoClear(w, evts, enable) ==
  IF enable THEN addEventNotice(w, evts) ELSE w

updateEventNotice(w, evts, enable) ==
  IF enable THEN addEventNotice(w, evts)
            ELSE removeExcessEvents(w, Events \ evts)

\* The part of update_usock that finds the socket already subscribed.
reconfigure(w, evts, et) ==
  LET kept == IF w.watch \ evts # {} THEN removeExcessEvents(w, evts) ELSE w
  IN  [kept EXCEPT !.watch = evts, !.edge = IF et THEN evts ELSE @]

subscribe(w, evts, et) ==
  LET wait == IF w.watch = {} THEN newWait(evts, et) ELSE reconfigure(w, evts, et)
  IN  addEventNotice(wait, wait.watch \cap wait.state)

\* The body of update_events for one subscribed eid.
applyEvents(w, evts, enable) ==
  LET newstate == IF enable THEN w.state \cup evts ELSE w.state \ evts
      changes  == (w.state \ newstate) \cup (newstate \ w.state)
  IN  IF changes \cap w.watch = {}
      THEN [w EXCEPT !.state = newstate]
      ELSE updateEventNotice([w EXCEPT !.state = newstate], evts, enable)

=============================================================================
