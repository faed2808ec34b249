# Verification of SwiftSRT

SwiftSRT is a Swift package: a NIO-style API (`Sources/SRT`) over the SRT transport
library (`Sources/CSRT`, C++). This directory holds TLA+ models of the parts of both
whose correctness depends on the order in which threads, callbacks and packets meet,
the TLC configurations that check them, and proofs for TLAPS.

Paths are relative to `Sources/CSRT` unless they start with `SRT/` or `src/`; line
numbers are those of this commit. `PROJECT.json` maps each definition to the lines it
stands for, and lists the hazards, each with the properties that are about it.

## 1. Inventory

| Part | State | Operations | What is hard, and what makes it correct |
|---|---|---|---|
| Connection setup (core.cpp 1000-4346, handshake.cpp, CRendezvousQueue, processConnectRequest) | handshake state, cookie, what was negotiated, time to live | induction, conclusion, rendezvous, repeats, timeouts | lost, repeated and late packets; two threads that continue a connection; a cookie that changes every minute. Both ends agree on roles and settings, one socket per caller, and nobody waits for ever |
| Transport (processData, processCtrl, packData, timers) | sequence numbers of both ends, loss lists, acknowledgements | data, ACK, ACKACK, NAK, drop request, timers | loss, repeats by timers, reordering, two ends, sections without a lock. Messages come out whole, once, in order |
| Buffers (buffer.cpp) | blocks, units, message boundaries | add, acknowledge, read, drop, skip | two positions that must move together. As above |
| Queues and multiplexer (queue.cpp, CTimer) | heap of senders, list of receivers, time to sleep until | turn, update, remove, timers | the heap's order; a writer, the ACK and the sender's thread about one entry. Who can send gets a turn; a closed socket leaves every list |
| Registry (api.cpp) | open and closed sockets, multiplexers and their counts, accept queues | create, bind, listen, connect, accept, close, collect, clean up | deletion against use. Nothing is used after deletion, everything closed is deleted |
| Encryption (crypto.cpp, hcrypt*) | two key contexts at each end, key messages | encrypt, announce, switch, decommission, KMREQ, KMRSP | a switch while packets and keys travel, and while the flags of a packet are read. A packet is decrypted with the key that encrypted it |
| Packet filter (fec.cpp, packetfilter.cpp) | row and column groups, cells | feed, pack, receive, rebuild, dismiss | two kinds of groups that complete each other; queues that grow and are cut. What is rebuilt is what was lost, what is not is reported |
| Event poll `CEPoll` (epoll.cpp, epoll.h) | per eid: subscriptions, notices, flags; per socket: its eids | create, add, update, remove, release, wait, uwait, update_events | two locks one after the other; reused eids; edge bits cleared on report. No event missed, none left over |
| Read readiness (sendCtrl ACK, tsbpd, receiveMessage, checkExpTimer, addEPoll) | receive buffer, m_RecvLock, two condition variables, m_bTsbPdAckWakeup | ACK, play time, read, wait, break | four threads, signals without the waiter's lock. Data that can be read is announced and read |
| Write readiness (sendmsg2, checkNeedDrop, updateSndLossListOnACK) | send buffer, m_SendLock, m_SendBlockLock, m_RecvAckLock | send, wait, drop, ACK, peer error, break | the same for room |
| Server channel (SRT/ServerChannel.swift, SRT/Bootstrap.swift) | listener, children, serial queues | bind, accept, register, initialize, close | edge-triggered accept, callbacks on three queues. Every connection served, initialized once and first |
| Client channel (SRT/ClientChannel.swift, SRT/Bootstrap.swift) | connection, promises, send queue with its plug | connect, write, read, close, triggers | a plug that waits for a promise, a close or a break at any time. Every promise completes |
| Event loop (SRT/EventLoop.swift) | poll queue, loop queue, channels | register, unregister, poll | the poll renews itself; tasks in between |
| Sequence numbers `CSeqNo` (common.h) | none | compare, distance, increment | wrap at 2^31 |
| Loss lists (list.cpp) | ranges as linked nodes in a static array, hint, length | insert, remove, pop, report | places modulo the array, coalescing, wrap. A set |
| ACK window, packet-time windows (window.cpp) | circular store | store, acknowledge | not modelled (section 8) |
| Congestion control, UDP channel and packets, cache, MD5, logging, C facade, Swift options and errors, example | | | arithmetic on samples, I/O, wrappers: not modelled |

How the parts interact. The Swift event loop polls one eid with edge-triggered
subscriptions to IN, OUT and ERR, and calls the channels' triggers on a serial queue.
Sockets on one UDP port share a multiplexer: its receiver queue's thread handles the
packets and timers of all of them and continues connections that nobody waits for; its
sender queue's thread takes the socket whose turn it is and packs a packet. In live mode
each connection has a TSBPD thread that plays packets when they are due. A garbage
collector deletes what was closed. Application threads send, receive, connect, accept
and close. All of these change the state of sockets and call `update_events`, which the
poll then reports.

## 2. Modules

| Module | Models | With |
|---|---|---|
| `HandshakeExt` | the extensions of a version 5 handshake: what each side writes, and what it makes of the peer's | |
| `Rendezvous` | two sockets that connect to each other | extends `HandshakeExt` |
| `CallerListener` | callers and a listener: induction, conclusion, backlog, repeats, replacement | extends `HandshakeExt` |
| `Delivery` | abstract: what a connection promises to the receiving application | |
| `Transport` | one direction of a connection: sender, network, receiver, application; implements `Delivery` | |
| `SndHeap` | the sender's heap as a sequence | |
| `Multiplexer` | both queue threads, the timer, heap, receiver list, close and deletion | extends `SndHeap` |
| `Registry` | CUDTUnited: maps, multiplexers, threads, worker, collector, srt_cleanup | |
| `KeyRefresh` | the key contexts of both ends, the messages with keys, the packets | |
| `FEC` | the filter at both ends, and the network between | |
| `EPollDesc`, `CEPoll` | one descriptor's record of one socket; the event poll | `CEPoll` extends `EPollDesc` |
| `RcvReadiness`, `SndReadiness` | the threads around received data, and around room to send | extend `EPollDesc` |
| `ServerChannel`, `ClientChannel` | the Swift channels with their queues and the library | extend `EPollDesc` |
| `SeqNo` | `CSeqNo` | |
| `LossSet`, `RcvLossSet` | abstract: what list.h promises of the loss lists | extend `SeqNo` |
| `SndLossList`, `RcvLossList` | the lists as they are, with their callers; implement the sets | extend `SeqNo` |
| `CallerListenerProofs`, `RendezvousProofs`, `TransportProofs`, `RegistryProofs`, `ThreadsProofs`, `KeyRefreshProofs`, `CEPollProofs`, `ChannelsProofs` | theorems (section 6) | each extends the module it is about; `TransportProofs` also `SeqNo`, `ThreadsProofs` `MCReadiness` and `Multiplexer` |
| `MCReadiness`, `MCChannels` | a behaviour is of one of two components that do not share state, so that one run checks both | instances of the two |
| `MCKeysAndLosses` | the same for what the ends remember of packets: keys, the filter's groups, the two loss lists | extends `KeyRefresh` and `SeqNo`, instances of `FEC`, `SndLossList`, `RcvLossList` |
| `MCRendezvous`, `MCCallerListener`, `MCSettings`, `MCMultiplexer`, `MCSndHeap` | values of the constants | |

Where one module stops the next takes over: `Transport` and `FEC` use the loss lists
as the sets that `SndLossList` and `RcvLossList` are shown to implement; readiness counts
packets whose numbers `Transport` has; the channels use a library whose readiness is
right; `Registry` takes a connection's packets as given and `Multiplexer` the registry's
decision to delete.

How state and actions correspond to the code:

- **HandshakeExt.** A side is a record of the options it opened with, m_SrtHsSide, the
  delays and flags it negotiated and the states of its crypto control. `CreateReq` and
  `CreateRsp` follow createSrtHandshake; `Interpret` follows interpretSrtHandshake and
  what it calls, in its order, with each early return.
- **Rendezvous, CallerListener.** `c` holds the connecting sockets, `wire`, `up` and
  `down` the handshakes in flight. A received packet is handled in one action by the
  loop in startConnect or by the receiver queue's worker (`loop`); `port` says whether
  other traffic makes that worker run. Losing a packet is an action, and so is taking a
  later one first. The rendezvous cookies lie in an int's range, of
  `CookieHalf` on either side of 0 (2^31 in the code), and their difference wraps; the
  listener's cookie is the minute it was made in.
- **Transport.** `snd` and `rcv` are the two ends' buffers, numbers and loss lists;
  `worker` the receiving thread's locals between two locked sections. packData is
  three actions (`Retransmit`, `TakeNew`, `NumberNew`) because it numbers a packet it has
  taken under another lock, a received packet is two when it leaves a gap (`RecvData`,
  `RecordGap`), and the receiver's ACK is two (`ComputeAck`, `SendAck`). `Windows` says in
  which of these another thread may run. At the sender, `RecvAck` and `RecvLiteAck` are
  one action each: they merge the two sections under m_RecvAckLock (core.cpp:7199-7217,
  in updateSndLossListOnACK, and 7252-7335), so that what another thread may do between
  the two is not in this module; `SndLossList` and `Multiplexer` have steps of their own
  for it. A packet that arrives is gone from the network (`Taken`); packets come again
  only because retransmission and the timers send them again.
- **Multiplexer.** `heap` is m_pHeap in the order of the array; `sender` and `rcv` say
  where the two threads are; times are counted from now on (-1 at once), so that no clock
  grows. An acknowledgement is several steps, since it puts the socket into the heap in
  one and opens the window in another.
- **Registry.** A step is what one lock protects: m_ControlLock is free between steps.
  `s[u].where` tells the map; `call` what each thread waits in; `worker` the request that
  newConnection handles, whose queueing is a step of its own.
- **KeyRefresh.** `tx` has the two contexts with key, status, announcement and counter,
  `rx` the keys of the receiver's; `Encrypt` is HaiCrypt_Tx_Data, `ManageKM` what a full
  ACK does (checkSndTimers, core.cpp:7411). No lock of the transport keeps the two apart:
  packData encrypts without one, and the ACK's handler has released m_RecvAckLock by then.
  Each is one step of the model, and so is packData's reading of the flags (core.cpp:8021),
  whose result is the variable `flags`; a switch may therefore come between the flags and
  the encryption, but not into HaiCrypt_Tx_Data. `garbled` collects why the receiver failed
  to get a packet back (`Why`): it had not the key of the packet in that context ("key"),
  or the packet carried the flags of the other context ("flags").
- **FEC.** A clip is an XOR of packets, and is the set of those that are in it an odd
  number of times. Cells, rows, columns, bases and the queues' lengths are as in
  FECFilterBuiltin; one packet is handled in one action, its rebuilding included.
- **CEPoll.** `desc[e][u]` is the `Wait` record of socket u in eid e, together with its
  notice; `m_sPollID[u]` is the socket's list. `update_usock` and `addEPoll` are the two
  halves of `epoll_add_usock`, `remove_usock`, `removeEPollClear` and `removeEPollErase`
  the three of `epoll_remove_usock`. `update_events` is one step: it holds m_EPollLock.
- **RcvReadiness, SndReadiness.** One control point per thread. Packets are counted.
  `mode` is fixed for a behaviour: "live" is TSBPD with drops behind an edge-triggered
  epoll, which is what the Swift channels use; "level" TSBPD behind a level-triggered
  one; "stream" neither TSBPD nor blocking; "block" a blocking call. In SndReadiness
  "edge" sends when told, "level" and "eager" send before they are told.
- **ServerChannel, ClientChannel.** A serial dispatch queue is a sequence of tasks; the
  library's change of a socket and the `update_events` that tells of it are two steps.
- **SndLossList, RcvLossList.** The list is a record of its members; each C++ method is
  an operator from list to list, each caller in core.cpp an action. `call` only records
  the last call and its result, to be compared with the abstract set's; the run's VIEW
  leaves it out of the fingerprint, which is sound because no invariant reads it and TLC
  checks the refinement on every transition it generates.

## 3. Runs

| Run | Shows | Bounds |
|---|---|---|
| `transport` | positions and numbers stay aligned, nothing is freed or acknowledged early, messages are delivered as `Delivery` promises, due packets are played, all arrives when nothing may be dropped | 3 blocks, send buffer of 2, receive buffer of 3 slots, 2 packets in flight forward and 1 back, the three modes |
| `rendezvous` | two sides draw different roles and work with common settings, unless the initiator refused them; both connect when the network keeps order | 4 pairs of options, two pairs of cookies in -4 .. 3 (`CookieHalf = 4`), of which one, -4 and 3, overflows when subtracted and one does not, 2 handshakes in flight |
| `caller` | one living socket per caller; settings in common, unless the caller took the echo of its own request for an answer; a compatible caller is connected, if its cookie's minute does not change | one caller, backlog 1, three minutes, two sockets at the listener |
| `registry` | multiplexers are counted, nothing is used after deletion, what is closed is deleted, a blocked accept returns | a listener, a caller, an accepted socket, one port, two threads |
| `multiplexer` | who can send has a turn except in one case, and sends in the end; a closed socket leaves every list before it is deleted | two sockets, two packets, window of one |
| `keys_and_losses` | a packet that carries the flags of the context that encrypted it is decrypted with its own key, and the sender stays secured; what the filter makes is what was lost, made whenever it can be and otherwise reported; both loss lists do what list.h promises, hold only what is missing, and a report names the first losses | refresh every 13 packets, announced 6 before, 3 packets in flight; rows of 3, columns of 2, 10 packets, 3 losses; circle of 16, flow window of 3, array of 5, reports of 2 cells |
| `epoll` | no event missed, none left over, every rise noticed, no finished subscription the socket does not know | two eids whose numbers are reused, one socket, full masks |
| `readiness` | what is ready is announced, read and sent, calls return, a break is told | 3 packets to receive; a buffer of 2 and 5 packets to send; three modes at each end |
| `channels` | one initializer per child and first; writes answered, unless the channel was closed for good before it became writable; a broken channel is closed, single connections served | two writes, two packets, a close at any time; three connections, one at a time or in bursts |
| `server_burst` | violated: a second waiting connection is never accepted (SRT/ServerChannel.swift:210) | |
| `heap_six` | violated: a removal from the heap of senders breaks its order (queue.cpp:434) | six sockets |
| `close_early` | violated: a close before the first writable event fails no pending write, though SRT/ClientChannel.swift:195 says that its error does | one write, no packets |

Why the bounds are enough. Three blocks through a send buffer of two and a receive buffer
that holds two make full, empty and refilled buffers follow each other; the message
boundaries give a message of one block and one of two; two packets in flight overtake
each other. A window of one packet opens and closes with each
acknowledgement, and the socket without data shows what close and the timers do alone.
Three sockets are a listener, its caller on the same port and the socket made for the
request, which covers each count of a multiplexer; `Cleanups` is explained in section 5.
Two handshakes in flight let each pass another; three minutes are one more than the
cookie's life. Refreshing every 13 packets with acknowledgements every two reaches each
threshold before, at and after the count, and eight keys last for more than two
refreshes. Ten packets fill more than one matrix of six, and three losses are one more
than a row or a column can lose and be rebuilt through the other kind. The epoll treats
each pair of eid and socket alone, and two eids are enough for reuse. In the readiness
models a packet more than the buffer holds makes full and refilled buffers follow each
other. The circle of 16 starts two before its end, so that every call happens on either
side of the wrap. Three connections are a burst with one before or after it.

Deadlock is not checked where the system stops: all is sent or read, closed, connected
or refused, or the numbers that a bound allows are used up.

## 4. Fairness

Nobody has to send, write, connect, close or break, unless a property is about what has
been written: liveness never rests on new work arriving. Assumed are:

- threads and serial queues go on (weak fairness of their steps), and time passes;
- threads that contend for a mutex which others release and take again get it (strong
  fairness in `RcvReadiness`, `SndReadiness`, `Transport`): pthread mutexes do not starve
  a waiter for ever in practice. A blocking reader's wait has its one-second timeout
  (core.cpp:6152) and relies on it;
- `Transport`: of packets sent over and over, the first missing one and an
  acknowledgement that is news get through (`RecvWanted`, `RecvNewAck`); the timers repeat
  both. The application sends and reads.
- `Rendezvous`, `CallerListener`: the same for handshakes, for each type by itself, since
  every type is repeated every 250 ms until it is answered. It is strong fairness written
  out with what enables each action. Whoever runs out of time is left out of what is
  promised, because the network may take all the time there is;
- `Multiplexer`: a full window moves or the connection expires, and the retransmission
  timer comes due as long as there is something to send (both are timed in checkTimers);
- `Registry`: the collector comes round every second. This is stated as `[]<>~Due`: what
  can be collected is at some time no longer there;
- the channels: a connection attempt succeeds or times out.

## 5. Other instances

Some windows are closed in the passing runs because the code is wrong inside them. Each
has a configuration here, or an instance obtained from one by the constants named; in
all of them TLC finds the property violated.

Configurations that are kept:

| Configuration (module) | Property | What it shows |
|---|---|---|
| `TransportGap` (`Transport`) | `DueIsPlayed` | processData moves m_iRcvCurrSeqNo under m_RcvBufferLock and records the gap after releasing it (core.cpp:8595). If the TSBPD thread skips the gap in between, the stale record stops every later acknowledgement |
| `MultiplexerStranded` (`MCMultiplexer`) | `NeverStranded` | an ACK adds the socket to the senders before it opens the window (core.cpp:7220); the sender's thread may drop it in between, and only a timer brings it back |
| `CallerListenerCookie` (`MCCallerListener`) | `EarlierCookieTaken` | the minute changes between the induction's answer and the conclusion, and the cookie of the minute before is refused: the correction goes the wrong way (core.cpp:9128, which says "SHOULD generate an earlier, distracted cookie") |
| `RendezvousReorder` (`MCRendezvous`) | `NeverRefused` | a reordered handshake is refused in a state whose comment says it cannot arrive there (core.cpp:4609) |
| `KeyRefreshRace` (`KeyRefresh`) | `FlagsMatch` | packData reads the flags of a packet before it encrypts it, and a full ACK may switch keys in between (core.cpp:8094); crypto.h:254 says "Encryption flags in the PH_MSGNO field in the header must be correctly set before calling." The receiver then uses the other key, so that `Deciphered`, which leaves no packet out, fails too |
| `RcvLossListWrap` (`RcvLossList`) | `ImplementsLossSet` | a range removed across the wrap keeps MaxSeqNo in the list (list.cpp:624) |
| `CEPollPartial` (`CEPoll`) | `OnlyWatchedNoticed` | update_events filters the events by what is watched and then passes the unfiltered ones (epoll.cpp:717); epoll.h:87 says only watched ones are regarded |

Instances by constants, from the configuration of the run:

| Module, constants | Property |
|---|---|
| `CEPoll`, `Socks = {u1}`, `IdLimit = 1`, `WatchMasks = {{"IN"}, {"OUT", "ERR"}, {"IN", "OUT", "ERR"}}`, `MaxFds = 1` | `ResubscribedLooksNew` (epoll.cpp:275 keeps an old edge mask; epoll.cpp:278 says "exactly like newly added"); `MappedIsSubscribed` (an eid in a socket's list without a subscription, which epoll.cpp:694 calls impossible) |
| `CEPoll`, two sockets, full masks, `MaxFds = 0` | `UWaitReturnsTotal` (uwait returns array size + 1, epoll.cpp:435; epoll.h:363 says the total) |
| `Transport`, `SpecTTL`, `Modes = {"live"}`, `Windows = {}` | `BlocksMatchNumbers`: an expired message's drop request and m_iSndCurrSeqNo cover one number too many (core.cpp:7896) |
| `Transport`, `Windows = {"pack"}` | `NumbersMatch`: packData takes a packet and numbers it without the lock under which a late drop moves the number (core.cpp:8022) |
| `Registry`, `Cleanups = {"any"}` | `CleanupDone`: srt_cleanup while a thread is inside connect or accept; `NothingUsedAfterDeletion`: it deletes a socket whose close another thread is still in |
| `CallerListener`, `Callers = {1, 2}`, `LastMinute = 0`, `MaxSockets = 2`, reordered | `SettledUnlessEchoed`: a request that was answered is refused when it comes again and the queue is full by then; the refusal carries the caller's own request, which the connected caller reads as a new one (core.cpp:7611) |
| `CallerListener`, as in `CallerListenerCookie` | `Agreed`: the answer to a repeated conclusion sends the caller's own request back (api.cpp:385), the caller takes it for a response and works with its own settings |
| `Rendezvous`, `Ports = {"shared"}`, `Loops = {"async"}` | `NeverRefused`: other traffic makes the worker repeat an old handshake |
| `Rendezvous`, `MCEnforced` | `Secure`: the side that asks for the key is connected although it enforces encryption |
| `Rendezvous`, as in `rendezvous` | `AlwaysAgreed`: an initiator that refuses the response goes on to postConnect (core.cpp:3864); it is connected, and when its failure is lost so is its peer, with other settings |
| `Multiplexer` | `SleepsUntilFirst`: an interrupt before sleepto sets its time is lost (common.cpp:203) |
| `KeyRefresh`, as in `keys_and_losses` | `DeprecatedUnused` |
| `KeyRefresh`, `RefreshRate = 7`, `PreAnnounce = 3`, `PerAck = 1`, `Lag = 6`, `Window = 2`, `Retries = 1` | `StaysSecured`: a late answer is compared with the next keys |
| `KeyRefresh`, `Lag = 9` | `KeysInTime`: keys that come after the switch |
| `KeyRefresh`, `PreAnnounce = 1`, `PerAck = 3`; or 5, 2, 2, `Lag = 1`, `Window = 2`, `Retries = 1` | `SwitchIsKeyed`: ACKs too rare for the thresholds (section 6) |
| `ServerChannel`, as in `server_burst`, `Arrivals = {"early"}` | `EveryConnectionServed`: a connection between listen and registration is never announced (SRT/Bootstrap.swift:135) |
| `FEC`, 2 columns, 2 rows, 8 packets, 4 losses, in order | `WithinQueues`: the receiver reads one row past its queue (fec.cpp:1743) |
| `FEC`, 3 columns, 1 row, 12 packets, 1 loss, in order | `OnlyLostReported` |
| `FEC`, staircase of 3 columns and 2 rows, 14 packets, 2 losses; of 2 and 4, 22 packets, 1 loss | `Accounted`; `WithinQueues` |
| `RcvReadiness`, `Modes = {"stream"}`, `MayBreak = FALSE`, `MaxPkts = 2` | `ReadyIsRead`: without TSBPD a non-blocking reader sleeps over data (core.cpp:6112) |
| `SndReadiness`, `Modes = {"block"}`, `BufSize = 1`, `MaxPkts = 2`, no drops, `PeerMayFail = TRUE` | `PeerErrorReturns`: the peer's error wakes no blocked sender; core.cpp:7753 says it returns immediately |
| `SndReadiness`, `Modes = {"eager"}`, `BufSize = 1`, `MaxPkts = 2` | `AllIsSent`: addEPoll switches OUT on without the lock under which room changes (core.cpp:9551) |
| `ClientChannel`, one write, no packets, no close | `ConnectedWhenTold`: connect's promise completes while the connection is being made (SRT/ClientChannel.swift:133) |
| `SndLossList`, `DropsInLiteAck = TRUE` | `OnlyUnacknowledged`: a late drop is undone by a lite ACK that compared before (core.cpp:7252) |
| `RcvLossList`, `SkipsUnrecorded = TRUE` | `OnlyMissing`: the lists' view of `TransportGap` |

`FEC` with columns only (3 and 2, 10 packets, 2 losses, 1 behind) has all its properties.

## 6. Proofs

The assumptions are the ASSUMEs of the modules, which give constants their types, and
what a theorem names itself.

`CallerListenerProofs` proves of `CallerListener`:

- `OneSocketHolds`: `Spec => []OneSocket`, with no condition at all. The invariant
  (`OneInv`) adds that of a caller's sockets one waits to be accepted at most, and that
  one that is gone does not wait.
- `SettledHolds`: `SettledUnlessEchoed`, for any options and any network, if `Roomy`:
  there are not more callers than the backlog has places. The run has one caller and one
  place; section 5 has the instance with one place less than callers, where the property
  fails. The proof has three parts. The first is about `HandshakeExt` only: what each
  block of a request makes of the listener's socket, and each block of the response of the
  caller's, up to `NegotiationAgrees`, which says of any two sets of options that, when
  both ends took what they read, delays, key state and filter agree and the strict rules
  hold. The second bounds what is on its way: between a caller and the listener only
  inductions, that caller's request, its refusal when it cannot be read, the response to
  it or the request itself come up (`NetInv`), the listener's sockets are those the
  requests make (`AccInv`), and a caller that is connected has read the response or its
  own request (`CallersInv`). None of the three is inductive alone. `Roomy` enters where a
  request is refused for want of room: each of the sockets that wait belongs to another
  caller, and an injection into the callers without this one says that they are fewer than
  the backlog.

`RendezvousProofs` proves of `Rendezvous`, for any options, cookies and range of an int,
for a network that loses and reorders, for either loop and with or without other traffic:

- `Invariant` and `SettledHolds`: `Settled`, which is four statements. The sides that
  connect have different roles; each has the other's extensions and a settled key state;
  their settings agree unless the initiator refused them; and a responder that enforces
  encryption shares the passphrase. The argument has three parts. `WrapsAway` is arithmetic:
  of two differences that are each other's negative at most one is positive after they
  wrap, so the cookies make at most one initiator, and the role of each side (`Role`) is
  a function of the cookies that the contest, held by each side for itself, can only
  confirm. The second part is about `HandshakeExt` again, and harder than for a listener,
  because here a side reads and makes its blocks any number of times: what a responder makes
  of a request that it has read before (`ResponderReads`, `Answered`), what an initiator
  makes of a response that comes again (`InitiatorReads`, `Heard`), and that a request
  made again is the same request (`RequestMade`). The third is the invariant `IInv`. It
  says of a side that tries how far its state machine can be: a responder beyond
  "attention" has answered, an initiator has heard nothing (`Stands`); of a side that is
  connected why it may be, it answered a peer that is connected or heard what the peer
  answered (`Arrived`); of a packet, in the network or held by a side, that its blocks are
  the sender's request or its answer, and that an agreement or data comes from a side that
  is connected (`IsFrom`). It is inductive because what a side has answered, and that it
  is connected, is never taken back (`Grows`): each decision is shown to keep that
  (`Processes`, `Connects`, `StaysConnected`), and whatever is known of the peer and of old
  packets then stays true, which is all that loss and reordering need.

  The first attempt failed for a good reason: settings that agree without exception, as the
  property had said, is false, and the exception was nowhere in the instance the run
  checked. An initiator that refuses the response is connected all the same (section 5,
  `AlwaysAgreed`); the run has such a pair of options now.

`TransportProofs` proves of `Transport`, for any number of blocks, any message boundaries,
buffers, bounds on the network and modes, under `Undisturbed`: no late drop falls between
taking a packet and numbering it, and no skip between a gap's detection and its record.
Both windows are open in the code, and section 5 shows what comes of each; a thread may run
between computing and sending an acknowledgement.

- `TypesHold`: the type invariant.
- `NumbersMatchHolds`: `NumbersMatch`. The invariant needs what the sender's counters
  say of each other (`SndInv`), that packets, ACKs and reports on their way carry numbers
  that were given out and are not ahead of the receiver (`NetInv`), and that each unit of
  the receiver has the number of its place, where the places between are reported missing
  or about to be (`SlotsAgree`): a receiver finds the place of a packet from its number.
- `AcksAreHonestHolds`: `AcksAreHonest`, from the same invariant.
- `DeliveryRefinedHolds`: the refinement of `Delivery`. A reader's step maps to a
  delivery, any other to a stutter; that a message is handed out once and whole needs what
  the receiver holds of the boundaries (`MessageInv`) and that what was handed out lies
  before its first unit (`DeliveredInv`). The first gap is found as a least element.

`RegistryProofs` proves of `Registry`, for any sockets, threads, ports and peers, under
`CalmEnd`: srt_cleanup is called by an application that is in no other call.

- `MuxCountedHolds`: `MuxCounted`. A multiplexer's count is a cardinality, and each step
  that adds or removes a socket changes it by one; that needs what a socket's status says
  about where it is (`Consistent`).
- `NothingUsedAfterDeletionHolds`: `NothingUsedAfterDeletion`. A socket is deleted when a
  second has gone since it was closed, and nothing in the collector looks whether
  somebody still has it. The invariant says for each who may have it why not: a call's
  socket is open, or was closed just now by that call (`CallInv`, `JustClosed`,
  `CloseInv`, `AloneInv`); the multiplexer's listener is listening (`ListensInv`); the
  worker and the accept queues have sockets that a listener owns (`WorkerInv`, `QueueInv`,
  `PeerInv`); the collector's list has closed ones (`GcInv`).

`ThreadsProofs` proves of `MCReadiness`, for any number of packets, any size of the
send buffer and any set of modes:

- `TypesHold`: both ends' type invariants.
- `AnnouncedHolds`: `Spec => []Announced`, "what is ready is announced or about to be",
  at both ends. `Announced` is not inductive: that a TSBPD thread waits on its condition
  says nothing unless one knows what it has left behind. The invariant `Inv` adds, for
  the receiving end, that a packet is counted once (`RTypes`), who holds m_RecvLock at
  each control point and that a reader who is about to switch IN off has woken the TSBPD
  thread, which cannot go on without the lock (`RLocks`), what control points say of modes
  and subscription (`RPlaces`), and that a TSBPD thread that waits for an ACK leaves
  nothing acknowledged behind that is neither due nor announced (`RTold`); for the
  sending end, that OUT is on over an empty buffer unless the sender is in a call that has
  just dropped its contents (`STold`). There is one step per action, under it one per
  conjunct the action can disturb; three lemmas say what `EPollDesc`'s operators do.

It also proves of `Multiplexer`, for any sockets of a port, any window, and any pause
between two packets that is shorter than the collector's wait (`MultiplexerAssumption`):

- `ListsAreTrueHolds`: `ListsAreTrue`. A socket is deleted when the receiver queue's list
  has let go of it, and what that queue's thread has in hand is on the list (`HandInv`).
  The sender queue's thread looks at no such list: what it has in hand was connected when
  it took it, so close had not begun the wait, and the collector's second is longer than
  a send, which in the model is `Timely`: the clock waits for a thread that can run
  (`CloseInv`, `SendInv`). The wait is therefore not over when it is done. That the list
  is in the order of the last updates needs that each socket is on it once and that new
  ones come to an empty list (`QueueInv`, `OrderInv`). `QueuesHold` is the invariant.

`KeyRefreshProofs` proves of `KeyRefresh`, for any keys, rates, losses and repeats, under
`Timely`: PerAck <= PreAnnounce and PreAnnounce + 2 * PerAck <= RefreshRate.

- `InStepHolds`: the active context's counter is in step with what the other context is
  there for, through the switch that the next ACK undoes, because a context that has not
  been used is taken for one that is used up (the counter's 0).
- `SwitchHolds`: `SwitchIsKeyed`, no context is activated that has no announced key.
- `UnnoticedHolds`: `Unnoticed`, the connection stays secured and every packet that carries
  the flags of its key is decrypted with it, under the stronger `Prompt` and with three
  keys to draw from (`Plenty`). `Prompt` says that a message travels, and is repeated, for
  a time that leaves an ACK's interval before the switch (Lag + PerAck <= PreAnnounce, Lag +
  PreAnnounce + 2 * PerAck <= RefreshRate), that what is left of one refresh is gone when
  the next one is due (2 * Lag <= RefreshRate - PreAnnounce), and so are the packets of
  the old key (Window <= RefreshRate - PreAnnounce). The inductive invariant has the
  contexts in step and four parts: only the last message is on its way (`MessagesOk`), and
  is repeated (`KmOk`), and while a context is fresh its counter bounds their age; packets
  in flight have the contexts' keys, and those of the old one are as many packets back as
  the counter says (`OutOk`), so that no key is replaced that one of them needs; the
  receiver has both keys, or lacks only the announced one and no packet has that (`RxOk`);
  a keyed context is announced (`KeyedOk`). At a refresh all of them together leave nothing
  of the one before (`RefreshQuiet`), so that a new key is really new (`UsedIs`).

`Timely` is a statement about the options that setOpt does not check: it accepts any
km_pre_announce of at most half the rate. Section 5 has instances just outside it that
switch to a context without a key, and outside `Prompt` that end with a bad secret or an
unreadable packet; the library's defaults are far inside both. That flags and key of a
packet agree is not among it: the race between them is `KeyRefreshRace` (section 5).

`CEPollProofs` proves of `CEPoll`, for any sockets, number of eids, watch masks and
output limit:

- `TypeCorrect`: `Spec => []TypeOK`.
- `LevelSafe`: `LevelNeverMissed`, inductive with the type invariant.
- `ExactSafe`: `NoticeExact`, under the hypothesis that all masks are full.
- `RiseSafe`: the action property `RiseIsNoticed`.
- `DeafSafe`: `NoDeafSubscription`. Between the halves of add and remove it does not
  hold, and a release followed by a reuse of the number must not bring back an old entry;
  the strengthening says what each step of a client in progress guarantees.

`ChannelsProofs` proves of `MCChannels`' server (`ServerChannel`), for any number of
connections, arriving in any way, with or without a close:

- `InitializedOnceHolds`: `InitializedOnceBeforeReading`. Nothing in the code tests whether a
  child was initialized, and the poll queue reads as soon as it has registered it: what
  keeps the order is where a child's tasks are. The invariant has one part per queue: a
  child is in one of them with its options, its registration or its initializer at most
  once and only at that stage (`LoopOk`, `PollOk`); what was read stands behind an
  initializer that has not run yet (`LoopOk`, `ReadOk`); and those that have run are the
  children past that stage (`ServedOk`).

`TransportProofs` also proves of `SeqNo` what lets `Transport` count its packets without
wrapping their numbers: for a circle of any even size (which 0x7FFFFFFF plus one is),
`incseq` and `decseq` undo each other (`IncDec`), `seqoff` of a
number ahead is its distance (`SeqOffForward`), `seqcmp` and `seqoff` agree in sign
(`SeqCmpSign`), and adding the offset leads to the other number (`SeqOffAdds`), all across
the wrap.

Only model-checked: liveness under fairness, which the prover does not do (`BothConnect`
of `Rendezvous` is of this kind); the loss lists and `FEC`, whose operators are RECURSIVE
(`OnlyMissing`, `ReportIsPrefix`, `RebuiltExactly`, `Accounted`), with
the refinement of the loss sets; and `DeletedLeftHeap` of `Multiplexer`. It rests on the
order of the heap: a closed socket that a late sendmsg has put back leaves the heap when
its turn comes, and only the order makes that before the collector's wait is over.
Removals break the order among six sockets (`heap_six`), so the property has no proof for
any number of them. Of `ClientChannel` only liveness is stated.

## 7. Disagreements found

Three of the violations are runs, listed as findings: `server_burst`, `heap_six` and
`close_early`. Those of section 5 are the others. Where one contradicts a comment or a
document, the property quotes it.

## 8. Not modelled

Within the modelled parts:

- Connection setup: version 4 peers, maximum segment size and flight flag, the stream
  identifier, the accept hook, the congestion controller's own check.
- Transport: numbers that wrap (the loss lists have them), reorder tolerance, belated loss
  reports (CRcvFreshLoss), keep-alive and expiry (they are in `Multiplexer` and the
  readiness modules), statistics, the stream API, receiveBuffer and recvfile. An ACK that
  acknowledges what was not sent (core.cpp:7247) needs a peer that is not this program.
- Buffers: payload bytes, partial reads, averages, drift, timestamps that wrap.
- Multiplexer and registry: errors of the UDP socket and of memory, addresses, binding to
  a given UDP socket, getsockname, select.
- Encryption: derivation and wrapping of keys, ciphers, the wire format. `Package.swift`
  does not define SRT_ENABLE_ENCRYPTION, so the package as it builds answers a passphrase
  with an error; `KeyRefresh` and the keys in `HandshakeExt` are of the build with it.
- Filter: the configuration string, the bytes of an XOR, arq "always" and "never", custom
  filters. The drop of a large gap and the shrinking of columns (CheckLargeDrop) are in
  the module but need more losses than the passing run has.
- Event poll: kernel descriptors in an eid, the calls for them.
- Readiness: messages of several packets, send timeouts, sendfile, sequence gaps (they
  are in `Transport`).
- Channels: asynchronous child initializers, a child group other than the parent's,
  options, scheduled tasks, a broken socket that the collector removes before the poll
  has told of it.

Not at all: the ACK window and packet-time windows (arithmetic on samples, and a store
whose loss costs an RTT sample), congestion control (floating-point rates; a free bound
on sending in the models), UDP channel and packet layout, cache, MD5, clocks, errors,
logging, the C facade, Swift options, sockets and errors, the example.

## 9. Plan

1. `AckWindow`: the circular store of ACK times, implementing a map.
2. `Transport` with belated loss reports and reorder tolerance.
3. `HandshakeExt` with a version 4 peer.
4. `Registry` and `Multiplexer` as one, so that a deletion meets the queues' threads in
   the same state.
