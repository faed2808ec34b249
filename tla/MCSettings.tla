----------------------------- MODULE MCSettings -----------------------------
(* Options that differ in what is negotiated. *)
EXTENDS HandshakeExt

Plain == [tsbpd |-> TRUE, rcv |-> 1, snd |-> 0, drop |-> TRUE, nak |-> TRUE, msg |-> TRUE,
          key |-> NoKey, strict |-> TRUE, cc |-> "live", filter |-> NoFilter]
Slow == [Plain EXCEPT !.rcv = 3, !.snd = 2, !.nak = FALSE]
Keyed(k, strict) == [Plain EXCEPT !.key = k, !.strict = strict]

\* Of two sides of a rendezvous: different delays; the same passphrase, and a filter
\* that one side asks for; what cannot work: other passphrases, and a filter that the
\* side that insists on the passphrase does not get to; messages and a stream.
MCPairs == {<<Plain, Slow>>,
            <<[Keyed("k", TRUE) EXCEPT !.snd = 2], [Keyed("k", TRUE) EXCEPT !.filter = "fec"]>>,
            <<[Keyed("k", FALSE) EXCEPT !.filter = "fec"], Keyed("l", TRUE)>>,
            <<Plain, [Plain EXCEPT !.msg = FALSE, !.cc = "file"]>>}

\* Passphrases that differ, which one side insists on.
MCEnforced == {<<Keyed("k", TRUE), Keyed("l", FALSE)>>}

\* With CookieHalf = 4: -4 less 3 overflows and is 1, so that the side with the lesser
\* cookie initiates; the second pair does not overflow.
MCTwoCookies == {<<-4, 3>>, <<-1, 1>>}

\* Of a listener and its callers: different delays, and a filter that the caller asks
\* for; the same passphrase; other passphrases, and none, where one end is strict or
\* neither.
Both(callers, l, o) == [listener |-> l, caller |-> [i \in callers |-> o]]
Differing(callers) ==
    {Both(callers, Slow, [Plain EXCEPT !.filter = "fec"]),
     Both(callers, Keyed("k", TRUE), Keyed("k", TRUE)),
     Both(callers, Keyed("k", FALSE), Keyed("l", TRUE)),
     Both(callers, Keyed("k", FALSE), [Plain EXCEPT !.strict = FALSE])}
=============================================================================
