--------------------------- MODULE MCMultiplexer ---------------------------
(***************************************************************************)
(* Two sockets on a port: one writes two packets, which its window lets     *)
(* through one at a time, the other only waits, breaks and closes.          *)
(***************************************************************************)
EXTENDS Multiplexer, TLC

CONSTANTS s1, s2

MCSocks == {s1, s2}
MCPackets == (s1 :> 2) @@ (s2 :> 0)
=============================================================================
