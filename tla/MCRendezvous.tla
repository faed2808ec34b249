---------------------------- MODULE MCRendezvous ----------------------------
(* Rendezvous with the options of MCSettings. *)
EXTENDS Rendezvous, MCSettings
=============================================================================
