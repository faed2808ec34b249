-------------------------- MODULE MCCallerListener --------------------------
(* CallerListener with the options of MCSettings. *)
EXTENDS CallerListener, MCSettings

MCOptions == Differing(Callers)
MCPlain == {Both(Callers, Slow, Plain)}
=============================================================================
