---------------------------- MODULE MCSpectator ----------------------------
(* Spectator for TLC, with a buffer of a few packets and short durations.   *)
EXTENDS Spectator
=============================================================================
