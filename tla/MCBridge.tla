------------------------------ MODULE MCBridge ------------------------------
(* Bridge for TLC: the clock has two ticks to the idle timeout, and the      *)
(* upstream may send more datagrams than the socket buffer holds.            *)
EXTENDS Bridge
=============================================================================
