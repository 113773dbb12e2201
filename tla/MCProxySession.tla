--------------------------- MODULE MCProxySession ---------------------------
(* ProxySession for TLC: one tick to the idle timeout, a game server that    *)
(* is silent or dies (run bridge has the datagrams), and one loss of the     *)
(* connection that it may recover from.                                      *)
EXTENDS ProxySession
=============================================================================
