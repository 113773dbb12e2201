--------------------------- MODULE MCWebRtcClient ---------------------------
(* WebRtcClient for TLC: a session in use and the one it replaced.              *)
EXTENDS WebRtcClient
=============================================================================
