---------------------------- MODULE MCWebRTCBridge ----------------------------
(* Two browsers for TLC; the run checks liveness, so there is no symmetry. *)
EXTENDS WebRTCBridge

CONSTANTS s1, s2

=============================================================================
