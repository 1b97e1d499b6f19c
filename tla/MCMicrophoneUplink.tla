-------------------------- MODULE MCMicrophoneUplink --------------------------
(* Two cards for TLC; every run checks liveness, so there is no symmetry. *)
EXTENDS MicrophoneUplink

CONSTANTS c1, c2

=============================================================================
