---------------------------- MODULE UplinkSession ----------------------------
(***************************************************************************)
(* What the microphone uplink relies on: the media session reduced to       *)
(* whether it accepts a microphone, and its microphone flag.  Module        *)
(* MonitoringCall implements this (SessionForUplink), and module            *)
(* MicrophoneUplink is built on it.                                         *)
(***************************************************************************)
VARIABLES
  streaming,  \* the session streams, and no start or end holds its lock
  mic         \* MediaSession.microphone_enabled

sessionVars == <<streaming, mic>>

SessionInit == streaming = FALSE /\ mic = FALSE

\* a command, an event or the end of either: none leaves the microphone on
SessionMoves == streaming' = ~streaming /\ mic' = FALSE

\* set_microphone(on) gets the session's lock and obeys
MicrophoneSet(on) ==
  /\ on => streaming
  /\ mic' = on
  /\ UNCHANGED streaming

SessionSpec ==
  SessionInit /\ [][SessionMoves \/ \E on \in BOOLEAN : MicrophoneSet(on)]_sessionVars

=============================================================================
