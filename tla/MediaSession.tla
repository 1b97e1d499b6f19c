---------------------------- MODULE MediaSession ----------------------------
(***************************************************************************)
(* The session the user sees (media_session.py, class MediaSession): its    *)
(* state machine, its microphone flag, and the viewers whose departure ends *)
(* the call.  As in module MediaRuntime, the state is a record and the      *)
(* operators are uninterrupted pieces of the methods; module MonitoringCall *)
(* runs them.                                                               *)
(***************************************************************************)
EXTENDS MediaRuntime

CONSTANTS
  Devices,     \* external units a user may ask for
  MaxViewers   \* bound: WebRTC viewers counted at a time

ASSUME SessionAssumption ==
  /\ None \notin Devices
  /\ MaxViewers \in Nat

SessionStates ==
  [ state      : {"idle", "connecting", "streaming", "ending", "error"},
    device     : Devices \cup {None},
    microphone : BOOLEAN,
    viewers    : 0 .. MaxViewers,
    cleanup    : Timers \cup {None} ]

NewSession ==
  [ state |-> "idle", device |-> None, microphone |-> FALSE,
    viewers |-> 0, cleanup |-> None ]

Live(s) == s.state \in {"connecting", "streaming"}

-----------------------------------------------------------------------------
(* start, _end_locked and set_microphone, between their awaits *)

Connecting(s, d) ==
  [s EXCEPT !.state = "connecting", !.device = d, !.microphone = FALSE]

StartFailed(s) == [s EXCEPT !.state = "error", !.microphone = FALSE]

CleanupCancelled(s) == [s EXCEPT !.cleanup = None]

\* _end_locked found no call
NothingToEnd(s) == [CleanupCancelled(s) EXCEPT !.microphone = FALSE]

\* _end_locked up to runtime.end_session, and its finally clause
EndBegun(s) ==
  [CleanupCancelled(s) EXCEPT !.state = "ending", !.microphone = FALSE]

\* mutant: the state is given the name of the runtime's event
EndFinishedAsEvent(s) ==
  [s EXCEPT !.state = "ended", !.device = None, !.microphone = FALSE]

EndFinished(s) ==
  [s EXCEPT !.state = "idle", !.device = None, !.microphone = FALSE]

-----------------------------------------------------------------------------
(* handle_event, by the event *)

StreamsRunning(s) == [s EXCEPT !.state = "streaming"]

\* mutant: the microphone stays on after an error
ErrorKeepsMicrophone(s) == [s EXCEPT !.state = "error"]

RuntimeError(s) == [s EXCEPT !.state = "error", !.microphone = FALSE]

\* mutants: the event hides an error, or is ignored while streaming
EndHidesError(s) == EndFinished(s)
EndIgnoredWhileStreaming(s) ==
  IF s.state \in {"error", "streaming"} THEN s ELSE EndFinished(s)

CallEnded(s) == IF s.state = "error" THEN s ELSE EndFinished(s)

-----------------------------------------------------------------------------
(* add_viewer and remove_viewer; t is the timer call_later creates *)

ViewerAdded(s) == [CleanupCancelled(s) EXCEPT !.viewers = @ + 1]

StartsCleanup(s) == s.viewers <= 1 /\ Live(s)

ViewerRemoved(s, t) ==
  [s EXCEPT !.viewers = IF @ = 0 THEN 0 ELSE @ - 1,
            !.cleanup = IF StartsCleanup(s) THEN t ELSE @]

=============================================================================
