---------------------------- MODULE MediaRuntime ----------------------------
(***************************************************************************)
(* The media runtime of one gateway (media_runtime.py, class MediaRuntime): *)
(* the negotiated call, the FFmpeg receiver, the G.711 audio leg that also  *)
(* carries the microphone, and the watchdog task that supervises them.      *)
(*                                                                          *)
(* The runtime has no lock of its own.  Its methods are coroutines of one   *)
(* asyncio loop: what runs between two suspensions is atomic, and other     *)
(* tasks run at every suspension.  This module holds the runtime's state as *)
(* a record and what each uninterrupted piece of code does to it; module    *)
(* MonitoringCall gives the pieces to the tasks that execute them.          *)
(***************************************************************************)
EXTENDS Naturals

CONSTANTS
  Commands,    \* tasks of user requests: websocket commands, buttons, camera
  Timers,      \* viewer clean-up timers (loop.call_later) and their tasks
  Watchdogs,   \* slots for MediaRuntime._watchdog tasks
  Reader,      \* the SIP read loop, which runs remote_ended inline
  Supervisor,  \* the manager's supervisor, which closes runtime and SIP client
  None,        \* Python's None where an object reference is expected
  MaxCalls     \* bound: how many calls (INVITEs) a behaviour may place

Tasks == Commands \cup Timers \cup Watchdogs \cup {Reader, Supervisor}

ASSUME TasksAssumption ==
  /\ MaxCalls \in Nat
  /\ None \notin Tasks
  /\ Reader # Supervisor
  /\ {Reader, Supervisor} \cap (Commands \cup Timers \cup Watchdogs) = {}
  /\ Commands \cap Timers = {}
  /\ Commands \cap Watchdogs = {}
  /\ Timers \cap Watchdogs = {}

(* A call is the number of the INVITE that placed it: its SIP Call-ID.      *)
NoCall == 0
Calls == 1 .. MaxCalls
CallOrNone == 0 .. MaxCalls

(* negotiated: the parsed SDP answer;  process: the FFmpeg child, by the    *)
(* call whose SDP it reads, with exited its returncode;  audio: the audio   *)
(* leg's socket, sending its own microphone flag;  microphone: the          *)
(* runtime's flag;  ending: teardown in progress;  monitor: the watchdog.   *)
RuntimeStates ==
  [ negotiated : CallOrNone,
    process    : CallOrNone,
    exited     : BOOLEAN,
    audio      : BOOLEAN,
    sending    : BOOLEAN,
    microphone : BOOLEAN,
    ending     : BOOLEAN,
    monitor    : Watchdogs \cup {None} ]

NewRuntime ==
  [ negotiated |-> NoCall, process |-> NoCall, exited |-> FALSE,
    audio |-> FALSE, sending |-> FALSE, microphone |-> FALSE,
    ending |-> FALSE, monitor |-> None ]


-----------------------------------------------------------------------------
(* set_microphone *)

MicrophoneAllowed(r) == r.negotiated # NoCall /\ r.audio

WithMicrophone(r, on) ==
  [r EXCEPT !.microphone = on, !.sending = r.audio /\ on]

\* mutant: only the runtime's flag is cleared
MutedInRuntimeOnly(r) == [r EXCEPT !.microphone = FALSE]

Muted(r) == WithMicrophone(r, FALSE)

-----------------------------------------------------------------------------
(* start_monitoring, from one suspension to the next *)

\* mutant: only FFmpeg tells that a session is active
ActiveByProcess(r) == r.process # NoCall

AlreadyActive(r) == r.process # NoCall \/ r.negotiated # NoCall

\* the guard has passed: sockets are being reserved and STUN is asked
Preparing(r) == [r EXCEPT !.ending = FALSE, !.microphone = FALSE]

\* a new audio leg is bound; its protocol object starts muted
AudioBound(r) == [r EXCEPT !.audio = TRUE, !.sending = FALSE]

\* the SDP answer of call n is parsed
Negotiated(r, n) == [r EXCEPT !.negotiated = n]

\* FFmpeg runs on call n's SDP, supervised by watchdog w
Spawned(r, n, w) ==
  [r EXCEPT !.process = n, !.exited = FALSE, !.monitor = w]

-----------------------------------------------------------------------------
(* _teardown.  It can suspend at three places: "cancelling" (waiting for    *)
(* the cancelled watchdog and stderr tasks), "terminating" (waiting for     *)
(* FFmpeg to exit) and "hangingUp" (waiting for the answer to the BYE).     *)
(* It skips a place whose work there is none of, so each piece of the body  *)
(* is given by the place where it stops; "out" means that it has returned.  *)

TeardownStages == {"cancelling", "terminating", "hangingUp"}

\* remote_ended is the only caller that passes send_bye=False
SendsBye(t) == t # Reader

\* end_monitoring returns at once without a dialog or without a connection
StageAfterProcess(t, hasPeer) ==
  IF SendsBye(t) /\ hasPeer THEN "hangingUp" ELSE "out"

StageAfterHelpers(r, t, hasPeer) ==
  IF r.process # NoCall /\ ~r.exited
  THEN "terminating" ELSE StageAfterProcess(t, hasPeer)

StageOfTeardown(r, t, hasPeer) ==
  IF r.ending THEN "out"
  ELSE IF r.monitor # None THEN "cancelling"
  ELSE StageAfterHelpers(r, t, hasPeer)

\* mutants: no mute, no mark, FFmpeg forgotten, the leg closed after the BYE
EndingUnmuted(r) == [r EXCEPT !.ending = TRUE, !.monitor = None]
EndingUnmarked(r) == [Muted(r) EXCEPT !.monitor = None]
ProcessKept(r) == r
AudioKept(r) == r

Ending(r)       == [Muted(r) EXCEPT !.ending = TRUE, !.monitor = None]
ProcessTaken(r) == [r EXCEPT !.process = NoCall, !.exited = FALSE]
AudioClosed(r)  == [r EXCEPT !.audio = FALSE, !.sending = FALSE]
Forgotten(r)    == [r EXCEPT !.negotiated = NoCall, !.ending = FALSE]

\* mutant: the call is forgotten before the BYE is sent
ForgottenBeforeBye(r, stage) == Forgotten(AudioClosed(r))

AfterProcess(r, stage) ==
  IF stage = "out" THEN Forgotten(AudioClosed(r)) ELSE AudioClosed(r)

AfterHelpers(r, stage) ==
  IF stage = "terminating" THEN ProcessTaken(r)
  ELSE AfterProcess(ProcessTaken(r), stage)

TornDown(r, stage) ==
  IF r.ending THEN r
  ELSE IF stage = "cancelling" THEN Ending(r)
  ELSE AfterHelpers(Ending(r), stage)

=============================================================================
