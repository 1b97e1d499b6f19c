--------------------------- MODULE MonitoringCall ---------------------------
(***************************************************************************)
(* One monitoring call of one gateway: the session (MediaSession), the      *)
(* runtime (MediaRuntime) and the SIP dialog (SipClient), run by the tasks  *)
(* of Home Assistant's event loop against a gateway that may answer late,   *)
(* hang up at any moment, or be cut off.                                    *)
(*                                                                          *)
(* pc[t] is the await at which task t is suspended, "out" when it is in     *)
(* none of this code.  Every action is the code from one suspension of a    *)
(* task to its next one, and is atomic as it is in the event loop.          *)
(***************************************************************************)
EXTENDS MediaSession

CONSTANTS
  SipMayFail,  \* whether the SIP connection or registration may fail
  EarlyHangUp  \* whether the gateway may hang up on a start in progress, and the
               \* supervisor close the call of one that is sending its ACK

ASSUME EnvironmentAssumption ==
  /\ SipMayFail \in BOOLEAN
  /\ EarlyHangUp \in BOOLEAN

ASSUME JobsAssumption == Devices \cap {"none", "start", "end"} = {}

VARIABLES
  rt,        \* the MediaRuntime
  ses,       \* the MediaSession
  dialog,    \* SipClient._dialog, by the call it belongs to
  link,      \* the TLS connection: "up", "lost", or "closed" by us
  pc,        \* where each task is suspended
  job,       \* "start" or "end", or the device to start after ending
  leg,       \* the call a suspended task works on (a timer: was armed in)
  placed,    \* how many INVITEs have been sent
  phone,     \* each call at the gateway: "none", "ringing", "up", "down"
  answered,  \* calls whose 200 has resolved the pending INVITE
  byes,      \* calls whose BYE from the gateway is unread
  answering  \* browsers whose start has returned but which are not counted yet

sipVars == <<dialog, link, placed>>
gatewayVars == <<phone, answered, byes>>
\* what a task leaves alone unless it sends or reads a SIP message
outsideVars == <<link, placed, phone, answered, byes, answering>>
vars == <<rt, ses, dialog, link, pc, job, leg, placed, phone, answered, byes,
          answering>>

Stages ==
  {"out", "queued", "armed", "fired", "preparing", "inviting", "acknowledging",
   "spawning", "waiting", "deaf", "watching", "sipBye", "closing", "closed"}
    \cup TeardownStages

\* what a command or a timer holds the session lock for; "none" for the rest
Jobs == {"none", "start", "end"} \cup Devices

TypeOK ==
  /\ rt \in RuntimeStates
  /\ ses \in SessionStates
  /\ dialog \in CallOrNone
  /\ link \in {"up", "lost", "closed"}
  /\ pc \in [Tasks -> Stages]
  /\ job \in [Tasks -> Jobs]
  /\ leg \in [Tasks -> CallOrNone]
  /\ placed \in CallOrNone
  /\ phone \in [Calls -> {"none", "ringing", "up", "down"}]
  /\ answered \subseteq Calls
  /\ byes \subseteq Calls
  /\ answering \in 0 .. MaxViewers

Init ==
  /\ rt = NewRuntime
  /\ ses = NewSession
  /\ dialog = NoCall
  /\ link = "up"
  /\ pc = [t \in Tasks |-> "out"]
  /\ job = [t \in Tasks |-> "none"]
  /\ leg = [t \in Tasks |-> NoCall]
  /\ placed = 0
  /\ phone = [n \in Calls |-> "none"]
  /\ answered = {}
  /\ byes = {}
  /\ answering = 0

-----------------------------------------------------------------------------
(* Tasks and the session lock *)

\* where a task does not hold MediaSession._lock; elsewhere in start and end
\* it does ("queued" and "fired": it waits for the lock)
Unlocked == {"out", "queued", "armed", "fired"}

LockFree == \A c \in Commands \cup Timers : pc[c] \in Unlocked

\* the manager has not dropped the session (async_* find it None afterwards)
Reachable == pc[Supervisor] \notin {"sipBye", "closing", "closed"}

\* the manager passes a runtime event on to the session it has, if any
Delivered(s, heard) == IF Reachable THEN heard ELSE s

HasPeer(d) == d # NoCall /\ link # "closed"

\* a cancelled TimerHandle: one whose callback already ran cannot be stopped
TimerCancelled(pcs) ==
  [t \in Tasks |-> IF t = ses.cleanup /\ pcs[t] = "armed" THEN "out" ELSE pcs[t]]

\* mutant: the watchdog is forgotten but not cancelled
MonitorForgotten(pcs, t, r) == pcs

\* the running watchdog is cancelled, unless it is the one tearing down
MonitorCancelled(pcs, t, r) ==
  [x \in Tasks |-> IF x = r.monitor /\ t \notin Watchdogs THEN "out" ELSE pcs[x]]

\* _first_video is replaced: who still waits on the old event waits in vain
Deafened(pcs) ==
  [x \in Tasks |-> IF pcs[x] = "waiting" THEN "deaf" ELSE pcs[x]]

\* runtime.close has returned: sip.close sends a BYE of its own if it must
ClosingStage(d) == IF HasPeer(d) THEN "sipBye" ELSE "closing"

-----------------------------------------------------------------------------
(* What a task does when the coroutine it awaited returns: the runtime and  *)
(* session states it leaves and the stage where it suspends next.           *)

Started(r, s, d) ==
  LET r1 == Muted(r)
      s1 == Connecting(s, d)
  IN IF AlreadyActive(r1)
     THEN [rt |-> r1, ses |-> StartFailed(s1), at |-> "out"]
     ELSE [rt |-> Preparing(r1), ses |-> s1, at |-> "preparing"]

TeardownReturned(t, j, r, s, d) ==
  CASE j = "start"   -> [rt |-> r, ses |-> StartFailed(s), at |-> "out"]
    [] j = "end"     -> [rt |-> r, ses |-> EndFinished(s), at |-> "out"]
    [] j \in Devices -> Started(r, EndFinished(s), j)
    [] OTHER         -> [rt |-> r, ses |-> s,
                         at |-> IF t = Supervisor THEN ClosingStage(d)
                                ELSE "out"]

JobAt(j, at) ==
  CASE at = "out" -> "none" [] at = "preparing" -> "start" [] OTHER -> j

(* Task t, doing j, stops with outcome o; d is the dialog it leaves, or     *)
(* takes with it when it stops to say BYE.                                  *)
Stops(t, j, o, d, pcs) ==
  /\ rt' = o.rt
  /\ ses' = o.ses
  /\ pc' = [pcs EXCEPT ![t] = o.at]
  /\ job' = [job EXCEPT ![t] = JobAt(j, o.at)]
  /\ dialog' = IF o.at \in {"hangingUp", "sipBye"} THEN NoCall ELSE d
  /\ leg' = [x \in Tasks |->
               CASE x = t /\ o.at \in {"hangingUp", "sipBye"} -> d
                 [] x # t /\ pc'[x] # "out"                   -> leg[x]
                 [] OTHER                                     -> NoCall]

\* a stretch of _teardown that ends at stage, leaving the runtime as r
TeardownStops(t, j, stage, r, s, d, pcs) ==
  LET done == stage = "out"
      s1   == IF done THEN Delivered(s, CallEnded(s)) ELSE s
      o    == IF done THEN TeardownReturned(t, j, r, s1, d)
              ELSE [rt |-> r, ses |-> s1, at |-> stage]
  IN Stops(t, j, o, d, IF done THEN Deafened(pcs) ELSE pcs)

\* end_monitoring takes the dialog even if there is nobody to send a BYE to
Kept(t, stage, d) == IF stage = "out" /\ SendsBye(t) THEN NoCall ELSE d

\* t calls _teardown, which returns at once while another one is in progress
Teardown(t, j, r, s, d, pcs) ==
  LET stage == StageOfTeardown(r, t, HasPeer(d))
  IN IF r.ending
     THEN Stops(t, j, TeardownReturned(t, j, r, s, d), d, pcs)
     ELSE TeardownStops(t, j, stage, TornDown(r, stage), s, Kept(t, stage, d),
                        MonitorCancelled(pcs, t, r))

-----------------------------------------------------------------------------
(* _teardown resumes *)

\* the cancelled watchdog and stderr tasks are gone
HelpersGone(t) ==
  LET stage == StageAfterHelpers(rt, t, HasPeer(dialog))
  IN /\ pc[t] = "cancelling"
     /\ TeardownStops(t, job[t], stage, AfterHelpers(rt, stage), ses,
                      Kept(t, stage, dialog), pc)
     /\ UNCHANGED outsideVars

\* FFmpeg has exited, or was killed after a second
ProcessGone(t) ==
  LET stage == StageAfterProcess(t, HasPeer(dialog))
  IN /\ pc[t] = "terminating"
     /\ TeardownStops(t, job[t], stage, AfterProcess(rt, stage), ses,
                      Kept(t, stage, dialog), pc)
     /\ UNCHANGED outsideVars

\* end_monitoring returns; whatever it raised is suppressed
ByeReturns(t) ==
  /\ pc[t] = "hangingUp"
  /\ TeardownStops(t, job[t], "out", Forgotten(rt), ses, dialog, pc)
  /\ UNCHANGED <<link, placed, answered, byes, answering>>

\* the gateway answers the BYE, once the reader is free to read the answer
ByeAnswered(t) ==
  /\ link = "up"
  /\ pc[Reader] = "out"
  /\ ByeReturns(t)
  /\ phone' = [phone EXCEPT ![leg[t]] = "down"]

\* mutant: a teardown waits for the answer of the BYE for ever
ByeNeverTimesOut(t) ==
  /\ ByeReturns(t)
  /\ link # "up"
  /\ UNCHANGED phone

\* the BYE times out or fails; the gateway may have received it or not
ByeUnanswered(t) ==
  /\ ByeReturns(t)
  /\ phone' \in {phone, [phone EXCEPT ![leg[t]] = "down"]}

-----------------------------------------------------------------------------
(* MediaSession.start, and the runtime's start_monitoring under it          *)

\* a command finds the session, and finds it locked
Queues(c) ==
  /\ pc[c] = "out"
  /\ Reachable /\ ~LockFree
  /\ pc' = [pc EXCEPT ![c] = "queued"]
  /\ UNCHANGED <<rt, ses, sipVars, job, leg, gatewayVars, answering>>

\* the lock is being handed over: no time passes until its next holder has it
Handover == LockFree /\ \E c \in Commands : pc[c] = "queued"

\* a command gets the lock; one that queued still has the session it found
Admitted(c) == LockFree /\ (pc[c] = "queued" \/ (pc[c] = "out" /\ Reachable))

\* room for one more browser under the bound
Room == answering + ses.viewers < MaxViewers

\* whoever started may be a browser that goes on to answer its WebRTC offer
StartReturns ==
  answering' \in {answering} \cup {n \in {answering + 1} : Room}

Start(c, d) ==
  /\ Admitted(c)
  /\ placed < MaxCalls
  /\ ~Live(ses)
  /\ Stops(c, "start", Started(rt, ses, d), dialog, pc)
  /\ UNCHANGED outsideVars

\* the device is live already: the call is shared
StartShared(c, d) ==
  /\ Admitted(c)
  /\ Live(ses) /\ ses.device = d
  /\ StartReturns
  /\ pc' = [pc EXCEPT ![c] = "out"]
  /\ UNCHANGED <<rt, ses, sipVars, job, leg, gatewayVars>>

\* another device is live: its call is ended first
SwitchDevice(c, d) ==
  /\ Admitted(c)
  /\ placed < MaxCalls
  /\ Live(ses) /\ ses.device # d
  /\ Teardown(c, d, Muted(rt), EndBegun(ses), dialog, TimerCancelled(pc))
  /\ UNCHANGED outsideVars

\* no socket, no STUN answer, inconsistent mappings: nothing to tear down
PrepareFails(c) ==
  /\ pc[c] = "preparing"
  /\ Stops(c, "start", [rt |-> rt, ses |-> StartFailed(ses), at |-> "out"],
           dialog, pc)
  /\ UNCHANGED outsideVars

\* the SIP client refuses: a dialog is active or the connection is closed
InviteRefused(c) ==
  /\ pc[c] = "preparing"
  /\ dialog # NoCall \/ link = "closed"
  /\ Teardown(c, "start", AudioBound(rt), ses, dialog, pc)
  /\ UNCHANGED outsideVars

Invite(c) ==
  /\ pc[c] = "preparing"
  /\ dialog = NoCall /\ link # "closed"
  /\ placed' = placed + 1
  /\ phone' = [phone EXCEPT ![placed + 1] =
                 IF link = "up" THEN "ringing" ELSE "none"]
  /\ rt' = AudioBound(rt)
  /\ pc' = [pc EXCEPT ![c] = "inviting"]
  /\ leg' = [leg EXCEPT ![c] = placed + 1]
  /\ UNCHANGED <<ses, dialog, link, job, answered, byes, answering>>

\* the answer sets the dialog; the runtime does not see it before the ACK is sent
InviteAnswered(c) ==
  /\ pc[c] = "inviting"
  /\ leg[c] \in answered /\ link # "closed"
  /\ dialog' = leg[c]
  /\ pc' = [pc EXCEPT ![c] = "acknowledging"]
  /\ UNCHANGED <<rt, ses, link, job, leg, placed, gatewayVars, answering>>

\* the connection was closed meanwhile: the dialog is set, the ACK refused
AckRefused(c) ==
  /\ pc[c] = "inviting"
  /\ leg[c] \in answered /\ link = "closed"
  /\ Teardown(c, "start", rt, ses, leg[c], pc)
  /\ UNCHANGED outsideVars

\* the ACK is out: the SDP is parsed, SRTP configured
InviteAccepted(c) ==
  /\ pc[c] = "acknowledging"
  /\ rt.audio
  /\ rt' = Negotiated(rt, leg[c])
  /\ pc' = [pc EXCEPT ![c] = "spawning"]
  /\ UNCHANGED <<ses, sipVars, job, leg, gatewayVars, answering>>

(* The ACK cannot be sent, parse_answer or configure raises, or the audio    *)
(* leg is gone, because a teardown ran in the meantime.                      *)
AnswerUnusable(c) ==
  /\ pc[c] = "acknowledging"
  /\ \E r \in {rt, Negotiated(rt, leg[c])} :
       Teardown(c, "start", r, ses, dialog, pc)
  /\ UNCHANGED outsideVars

\* mutant: the error is raised before the audio leg is closed
InviteRaises(c) ==
  /\ pc[c] = "inviting"
  /\ Stops(c, "start", [rt |-> rt, ses |-> StartFailed(ses), at |-> "out"],
           dialog, pc)
  /\ UNCHANGED outsideVars

\* a failure status, a timeout, or a 200 without SDP or tag: no dialog is set
InviteFails(c) ==
  /\ pc[c] = "inviting"
  /\ Teardown(c, "start", rt, ses, dialog, pc)
  /\ phone' \in {phone, [phone EXCEPT ![leg[c]] =
                           IF @ = "ringing" THEN "down" ELSE @]}
  /\ UNCHANGED <<link, placed, answered, byes, answering>>

\* the SDP files are written and FFmpeg is running: the start succeeds
Spawn(c, w) ==
  /\ pc[c] = "spawning"
  /\ pc[w] = "out"
  /\ rt' = Spawned(rt, leg[c], w)
  /\ pc' = [pc EXCEPT ![c] = "out", ![w] = "waiting"]
  /\ job' = [job EXCEPT ![c] = "none"]
  /\ leg' = [leg EXCEPT ![c] = NoCall]
  /\ StartReturns
  /\ UNCHANGED <<ses, sipVars, gatewayVars>>

SpawnFails(c) ==
  /\ pc[c] = "spawning"
  /\ Teardown(c, "start", rt, ses, dialog, pc)
  /\ UNCHANGED outsideVars

-----------------------------------------------------------------------------
(* MediaSession.end, called by a user or by a clean-up timer *)

EndLocked(t) ==
  IF ses.state = "idle"
  THEN Stops(t, "end", [rt |-> rt, ses |-> NothingToEnd(ses), at |-> "out"],
             dialog, TimerCancelled(pc))
  ELSE Teardown(t, "end", Muted(rt), EndBegun(ses), dialog, TimerCancelled(pc))

End(c) ==
  /\ Admitted(c)
  /\ EndLocked(c)
  /\ UNCHANGED outsideVars

\* mutant: only the runtime is asked whether the microphone may go on
SetMicrophoneUnasked(on) ==
  /\ LockFree
  /\ on => MicrophoneAllowed(rt)
  /\ rt' = WithMicrophone(rt, on)
  /\ ses' = [ses EXCEPT !.microphone = on]
  /\ UNCHANGED <<sipVars, pc, job, leg, gatewayVars, answering>>

\* MediaSession.set_microphone; it never suspends.  Its caller, the uplink, may
\* still be negotiating on a session that the manager has dropped.
SetMicrophone(on) ==
  /\ LockFree
  /\ on => ses.state = "streaming" /\ MicrophoneAllowed(rt)
  /\ rt' = WithMicrophone(rt, on)
  /\ ses' = [ses EXCEPT !.microphone = on]
  /\ UNCHANGED <<sipVars, pc, job, leg, gatewayVars, answering>>

-----------------------------------------------------------------------------
(* Viewers (add_viewer, remove_viewer) and the clean-up timer *)

\* the browser's peer is answered
ViewerJoins ==
  /\ Reachable
  /\ answering > 0 /\ ses.viewers < MaxViewers
  /\ answering' = answering - 1
  /\ ses' = ViewerAdded(ses)
  /\ pc' = TimerCancelled(pc)
  /\ leg' = [x \in Tasks |-> IF pc'[x] = "out" THEN NoCall ELSE leg[x]]
  /\ UNCHANGED <<rt, sipVars, job, gatewayVars>>

\* the answer fails, or there is no session to count the viewer in
ViewerGivesUp ==
  /\ answering > 0
  /\ answering' = answering - 1
  /\ UNCHANGED <<rt, ses, sipVars, pc, job, leg, gatewayVars>>

\* the call a timer armed now is meant for
CurrentCall ==
  IF \E c \in Commands : pc[c] = "preparing" THEN placed + 1 ELSE placed

\* a browser counted in the session that this one replaced, after a failed
\* connection, leaves this one though nobody is counted
ViewerLeaves(t) ==
  /\ Reachable
  /\ ses.viewers > 0 \/ SipMayFail
  /\ StartsCleanup(ses) => pc[t] = "out"
  /\ ses' = ViewerRemoved(ses, t)
  /\ IF StartsCleanup(ses)
     THEN /\ pc' = [pc EXCEPT ![t] = "armed"]
          /\ leg' = [leg EXCEPT ![t] = CurrentCall]
     ELSE UNCHANGED <<pc, leg>>
  /\ UNCHANGED <<rt, sipVars, job, gatewayVars, answering>>

\* mutant: the callback builds the coroutine of end but no task runs it
TimerFiresInVain(t) ==
  /\ pc[t] = "armed" /\ ~Handover
  /\ pc' = [pc EXCEPT ![t] = "out"]
  /\ leg' = [leg EXCEPT ![t] = NoCall]
  /\ UNCHANGED <<rt, ses, sipVars, job, gatewayVars, answering>>

\* ten seconds later: the callback creates the task that calls end
TimerFires(t) ==
  /\ pc[t] = "armed" /\ ~Handover
  /\ pc' = [pc EXCEPT ![t] = "fired"]
  /\ UNCHANGED <<rt, ses, sipVars, job, leg, gatewayVars, answering>>

TimerEnds(t) ==
  /\ pc[t] = "fired"
  /\ LockFree
  /\ EndLocked(t)
  /\ UNCHANGED outsideVars

-----------------------------------------------------------------------------
(* FFmpeg and the watchdog *)

MediaFlows ==
  /\ rt.process # NoCall /\ ~rt.exited
  /\ phone[rt.process] = "up"

\* first_frame and streams_running are sent to the session
FirstVideo(w) ==
  /\ pc[w] = "waiting"
  /\ MediaFlows
  /\ pc' = [pc EXCEPT ![w] = "watching"]
  /\ ses' = Delivered(ses, StreamsRunning(ses))
  /\ UNCHANGED <<rt, sipVars, job, leg, gatewayVars, answering>>

FFmpegExits ==
  /\ rt.process # NoCall /\ ~rt.exited
  /\ rt' = [rt EXCEPT !.exited = TRUE]
  /\ UNCHANGED <<ses, sipVars, pc, job, leg, gatewayVars, answering>>

\* mutant: the watchdog looks only at FFmpeg's exit code
WatchdogFailsOnExit(w) ==
  /\ pc[w] \in {"waiting", "deaf", "watching"} /\ ~Handover
  /\ rt.exited
  /\ Teardown(w, "none", rt, Delivered(ses, RuntimeError(ses)), dialog, pc)
  /\ UNCHANGED outsideVars

\* no first frame for 15 s, no media for 10 s, or FFmpeg exited
WatchdogFails(w) ==
  /\ pc[w] \in {"waiting", "deaf", "watching"} /\ ~Handover
  /\ Teardown(w, "none", rt, Delivered(ses, RuntimeError(ses)), dialog, pc)
  /\ UNCHANGED outsideVars

-----------------------------------------------------------------------------
(* The SIP read loop: it reads nothing while a handler of its own awaits *)

Reading == link = "up" /\ pc[Reader] = "out"

\* is a task still waiting for the answer of call n, sent before any BYE?
AwaitsAnswer(n) ==
  n \notin answered /\ \E c \in Commands : pc[c] = "inviting" /\ leg[c] = n

ReadAnswer(n) ==
  /\ Reading
  /\ phone[n] \in {"up", "down"}
  /\ AwaitsAnswer(n)
  /\ answered' = answered \cup {n}
  /\ UNCHANGED <<rt, ses, sipVars, pc, job, leg, phone, byes, answering>>

\* a BYE for the dialog: answered, then remote_ended runs inline
RemoteEnded(n) ==
  /\ Reading
  /\ n \in byes
  /\ dialog = n
  /\ byes' = byes \ {n}
  /\ Teardown(Reader, "none", rt, ses, NoCall, pc)
  /\ UNCHANGED <<link, placed, phone, answered, answering>>

\* a BYE for any other call is answered and has no effect
ByeIgnored(n) ==
  /\ Reading
  /\ n \in byes
  /\ dialog # n /\ ~AwaitsAnswer(n)
  /\ byes' = byes \ {n}
  /\ UNCHANGED <<rt, ses, sipVars, pc, job, leg, phone, answered, answering>>

-----------------------------------------------------------------------------
(* The gateway and the network *)

GatewayPicksUp(n) ==
  /\ phone[n] = "ringing"
  /\ phone' = [phone EXCEPT ![n] = "up"]
  /\ UNCHANGED <<rt, ses, sipVars, pc, job, leg, answered, byes, answering>>

BeingStarted(n) ==
  \E c \in Commands :
    pc[c] \in {"inviting", "acknowledging", "spawning"} /\ leg[c] = n

GatewayHangsUp(n) ==
  /\ phone[n] = "up"
  /\ EarlyHangUp \/ ~BeingStarted(n)
  /\ phone' = [phone EXCEPT ![n] = "down"]
  /\ byes' = byes \cup {n}
  /\ UNCHANGED <<rt, ses, sipVars, pc, job, leg, answered, answering>>

LinkLost ==
  /\ SipMayFail
  /\ link = "up"
  /\ link' = "lost"
  /\ UNCHANGED <<rt, ses, dialog, placed, pc, job, leg, gatewayVars, answering>>

-----------------------------------------------------------------------------
(* The supervisor, once the connection or the registration has failed:      *)
(* runtime.close(), drop the session, sip.close().                          *)

SupervisorCloses ==
  /\ SipMayFail
  /\ pc[Supervisor] = "out"
  /\ EarlyHangUp \/ \A c \in Commands : pc[c] # "acknowledging"
  /\ Teardown(Supervisor, "none", rt, ses, dialog, pc)
  /\ UNCHANGED outsideVars

SupervisorByeReturns ==
  /\ pc[Supervisor] = "sipBye"
  /\ pc' = [pc EXCEPT ![Supervisor] = "closing"]
  /\ leg' = [leg EXCEPT ![Supervisor] = NoCall]
  /\ phone' \in {phone, [phone EXCEPT ![leg[Supervisor]] = "down"]}
  /\ UNCHANGED <<rt, ses, sipVars, job, answered, byes, answering>>

(* The reader is cancelled, which cuts short a teardown it is in the middle *)
(* of, and the writer is closed.                                            *)
SipCloses ==
  /\ pc[Supervisor] = "closing"
  /\ link' = "closed"
  /\ rt' = IF pc[Reader] = "out" THEN rt ELSE [rt EXCEPT !.ending = FALSE]
  /\ pc' = [pc EXCEPT ![Supervisor] = "closed", ![Reader] = "out"]
  /\ UNCHANGED <<ses, dialog, placed, job, leg, gatewayVars, answering>>

-----------------------------------------------------------------------------
TeardownStep(t) ==
  HelpersGone(t) \/ ProcessGone(t) \/ ByeAnswered(t) \/ ByeUnanswered(t)

StartStep(c) ==
  \/ PrepareFails(c) \/ InviteRefused(c) \/ Invite(c)
  \/ InviteAnswered(c) \/ AckRefused(c) \/ InviteAccepted(c)
  \/ AnswerUnusable(c) \/ InviteFails(c)
  \/ (\E w \in Watchdogs : Spawn(c, w)) \/ SpawnFails(c)

UserStep(c) ==
  \/ \E d \in Devices : Start(c, d) \/ StartShared(c, d) \/ SwitchDevice(c, d)
  \/ End(c)

ViewerStep ==
  ViewerJoins \/ ViewerGivesUp \/ \E t \in Timers : ViewerLeaves(t)

TimerStep(t) == TimerFires(t) \/ TimerEnds(t)

WatchdogStep(w) == FirstVideo(w) \/ WatchdogFails(w)

ReaderStep(n) == ReadAnswer(n) \/ RemoteEnded(n) \/ ByeIgnored(n)

GatewayStep(n) == GatewayPicksUp(n) \/ GatewayHangsUp(n)

SupervisorStep == SupervisorCloses \/ SupervisorByeReturns \/ SipCloses

Next ==
  \/ \E t \in Tasks : TeardownStep(t)
  \/ \E c \in Commands : Queues(c) \/ UserStep(c) \/ StartStep(c)
  \/ \E on \in BOOLEAN : SetMicrophone(on)
  \/ ViewerStep
  \/ \E t \in Timers : TimerStep(t)
  \/ \E w \in Watchdogs : WatchdogStep(w)
  \/ \E n \in Calls : ReaderStep(n) \/ GatewayStep(n)
  \/ FFmpegExits
  \/ LinkLost
  \/ SupervisorStep

Spec == Init /\ [][Next]_vars

\* a teardown goes on without the gateway: the wait for its answer times out
TeardownGoesOn(t) == HelpersGone(t) \/ ProcessGone(t) \/ ByeUnanswered(t)

(* What the event loop and the timeouts of the code guarantee: a task that  *)
(* can go on goes on, every await in a start or a teardown is bounded, the  *)
(* lock is handed over in FIFO order (hence SF for those that wait for it), *)
(* and the watchdog gives up when no media arrives.  Users, gateway,        *)
(* network and FFmpeg promise nothing.                                      *)
Fairness ==
  /\ \A t \in Tasks : WF_vars(TeardownGoesOn(t))
  /\ \A c \in Commands :
       WF_vars(StartStep(c)) /\ SF_vars(pc[c] = "queued" /\ UserStep(c))
  /\ \A t \in Timers : WF_vars(TimerFires(t)) /\ SF_vars(TimerEnds(t))
  /\ \A w \in Watchdogs : WF_vars(~MediaFlows /\ WatchdogFails(w))
  /\ \A n \in Calls : WF_vars(ReaderStep(n))

FairSpec == Spec /\ Fairness

-----------------------------------------------------------------------------
(* Whatever the gateway, the network and the tasks do                       *)

\* Between the moment end() disables capture (media_session.py: "disable
\* capture before the call object is released") and its return, nothing turns
\* the microphone on again: neither flag is set in any ENDING state.
EndingMuted == ses.state = "ending" => ~rt.microphone /\ ~rt.sending

\* The panel says that the microphone is on only in a call that is streaming:
\* every path out of "streaming", through end, event or error, resets it.
MicrophoneOnlyWhileStreaming == ses.microphone => ses.state = "streaming"

\* When no task is anywhere in start, end, a watchdog or the close of a failed
\* connection, nothing is left of a call: whichever of its steps failed, no
\* dialog, answer or audio leg leaks.  (SipCloses itself may leave something, if
\* it cuts short a teardown of the reader.)
NothingLeftWhenQuiet ==
  (\A t \in Tasks : pc[t] \in Unlocked)
    => dialog = NoCall /\ rt.negotiated = NoCall /\ ~rt.audio

\* What the microphone uplink (MicrophoneUplink) is built on: every step of the
\* call is one that UplinkSession allows.  The microphone goes on only in a
\* session that streams and whose lock is free, and goes off with it.
Uplink == INSTANCE UplinkSession WITH
  streaming <- ses.state = "streaming" /\ LockFree, mic <- ses.microphone

SessionForUplink == Uplink!SessionSpec

-----------------------------------------------------------------------------
(* With a gateway that does not hang up on a start in progress              *)

Tearing(t) == pc[t] \in TeardownStages

Supervising(w) == pc[w] \in {"waiting", "deaf", "watching"}

\* Audio is sent to the external unit only while the panel says so, in every
\* interleaving of commands, watchdog, remote BYE and the supervisor's close.
NoSilentMicrophone == rt.sending => ses.microphone

\* _ending excludes: at most one task is inside _teardown, and the flag is set
\* exactly while one is.
TeardownExclusive ==
  /\ \A t, u \in Tasks : Tearing(t) /\ Tearing(u) => t = u
  /\ rt.ending <=> \E t \in Tasks : Tearing(t)

\* No two watchdogs supervise at once: a new call never inherits the last one's.
OneWatchdog ==
  \A v, w \in Watchdogs : Supervising(v) /\ Supervising(w) => v = w

\* The SIP client and the runtime agree on the call: a dialog is never that of
\* an earlier call, nor left over when the runtime has forgotten its call.  It is
\* ahead of the runtime only while the start that was answered sends its ACK.
DialogIsNegotiated ==
  dialog # NoCall =>
    \/ rt.negotiated = dialog
    \/ /\ rt.negotiated = NoCall
       /\ \E c \in Commands : pc[c] = "acknowledging" /\ leg[c] = dialog

\* Nothing is being sent when a task starts to say BYE.
MutedAtBye ==
  [][ \A t \in Tasks : pc'[t] \in {"hangingUp", "sipBye"} /\ pc'[t] # pc[t]
        => ~rt'.sending ]_vars

-----------------------------------------------------------------------------
(* With a connection that holds as well                                     *)

\* FFmpeg never runs without a watchdog that will find out that it failed, or
\* a teardown that has yet to stop it.
FFmpegIsWatched ==
  rt.process # NoCall => \E t \in Tasks : Tearing(t) \/ Supervising(t)

\* "streaming" is shown only while there is a call.
StreamingHasCall == ses.state = "streaming" => rt.negotiated # NoCall

\* An error stays on show until a user starts or ends, or a clean-up does; the
\* end of the failed call, which follows it, does not hide it.
ErrorStays ==
  [][ ses.state = "error" /\ ses'.state # "error" =>
        \/ \E c \in Commands : UserStep(c)
        \/ \E t \in Timers : TimerEnds(t)
        \/ \E t \in Commands \cup Timers : TeardownStep(t) ]_vars

\* The whole keeps the promise of CallPromise.
Promise == INSTANCE CallPromise WITH
  call <- rt.negotiated, media <- rt.process, hot <- rt.sending,
  shown <- ses.microphone

KeepsPromise == Promise!PromiseSpec

-----------------------------------------------------------------------------
(* Progress, under FairSpec *)

\* Every start and every end returns, even if the gateway never answers.
CommandsFinish == \A c \in Commands : pc[c] # "out" ~> pc[c] = "out"

\* FFmpeg does not go on receiving a call that the gateway has ended, even if
\* the BYE was lost or came at the wrong moment.
DeadCallReleased ==
  \A n \in Calls : (rt.process = n /\ phone[n] = "down") ~> rt.process # n

\* After the last viewer has left a live call, it ends or somebody watches it.
AbandonedCallEnds ==
  (ses.cleanup # None /\ Live(ses)) ~> (~Live(ses) \/ ses.viewers > 0)

-----------------------------------------------------------------------------
(* What the code says of itself and does not do *)

\* remote_ended: "Tear media down after a remote BYE".  Once the BYE of a call
\* has been handled and no teardown runs, FFmpeg is not receiving that call.
RemoteEndTearsMediaDown ==
  \A n \in Calls :
    phone[n] = "down" /\ n \notin byes /\ dialog # n /\ Reading /\ ~rt.ending
      => rt.process # n

\* README.md: "the call ends ten seconds after the final viewer disconnects".
\* A clean-up timer ends no other call than the one its viewers left.
CleanupEndsItsOwnCall ==
  [][ \A t \in Timers : pc[t] = "fired" /\ pc'[t] # "fired" /\ Live(ses)
        => leg[t] = CurrentCall ]_vars

\* media_session.py: "disable capture before the call object is released".
MutedBeforeRelease ==
  [][ rt.negotiated # NoCall /\ rt'.negotiated = NoCall => ~rt'.sending ]_vars

=============================================================================
