------------------------ MODULE ConnectedCall_proofs ------------------------
(***************************************************************************)
(* Theorems about MonitoringCall with a gateway that does not hang up on a  *)
(* start in progress, for as long as the supervisor has not dropped the     *)
(* session: somebody is always in charge of a call.                         *)
(***************************************************************************)
EXTENDS PatientCall_proofs

\* where a task works on a call or watches it
InCharge(at) ==
  at \in {"inviting", "acknowledging", "spawning", "waiting", "deaf", "watching"}
           \cup TeardownStages

\* an answer or a socket has a task that will let go of it
CallIsOwned ==
  rt.negotiated # NoCall \/ rt.audio => \E t \in Tasks : InCharge(pc[t])

\* FFmpeg has its watchdog, or a teardown that has still to stop it
FFmpegIsOwned ==
  rt.process # NoCall => \/ \E t \in Tasks : pc[t] = "cancelling"
                         \/ \E w \in Watchdogs : Supervising(w)

\* the panel says what the tasks are doing
StartIsShown == \A c \in Commands : Starting(c) => ses.state = "connecting"
SupervisedIsLive == \A w \in Watchdogs : Supervising(w) => Live(ses)

ServedInv ==
  pc[Supervisor] = "out" =>
    /\ link # "closed"
    /\ CallIsOwned /\ FFmpegIsOwned /\ StartIsShown /\ SupervisedIsLive
    /\ StreamingHasCall

-----------------------------------------------------------------------------
(* Teardowns.                                                               *)

\* What returning from a teardown shows of the session.
LEMMA ReturnedSession ==
  ASSUME NEW t \in Tasks, NEW j \in Jobs, NEW q, NEW s \in SessionStates,
         Returned(t, j, q, s)
  PROVE  /\ pc'[t] = "preparing" => ses'.state = "connecting"
         /\ ses'.state = "streaming" => s.state = "streaming" /\ j = "none"
<1>1. CASE j = "start"
  <2>1. pc'[t] = "out" /\ ses' = StartFailed(s)
    BY <1>1, JobsAssumption DEF Returned, ReturnedFromStart
  <2>2. QED
    BY <2>1 DEF StartFailed, SessionStates
<1>2. CASE j = "end"
  <2>1. pc'[t] = "out" /\ ses' = EndFinished(s)
    BY <1>2, JobsAssumption DEF Returned, ReturnedFromEnd
  <2>2. QED
    BY <2>1 DEF EndFinished, SessionStates
<1>3. CASE j \in Devices
  <2> DEFINE s1 == Connecting(EndFinished(s), j)
  <2>1. s1 \in SessionStates /\ s1.state = "connecting"
    <3>1. EndFinished(s) \in SessionStates
      BY SessionTypes
    <3>2. QED
      BY <1>3, <3>1, SessionTypes DEF Connecting, SessionStates
  <2>2. \/ pc'[t] = "out" /\ ses' = StartFailed(s1)
        \/ pc'[t] = "preparing" /\ ses' = s1
    BY <1>3, JobsAssumption DEF Returned, BeganStart
  <2> HIDE DEF s1
  <2>3. QED
    BY <2>1, <2>2 DEF StartFailed, SessionStates
<1>4. CASE j = "none"
  <2>1. pc'[t] \in {"out", "sipBye", "closing"} /\ ses' = s
    BY <1>4, JobsAssumption DEF Returned, ReturnedToCaller
  <2>2. QED
    BY <1>4, <2>1
<1>5. QED
  BY <1>1, <1>2, <1>3, <1>4 DEF Jobs

\* The end of a call is heard by a session that has not been dropped.
LEMMA EndedIsHeard ==
  ASSUME NEW s \in SessionStates
  PROVE  /\ Ended(s) \in SessionStates
         /\ Reachable => /\ Ended(s).state # "streaming"
                         /\ s.state = "error" => Ended(s) = s
BY SessionTypes DEF Ended, Delivered, CallEnded, EndFinished, SessionStates

\* A stretch of a teardown by another task than the supervisor leaves the
\* supervisor where it is; one by the supervisor never leaves it "out".
LEMMA SupervisorStaysOut ==
  ASSUME Before, NEW t \in Tasks, NEW m \in Watchdogs \cup {None}, OthersShed(t, m),
         NEW j \in Jobs, JobFits(t, j), NEW stage, NEW q, NEW s, NEW s1, NEW d,
         IF stage = "out" THEN Left(t, j, q, s1, d)
         ELSE SuspendedAt(t, j, stage, q, s, d),
         pc'[Supervisor] = "out"
  PROVE  t # Supervisor /\ pc[Supervisor] = "out"
<1>1. t # Supervisor
  BY SupervisorReturns DEF Left, SuspendedAt, TeardownStages
<1>2. QED
  BY <1>1, OthersStay

\* A task begins a teardown or goes on with its own.
LEMMA StretchServes ==
  ASSUME Before, PatientInv', ServedInv, link' = link, pc[Supervisor] = "out",
         NEW t \in Tasks \ {Supervisor},
         NEW m \in Watchdogs \cup {None}, OthersShed(t, m),
         NEW j \in Jobs, NEW stage \in TeardownStages \cup {"out"},
         NEW q \in RuntimeStates, NEW s \in SessionStates, NEW d,
         IF stage = "out" THEN Left(t, j, q, Ended(s), d)
         ELSE SuspendedAt(t, j, stage, q, s, d),
         \A c \in Commands \ {t} : ~Starting(c),
         q.monitor = None,
         q.process # NoCall => stage = "cancelling",
         stage = "out" => q.negotiated = NoCall /\ ~q.audio,
         stage # "out" /\ s.state = "streaming" => q.negotiated # NoCall
  PROVE  ServedInv'
<1>1. \A c \in Commands \ {t} : ~Starting(c)'
  BY OthersStay DEF Starting
<1>2. ASSUME rt'.monitor = None PROVE \A w \in Watchdogs : ~Supervising(w)'
  BY <1>2, TasksAssumption DEF PatientInv, MonitorWatches, Tasks
<1>3. link' # "closed"
  BY DEF ServedInv
<1>4. CASE stage # "out"
  <2>1. /\ stage \in TeardownStages /\ pc'[t] = stage /\ rt' = q /\ ses' = s
    BY <1>4 DEF SuspendedAt
  <2>2. \A w \in Watchdogs : ~Supervising(w)'
    BY <1>2, <2>1
  <2>3. \A c \in Commands : ~Starting(c)'
    BY <1>1, <2>1 DEF Starting, TeardownStages
  <2>4. CallIsOwned' /\ FFmpegIsOwned'
    BY <2>1 DEF CallIsOwned, FFmpegIsOwned, InCharge
  <2>5. StreamingHasCall'
    BY <1>4, <2>1 DEF StreamingHasCall
  <2>6. QED
    BY <1>3, <2>2, <2>3, <2>4, <2>5 DEF ServedInv, StartIsShown, SupervisedIsLive
<1>5. CASE stage = "out"
  <2>1. Returned(t, j, q, Ended(s))
    BY <1>5 DEF Left
  <2>2. /\ rt'.process = NoCall /\ rt'.negotiated = NoCall /\ rt'.monitor = None
        /\ ~rt'.audio /\ pc'[t] \in {"out", "preparing", "sipBye", "closing"}
    BY <1>5, <2>1, ReturnedRuntime DEF TeardownStages
  <2>3. \A w \in Watchdogs : ~Supervising(w)'
    BY <1>2, <2>2
  <2>4. CallIsOwned' /\ FFmpegIsOwned'
    BY <2>2 DEF CallIsOwned, FFmpegIsOwned
  <2>5. Ended(s) \in SessionStates /\ Ended(s).state # "streaming"
    BY EndedIsHeard DEF Reachable
  <2>6. /\ pc'[t] = "preparing" => ses'.state = "connecting"
        /\ ses'.state # "streaming"
    BY <2>1, <2>5, ReturnedSession
  <2>7. StreamingHasCall' /\ StartIsShown'
    BY <1>1, <2>2, <2>6 DEF StreamingHasCall, StartIsShown, Starting
  <2>8. QED
    BY <1>3, <2>3, <2>4, <2>7 DEF ServedInv, SupervisedIsLive
<1>6. QED
  BY <1>4, <1>5

\* A task finds another one in the middle of a teardown.
LEMMA DeclineServes ==
  ASSUME Before, PatientInv', ServedInv, link' = link, pc[Supervisor] = "out",
         NEW t \in Tasks \ {Supervisor}, OthersShed(t, None),
         rt.ending, ~Tearing(t),
         NEW j \in Jobs, NEW r \in RuntimeStates, NEW s \in SessionStates, NEW d,
         Left(t, j, r, s, d), SameMedia(r),
         s.state = "streaming" => r.negotiated # NoCall
  PROVE  ServedInv'
<1>1. PICK u \in Tasks : Tearing(u)
  BY DEF Before, PatientInv, TeardownExclusive
<1>2. u # t /\ pc'[u] = pc[u]
  BY <1>1, TasksAssumption DEF OthersShed, Tearing, TeardownStages
<1>3. Returned(t, j, r, s)
  BY DEF Left
<1>4. /\ rt'.process = r.process /\ rt'.negotiated = r.negotiated
      /\ rt'.monitor = r.monitor
  BY <1>3, ReturnedRuntime
<1>5. rt.monitor = None
  BY DEF Before, PatientInv, MonitorWatches
<1>6. \A w \in Watchdogs : ~Supervising(w) /\ ~Supervising(w)'
  BY <1>4, <1>5, TasksAssumption DEF Before, PatientInv, MonitorWatches, SameMedia, Tasks
<1>7. \A c \in Commands \ {t} : ~Starting(c)'
  <2>1. \A c \in Commands : ~Starting(c)
    BY DEF Before, PatientInv, UnansweredStartIsAlone, AcknowledgingStartHasDialog,
       AnsweredStartHasCall, CallOfSpawning, Reachable, Starting
  <2>2. None \in Watchdogs \cup {None}
    OBVIOUS
  <2>3. QED
    BY <2>1, <2>2, OthersStay DEF Starting
<1>8. StartIsShown' /\ StreamingHasCall'
  BY <1>3, <1>4, <1>7, ReturnedRuntime, ReturnedSession
     DEF StartIsShown, StreamingHasCall, Starting
<1>9. CallIsOwned'
  BY <1>1, <1>2 DEF CallIsOwned, InCharge, Tearing
<1>10. FFmpegIsOwned'
  <2> SUFFICES ASSUME rt'.process # NoCall PROVE \E x \in Tasks : pc'[x] = "cancelling"
    BY DEF FFmpegIsOwned
  <2>1. PICK x \in Tasks : pc[x] = "cancelling"
    BY <1>4, <1>6 DEF ServedInv, FFmpegIsOwned, SameMedia
  <2>2. x = u
    BY <1>1, <2>1 DEF Before, PatientInv, TeardownExclusive, Tearing, TeardownStages
  <2>3. QED
    BY <1>2, <2>1, <2>2
<1>11. QED
  BY <1>6, <1>8, <1>9, <1>10 DEF ServedInv, SupervisedIsLive

\* A task calls _teardown.
LEMMA CallServes ==
  ASSUME Before, PatientInv', ServedInv, link' = link, pc'[Supervisor] = "out",
         NEW t \in Tasks, ~Tearing(t), NEW j \in Jobs, JobFits(t, j),
         NEW r \in RuntimeStates, NEW s \in SessionStates, NEW d \in CallOrNone,
         NEW pcs \in {pc, TimerCancelled(pc)},
         Teardown(t, j, r, s, d, pcs), SameMedia(r),
         t = Reader => d = NoCall,
         ~rt.ending /\ t # Supervisor => \A c \in Commands \ {t} : ~Starting(c),
         pc[Supervisor] = "out" /\ s.state = "streaming" => r.negotiated # NoCall
  PROVE  ServedInv'
<1> DEFINE stage == StageOfTeardown(r, t, HasPeer(d))
           q == TornDown(r, stage)
           m == CancelledBy(t, r)
<1>1. /\ TypeOK /\ stage \in TeardownStages \cup {"out"} /\ q \in RuntimeStates
      /\ m \in Watchdogs \cup {None} /\ r.ending = rt.ending
      /\ None \in Watchdogs \cup {None}
  BY StagesOfTeardown, TeardownTypes
     DEF Before, IInv, CancelledBy, RuntimeStates, SameMedia
<1>2. /\ r.ending => Left(t, j, r, s, d) /\ OthersShed(t, None)
      /\ ~r.ending =>
           /\ OthersShed(t, m)
           /\ IF stage = "out"
              THEN Left(t, j, q, Ended(s), Kept(t, stage, d))
              ELSE SuspendedAt(t, j, stage, q, s, d)
  BY <1>1, TeardownExactly
<1>3. CASE ~rt.ending
  <2> DEFINE k == Kept(t, stage, d)
  <2>1. stage # "out" => k = d
    BY DEF Kept
  <2>2. /\ OthersShed(t, m)
        /\ IF stage = "out" THEN Left(t, j, q, Ended(s), k)
           ELSE SuspendedAt(t, j, stage, q, s, k)
    BY <1>1, <1>2, <1>3, <2>1
  <2>3. /\ q.monitor = None
        /\ q.negotiated = IF stage = "out" THEN NoCall ELSE r.negotiated
        /\ q.process = IF stage = "cancelling" THEN r.process ELSE NoCall
        /\ stage \in {"hangingUp", "out"} => ~q.audio
    BY <1>1, <1>3, TornDownLeaves
  <2> HIDE DEF q, stage, m, k
  <2>4. t # Supervisor /\ pc[Supervisor] = "out"
    BY <1>1, <2>2, SupervisorStaysOut
  <2>5. \A c \in Commands \ {t} : ~Starting(c)
    BY <1>3, <2>4
  <2>6. stage # "out" /\ s.state = "streaming" => q.negotiated # NoCall
    BY <2>3, <2>4
  <2>7. /\ q.process # NoCall => stage = "cancelling"
        /\ stage = "out" => q.negotiated = NoCall /\ ~q.audio
    BY <2>3
  <2>8. QED
    BY <1>1, <2>2, <2>3, <2>4, <2>5, <2>6, <2>7, StretchServes
<1>4. CASE rt.ending
  <2>1. OthersShed(t, None) /\ Left(t, j, r, s, d)
    BY <1>1, <1>2, <1>4
  <2>2. t # Supervisor /\ pc[Supervisor] = "out"
    BY <1>1, <2>1, SupervisorStaysOut
  <2>3. QED
    BY <1>4, <2>1, <2>2, DeclineServes
<1>5. QED
  BY <1>3, <1>4

\* A task goes on with its teardown.
LEMMA ResumeServes ==
  ASSUME Before, PatientInv', ServedInv, link' = link, pc'[Supervisor] = "out",
         NEW t \in Tasks, Tearing(t),
         NEW stage \in {"terminating", "hangingUp", "out"},
         NEW q \in RuntimeStates, NEW d \in CallOrNone,
         TeardownStops(t, job[t], stage, q, ses, d, pc),
         q.monitor = rt.monitor,
         t # Supervisor => q.process = NoCall,
         stage = "out" => q.negotiated = NoCall /\ ~q.audio,
         stage # "out" => q.negotiated = rt.negotiated
  PROVE  ServedInv'
<1>1. /\ TypeOK /\ pc \in [Tasks -> Stages] /\ job[t] \in Jobs
      /\ ses \in SessionStates /\ JobFits(t, job[t]) /\ rt.ending
      /\ stage \in TeardownStages \cup {"out"}
  BY DEF Before, IInv, TypeOK, KindInv, Fits, JobFits, Lockers, Tearing,
     PatientInv, TeardownExclusive, TeardownStages
<1>2. /\ IF stage = "out" THEN Left(t, job[t], q, Ended(ses), d)
         ELSE SuspendedAt(t, job[t], stage, q, ses, d)
      /\ OthersShed(t, None)
  <2>1. /\ IF stage = "out"
           THEN Left(t, job[t], q, Ended(ses), d)
           ELSE SuspendedAt(t, job[t], stage, q, ses, d)
        /\ \A x \in Tasks \ {t} :
             /\ job'[x] = job[x]
             /\ pc'[x] # "out" => leg'[x] = leg[x]
             /\ pc'[x] = pc[x] \/ (pc[x] = "waiting" /\ pc'[x] = "deaf")
    BY <1>1, TeardownStopsExactly
  <2>2. QED
    BY <2>1, TasksAssumption DEF OthersShed
<1>3. t # Supervisor /\ pc[Supervisor] = "out"
  <2>1. None \in Watchdogs \cup {None}
    OBVIOUS
  <2>2. QED
    BY <1>1, <1>2, <2>1, SupervisorStaysOut
<1>4. rt.monitor = None
  BY <1>1, <1>3 DEF Before, PatientInv, MonitorWatches
<1>5. \A c \in Commands \ {t} : ~Starting(c)
  BY <1>3, StartsDuringTeardown
<1>6. stage # "out" /\ ses.state = "streaming" => q.negotiated # NoCall
  BY <1>3 DEF ServedInv, StreamingHasCall
<1>7. None \in Watchdogs \cup {None}
  OBVIOUS
<1>8. QED
  BY <1>1, <1>2, <1>3, <1>4, <1>5, <1>6, <1>7, StretchServes

LEMMA TeardownStepServes ==
  ASSUME Before, PatientInv', ServedInv, pc'[Supervisor] = "out",
         NEW t \in Tasks, TeardownStep(t)
  PROVE  ServedInv'
<1>1. rt \in RuntimeStates /\ dialog \in CallOrNone
  BY DEF Before, IInv, TypeOK
<1>2. CASE HelpersGone(t)
  <2> DEFINE stage == StageAfterHelpers(rt, t, HasPeer(dialog))
             q == AfterHelpers(rt, stage)
             k == Kept(t, stage, dialog)
  <2>1. /\ Tearing(t) /\ link' = link
        /\ TeardownStops(t, job[t], stage, q, ses, k, pc)
    BY <1>2 DEF HelpersGone, Tearing, TeardownStages, outsideVars
  <2>2. /\ stage \in {"terminating", "hangingUp", "out"} /\ q \in RuntimeStates
        /\ k \in CallOrNone
    BY <1>1, TeardownTypes, KeptTypes DEF StageAfterHelpers, StageAfterProcess
  <2>3. /\ q.process = NoCall /\ q.monitor = rt.monitor
        /\ q.audio <=> (rt.audio /\ stage = "terminating")
        /\ q.negotiated = IF stage = "out" THEN NoCall ELSE rt.negotiated
    BY <1>1, HelpersGoneLeave
  <2> HIDE DEF stage, q, k
  <2>4. QED
    BY <2>1, <2>2, <2>3, ResumeServes
<1>3. CASE ProcessGone(t)
  <2> DEFINE stage == StageAfterProcess(t, HasPeer(dialog))
             q == AfterProcess(rt, stage)
             k == Kept(t, stage, dialog)
  <2>1. /\ Tearing(t) /\ pc[t] = "terminating" /\ link' = link
        /\ TeardownStops(t, job[t], stage, q, ses, k, pc)
    BY <1>3 DEF ProcessGone, Tearing, TeardownStages, outsideVars
  <2>2. /\ stage \in {"terminating", "hangingUp", "out"} /\ q \in RuntimeStates
        /\ k \in CallOrNone
    BY <1>1, TeardownTypes, KeptTypes DEF StageAfterProcess
  <2>3. /\ q.process = rt.process /\ q.monitor = rt.monitor /\ ~q.audio
        /\ q.negotiated = IF stage = "out" THEN NoCall ELSE rt.negotiated
    BY <1>1, ProcessGoneLeaves
  <2>4. rt.process = NoCall
    BY <2>1 DEF Before, PatientInv, TeardownInOrder
  <2> HIDE DEF stage, q, k
  <2>5. QED
    BY <2>1, <2>2, <2>3, <2>4, ResumeServes
<1>4. CASE ByeAnswered(t) \/ ByeUnanswered(t)
  <2> DEFINE q == Forgotten(rt)
  <2>1. /\ pc[t] = "hangingUp" /\ Tearing(t) /\ link' = link
        /\ TeardownStops(t, job[t], "out", q, ses, dialog, pc)
    BY <1>4 DEF ByeAnswered, ByeUnanswered, ByeReturns, Tearing, TeardownStages
  <2>2. ~rt.audio /\ (t # Supervisor => rt.process = NoCall)
    BY <2>1 DEF Before, PatientInv, TeardownInOrder
  <2>3. /\ q \in RuntimeStates /\ q.process = rt.process /\ q.monitor = rt.monitor
        /\ q.audio = rt.audio /\ q.negotiated = NoCall
    BY <1>1, RuntimeTypes DEF Forgotten, RuntimeStates
  <2> HIDE DEF q
  <2>4. QED
    BY <1>1, <2>1, <2>2, <2>3, ResumeServes
<1>5. QED
  BY <1>2, <1>3, <1>4 DEF TeardownStep

-----------------------------------------------------------------------------
(* Who calls _teardown.                                                     *)

\* A start that fails shows "connecting" until it does.
LEMMA StartFailsServes ==
  ASSUME Before, PatientInv', ServedInv, link' = link, pc'[Supervisor] = "out",
         NEW c \in Commands, Starting(c),
         NEW r \in RuntimeStates, NEW d \in CallOrNone,
         Teardown(c, "start", r, ses, d, pc), SameMedia(r)
  PROVE  ServedInv'
<1>1. /\ c \in Tasks /\ c # Reader /\ c # Supervisor /\ JobFits(c, "start")
      /\ "start" \in Jobs /\ ses \in SessionStates /\ pc \in {pc, TimerCancelled(pc)}
  BY TasksAssumption DEF Tasks, Lockers, Jobs, JobFits, Before, IInv, TypeOK
<1>2. ~Tearing(c) /\ \A u \in Commands \ {c} : ~Starting(u)
  BY StartHoldsLock
<1>3. pc[Supervisor] = "out" => ses.state # "streaming"
  BY DEF ServedInv, StartIsShown
<1>4. QED
  BY <1>1, <1>2, <1>3, CallServes

LEMMA StartStepsServe ==
  ASSUME Before, PatientInv', ServedInv, pc'[Supervisor] = "out", NEW c \in Commands,
         \/ InviteRefused(c) \/ AckRefused(c) \/ AnswerUnusable(c)
         \/ InviteFails(c) \/ SpawnFails(c)
  PROVE  ServedInv'
<1>1. /\ rt \in RuntimeStates /\ dialog \in CallOrNone /\ leg[c] \in CallOrNone
      /\ link' = link /\ Starting(c)
  BY DEF Before, IInv, TypeOK, Tasks, Starting, outsideVars,
     InviteRefused, AckRefused, AnswerUnusable, InviteFails, SpawnFails
<1>2. /\ AudioBound(rt) \in RuntimeStates /\ SameMedia(AudioBound(rt))
      /\ Negotiated(rt, leg[c]) \in RuntimeStates /\ SameMedia(Negotiated(rt, leg[c]))
      /\ SameMedia(rt)
  <2>1. AudioBound(rt) \in RuntimeStates /\ Negotiated(rt, leg[c]) \in RuntimeStates
    BY <1>1, RuntimeTypes
  <2>2. SameMedia(AudioBound(rt))
    BY <1>1 DEF AudioBound, SameMedia, RuntimeStates
  <2>3. SameMedia(Negotiated(rt, leg[c])) /\ SameMedia(rt)
    BY <1>1 DEF Negotiated, SameMedia, RuntimeStates
  <2>4. QED
    BY <2>1, <2>2, <2>3
<1>3. CASE InviteRefused(c)
  BY <1>1, <1>2, <1>3, StartFailsServes DEF InviteRefused
<1>4. CASE AnswerUnusable(c)
  BY <1>1, <1>2, <1>4, StartFailsServes DEF AnswerUnusable
<1>5. CASE AckRefused(c) \/ InviteFails(c) \/ SpawnFails(c)
  BY <1>1, <1>2, <1>5, StartFailsServes DEF AckRefused, InviteFails, SpawnFails
<1>6. QED
  BY <1>3, <1>4, <1>5

LEMMA EndBeginsServes ==
  ASSUME Before, PatientInv', ServedInv, link' = link, pc'[Supervisor] = "out",
         NEW t \in Lockers, LockFree,
         NEW j \in Devices \cup {"end"}, JobFits(t, j),
         Teardown(t, j, Muted(rt), EndBegun(ses), dialog, TimerCancelled(pc))
  PROVE  ServedInv'
<1> DEFINE r == Muted(rt)
           s == EndBegun(ses)
<1>1. /\ t \in Tasks /\ t # Reader /\ t # Supervisor /\ j \in Jobs
      /\ rt \in RuntimeStates /\ ses \in SessionStates /\ dialog \in CallOrNone
  BY TasksAssumption DEF Tasks, Lockers, Jobs, Before, IInv, TypeOK
<1>2. r \in RuntimeStates /\ SameMedia(r) /\ s \in SessionStates
  <2>1. r \in RuntimeStates /\ s \in SessionStates
    BY <1>1, RuntimeTypes, SessionTypes
  <2>2. SameMedia(r)
    BY <1>1 DEF SameMedia, Muted, WithMicrophone, RuntimeStates
  <2>3. QED
    BY <2>1, <2>2
<1>3. s.state # "streaming"
  BY <1>1 DEF EndBegun, CleanupCancelled, SessionStates
<1> HIDE DEF r, s
<1>4. ~Tearing(t) /\ \A c \in Commands : ~Starting(c)
  BY DEF LockFree, Lockers, Unlocked, Tearing, TeardownStages, Starting
<1>5. Teardown(t, j, r, s, dialog, TimerCancelled(pc))
  BY DEF r, s
<1>6. QED
  BY <1>1, <1>2, <1>3, <1>4, <1>5, CallServes

LEMMA WatchdogFailsServes ==
  ASSUME Before, PatientInv', ServedInv, pc'[Supervisor] = "out",
         NEW w \in Watchdogs, WatchdogFails(w)
  PROVE  ServedInv'
<1> DEFINE s == Delivered(ses, RuntimeError(ses))
<1>1. /\ Supervising(w) /\ link' = link /\ Teardown(w, "none", rt, s, dialog, pc)
  BY DEF WatchdogFails, Supervising, outsideVars
<1>2. /\ w \in Tasks /\ w # Reader /\ w # Supervisor /\ JobFits(w, "none")
      /\ "none" \in Jobs /\ rt \in RuntimeStates /\ ses \in SessionStates
      /\ dialog \in CallOrNone /\ SameMedia(rt)
  BY TasksAssumption DEF Tasks, Lockers, Jobs, JobFits, Before, IInv, TypeOK, SameMedia
<1>3. s \in SessionStates /\ (pc[Supervisor] = "out" => s.state # "streaming")
  BY <1>2, SessionTypes DEF Delivered, RuntimeError, Reachable, SessionStates
<1> HIDE DEF s
<1>4. ~Tearing(w) /\ rt.process # NoCall
  BY <1>1, OvertakenWatchdog
<1>5. \A c \in Commands : ~Starting(c)
  BY <1>4 DEF Before, PatientInv, UnansweredStartIsAlone, AcknowledgingStartHasDialog,
     AnsweredStartHasCall, Starting
<1>6. QED
  BY <1>1, <1>2, <1>3, <1>4, <1>5, CallServes

LEMMA RemoteEndedServes ==
  ASSUME Before, PatientInv', ServedInv, pc'[Supervisor] = "out",
         NEW n \in Calls, RemoteEnded(n)
  PROVE  ServedInv'
<1>1. /\ pc[Reader] = "out" /\ n \in byes /\ dialog = n /\ link' = link
      /\ Teardown(Reader, "none", rt, ses, NoCall, pc)
  BY DEF RemoteEnded, Reading
<1>2. /\ Reader \in Tasks /\ JobFits(Reader, "none") /\ "none" \in Jobs
      /\ rt \in RuntimeStates /\ ses \in SessionStates /\ NoCall \in CallOrNone
      /\ n # NoCall /\ SameMedia(rt) /\ ~Tearing(Reader)
  BY <1>1, TasksAssumption, NoCallTypes
     DEF Tasks, Lockers, Jobs, JobFits, Before, IInv, TypeOK, Calls, NoCall, SameMedia,
         Tearing, TeardownStages
<1>3. ~rt.ending => \A c \in Commands : ~Starting(c)
  BY <1>1, <1>2 DEF Before, PatientInv, UnansweredStartIsAlone,
     AcknowledgingStartHasDialog, AnsweredStartHasCall, StartedCallIsAlive, CallOfSpawning, Starting
<1>4. pc[Supervisor] = "out" /\ ses.state = "streaming" => rt.negotiated # NoCall
  BY DEF ServedInv, StreamingHasCall
<1>5. QED
  BY <1>1, <1>2, <1>3, <1>4, CallServes

-----------------------------------------------------------------------------
(* Steps that leave the teardown, FFmpeg and the dialog alone.              *)

LEMMA KeptServes ==
  ASSUME Before, ServedInv, MediaKept, TasksKept, pc'[Supervisor] = "out",
         link' # "closed" \/ link' = link,
         \A x \in Tasks : InCharge(pc[x]) => InCharge(pc'[x]),
         \A w \in Watchdogs : Supervising(w) => Supervising(w)',
         StartIsShown', SupervisedIsLive', StreamingHasCall'
  PROVE  ServedInv'
<1>1. pc[Supervisor] = "out"
  BY DEF TasksKept, Reachable
<1>2. link' # "closed"
  BY <1>1 DEF ServedInv
<1>3. CallIsOwned'
  BY <1>1 DEF ServedInv, CallIsOwned, MediaKept
<1>4. \A x \in Tasks : pc[x] = "cancelling" => pc'[x] = "cancelling"
  BY DEF TasksKept, Tearing, TeardownStages
<1>5. FFmpegIsOwned'
  BY <1>1, <1>4 DEF ServedInv, FFmpegIsOwned, MediaKept
<1>6. QED
  BY <1>2, <1>3, <1>5 DEF ServedInv

\* The session shows what it showed, and no start begins.
LEMMA QuietlyServes ==
  ASSUME Before, ServedInv, MediaKept, TasksKept, pc'[Supervisor] = "out",
         link' # "closed" \/ link' = link, ses'.state = ses.state,
         \A x \in Tasks : InCharge(pc[x]) => pc'[x] = pc[x],
         \A c \in Commands : Starting(c)' => Starting(c)
  PROVE  ServedInv'
<1>1. pc[Supervisor] = "out"
  BY DEF TasksKept, Reachable
<1>2. StartIsShown' /\ SupervisedIsLive' /\ StreamingHasCall'
  BY <1>1 DEF ServedInv, StartIsShown, SupervisedIsLive, StreamingHasCall, MediaKept,
     TasksKept, Live
<1>3. \A w \in Watchdogs : Supervising(w) => Supervising(w)'
  BY DEF Supervising, InCharge, Tasks
<1>4. QED
  BY <1>2, <1>3, KeptServes

\* A command or a timer steps aside.
LEMMA StepsAsideServes ==
  ASSUME Before, ServedInv, MediaKept, TasksKept, pc'[Supervisor] = "out",
         link' = link, ses'.state = ses.state,
         NEW t \in Tasks, ~InCharge(pc[t]),
         pc'[t] \notin {"preparing", "inviting", "acknowledging", "spawning"},
         \A x \in Tasks \ {t} : pc'[x] = pc[x] \/ (pc[x] = "armed" /\ pc'[x] = "out")
  PROVE  ServedInv'
<1>1. \A x \in Tasks : InCharge(pc[x]) => pc'[x] = pc[x]
  BY DEF InCharge, TeardownStages
<1>2. \A c \in Commands : Starting(c)' => Starting(c)
  BY DEF Starting, Tasks
<1>3. QED
  BY <1>1, <1>2, QuietlyServes

LEMMA StartServes ==
  ASSUME Before, PatientInv', ServedInv, pc'[Supervisor] = "out",
         NEW c \in Commands, NEW d \in Devices, Start(c, d)
  PROVE  ServedInv'
<1> DEFINE o == Started(rt, ses, d)
           m == Muted(rt)
           s == Connecting(ses, d)
<1>1. /\ Admitted(c) /\ LockFree /\ link' = link /\ ~Live(ses)
      /\ UNCHANGED <<placed, byes, phone>>
      /\ Stops(c, "start", o, dialog, pc)
  BY DEF Start, Admitted, outsideVars
<1>2. /\ TypeOK /\ c \in Tasks /\ c \in Lockers /\ rt \in RuntimeStates
      /\ ses \in SessionStates /\ dialog \in CallOrNone /\ pc \in [Tasks -> Stages]
      /\ "start" \in Jobs
  BY DEF Before, IInv, TypeOK, Tasks, Lockers, Jobs
<1>3. o \in Outcomes
  BY <1>2, StartedIsOutcome
<1>4. ~Dead /\ ~Tearing(c) /\ ~InCharge(pc[c]) /\ \A u \in Lockers : ~Tearing(u)
  BY <1>1 DEF Admitted, Dead, LockFree, Lockers, Unlocked, Tearing, TeardownStages,
     InCharge
<1>5. /\ m \in RuntimeStates
      /\ m.process = rt.process /\ m.negotiated = rt.negotiated
      /\ m.monitor = rt.monitor /\ m.audio = rt.audio /\ m.ending = rt.ending
  <2>1. /\ m.process = rt.process /\ m.negotiated = rt.negotiated
        /\ m.monitor = rt.monitor /\ m.audio = rt.audio /\ m.ending = rt.ending
    BY <1>2 DEF Muted, WithMicrophone, RuntimeStates
  <2>2. m \in RuntimeStates
    BY <1>2, RuntimeTypes
  <2>3. QED
    BY <2>1, <2>2
<1>6. s \in SessionStates /\ s.state = "connecting" /\ StartFailed(s).state = "error"
  BY <1>2, SessionTypes DEF Connecting, StartFailed, SessionStates
<1> HIDE DEF m, s
<1>7. \/ AlreadyActive(m) /\ o = [rt |-> m, ses |-> StartFailed(s), at |-> "out"]
      \/ ~AlreadyActive(m) /\ o = [rt |-> Preparing(m), ses |-> s, at |-> "preparing"]
  BY DEF Started, m, s
<1> HIDE DEF o
<1>8. /\ pc'[c] = o.at /\ rt' = o.rt /\ ses' = o.ses
      /\ dialog' = IF o.at \in {"hangingUp", "sipBye"} THEN NoCall ELSE dialog
      /\ \A x \in Tasks \ {c} : /\ job'[x] = job[x] /\ pc'[x] = pc[x]
                                /\ pc'[x] # "out" => leg'[x] = leg[x]
  BY <1>1, <1>2, <1>3, StopsExactly
<1>9. o.at \in {"out", "preparing"}
  BY <1>7
<1>10. TasksKept
  BY <1>1, <1>2, <1>4, <1>8, <1>9, StepsAside DEF InCharge
<1>11. MediaKept
  <2>1. CASE AlreadyActive(m)
    BY <1>5, <1>7, <1>8, <2>1 DEF MediaKept
  <2>2. CASE ~AlreadyActive(m)
    <3>1. rt.negotiated = NoCall
      BY <1>5, <2>2 DEF AlreadyActive
    <3>2. \A x \in Tasks : ~Tearing(x)
      BY <1>4, <3>1 DEF Before, PatientInv, TeardownBarsStarts
    <3>3. ~rt.ending
      BY <3>2 DEF Before, PatientInv, TeardownExclusive
    <3>4. rt' = Preparing(m) /\ dialog' = dialog
      BY <1>7, <1>8, <2>2
    <3>5. QED
      BY <1>2, <1>5, <3>3, <3>4 DEF MediaKept, Preparing, RuntimeStates
  <2>3. QED
    BY <2>1, <2>2
<1>12. pc[Supervisor] = "out"
  BY <1>10 DEF TasksKept, Reachable
<1>13. \A w \in Watchdogs : ~Supervising(w) /\ ~Supervising(w)'
  BY <1>1, <1>10, <1>12 DEF ServedInv, SupervisedIsLive, TasksKept
<1>14. StartIsShown' /\ StreamingHasCall'
  <2>1. \A u \in Commands \ {c} : ~Starting(u)'
    BY <1>1, <1>8 DEF LockFree, Unlocked, Starting, Tasks
  <2>2. ses'.state # "streaming" /\ (pc'[c] = "preparing" => ses'.state = "connecting")
    BY <1>6, <1>7, <1>8
  <2>3. QED
    BY <1>8, <1>9, <2>1, <2>2 DEF StartIsShown, StreamingHasCall, Starting
<1>15. \A x \in Tasks : InCharge(pc[x]) => InCharge(pc'[x])
  BY <1>4, <1>8
<1>16. QED
  BY <1>1, <1>10, <1>11, <1>13, <1>14, <1>15, KeptServes DEF SupervisedIsLive

LEMMA EndServes ==
  ASSUME Before, PatientInv', ServedInv, pc'[Supervisor] = "out",
         NEW t \in Lockers, LockFree, EndLocked(t), UNCHANGED outsideVars
  PROVE  ServedInv'
<1>1. /\ t \in Tasks /\ rt \in RuntimeStates /\ ses \in SessionStates
      /\ dialog \in CallOrNone /\ "end" \in Jobs /\ TypeOK
  BY DEF Before, IInv, TypeOK, Jobs, Tasks, Lockers
<1>2. CASE ses.state = "idle"
  <2> DEFINE o == [rt |-> rt, ses |-> NothingToEnd(ses), at |-> "out"]
  <2>1. Stops(t, "end", o, dialog, TimerCancelled(pc))
    BY <1>2 DEF EndLocked
  <2>2. o \in Outcomes /\ TimerCancelled(pc) \in [Tasks -> Stages]
    BY <1>1, SessionTypes, TimersShed DEF Outcomes, Stages
  <2> HIDE DEF o
  <2>3. /\ pc'[t] = o.at /\ rt' = o.rt /\ ses' = o.ses
        /\ dialog' = IF o.at \in {"hangingUp", "sipBye"} THEN NoCall ELSE dialog
        /\ \A x \in Tasks \ {t} : /\ job'[x] = job[x] /\ pc'[x] = TimerCancelled(pc)[x]
                                  /\ pc'[x] # "out" => leg'[x] = leg[x]
    BY <1>1, <2>1, <2>2, StopsExactly
  <2>4. pc'[t] = "out" /\ rt' = rt /\ ses' = NothingToEnd(ses) /\ dialog' = dialog
    BY <2>3 DEF o
  <2>5. \A x \in Tasks \ {t} : \/ pc'[x] = pc[x] /\ (pc'[x] # "out" => leg'[x] = leg[x])
                               \/ pc[x] = "armed" /\ pc'[x] = "out"
    BY <1>1, <2>3, TimersOnlyCancelled DEF TimersOnly
  <2>6. ~Tearing(t) /\ ~InCharge(pc[t])
    BY DEF LockFree, Lockers, Unlocked, Tearing, TeardownStages, InCharge
  <2>7. TasksKept
    BY <2>4, <2>5, <2>6, StepsAside DEF InCharge, outsideVars
  <2>8. MediaKept /\ ses'.state = ses.state
    BY <1>1, <2>4 DEF MediaKept, NothingToEnd, CleanupCancelled, SessionStates
  <2>9. QED
    BY <1>1, <2>4, <2>5, <2>6, <2>7, <2>8, StepsAsideServes DEF outsideVars
<1>3. CASE ses.state # "idle"
  <2>1. Teardown(t, "end", Muted(rt), EndBegun(ses), dialog, TimerCancelled(pc))
    BY <1>3 DEF EndLocked
  <2>2. JobFits(t, "end")
    BY DEF JobFits
  <2>3. QED
    BY <2>1, <2>2, EndBeginsServes DEF outsideVars
<1>4. QED
  BY <1>2, <1>3

LEMMA UserStepServes ==
  ASSUME Before, PatientInv', ServedInv, pc'[Supervisor] = "out",
         NEW c \in Commands, Queues(c) \/ UserStep(c)
  PROVE  ServedInv'
<1>1. c \in Tasks /\ c \in Lockers /\ c \notin Timers /\ pc \in [Tasks -> Stages]
  BY TasksAssumption DEF Tasks, Lockers, Before, IInv, TypeOK
<1>2. ASSUME NEW at \in {"out", "queued"}, pc[c] \in Unlocked,
             pc' = [pc EXCEPT ![c] = at], at = "queued" => ~Dead,
             UNCHANGED <<rt, ses, dialog, link, leg, placed, phone, byes>>
      PROVE  ServedInv'
  <2>1. ~Tearing(c) /\ ~InCharge(pc[c])
    BY <1>2 DEF Unlocked, Tearing, TeardownStages, InCharge
  <2>2. /\ \A x \in Tasks \ {c} : pc'[x] = pc[x] /\ (pc'[x] # "out" => leg'[x] = leg[x])
        /\ pc'[c] = at
    BY <1>1, <1>2
  <2>3. TasksKept
    BY <1>1, <1>2, <2>1, <2>2, StepsAside DEF InCharge
  <2>4. MediaKept /\ link' = link /\ ses'.state = ses.state
    BY <1>2 DEF MediaKept
  <2>5. pc'[c] \notin {"preparing", "inviting", "acknowledging", "spawning"}
    BY <2>2
  <2>6. QED
    BY <1>1, <2>1, <2>2, <2>3, <2>4, <2>5, StepsAsideServes
<1>3. ASSUME NEW d \in Devices, StartShared(c, d) PROVE ServedInv'
  <2>1. /\ pc[c] \in Unlocked /\ pc' = [pc EXCEPT ![c] = "out"]
        /\ UNCHANGED <<rt, ses, dialog, link, leg, placed, phone, byes>>
    BY <1>3 DEF StartShared, Admitted, Unlocked, sipVars, gatewayVars
  <2>2. QED
    BY <1>2, <2>1
<1>4. CASE Queues(c)
  <2>1. /\ pc[c] \in Unlocked /\ ~Dead /\ pc' = [pc EXCEPT ![c] = "queued"]
        /\ UNCHANGED <<rt, ses, dialog, link, leg, placed, phone, byes>>
    BY <1>4 DEF Queues, Unlocked, Dead, sipVars, gatewayVars
  <2>2. QED
    BY <1>2, <2>1
<1>5. ASSUME NEW d \in Devices, SwitchDevice(c, d) PROVE ServedInv'
  <2>1. /\ LockFree /\ link' = link
        /\ Teardown(c, d, Muted(rt), EndBegun(ses), dialog, TimerCancelled(pc))
    BY <1>5 DEF SwitchDevice, Admitted, outsideVars
  <2>2. JobFits(c, d)
    BY <1>1, JobsAssumption DEF JobFits
  <2>3. QED
    BY <1>1, <2>1, <2>2, EndBeginsServes
<1>6. QED
  BY <1>1, <1>3, <1>4, <1>5, StartServes, EndServes DEF UserStep, End, Admitted

-----------------------------------------------------------------------------
(* The steps of a start.                                                    *)

LEMMA PrepareFailsServes ==
  ASSUME Before, PatientInv', ServedInv, pc'[Supervisor] = "out",
         NEW c \in Commands, PrepareFails(c)
  PROVE  ServedInv'
<1> DEFINE o == [rt |-> rt, ses |-> StartFailed(ses), at |-> "out"]
<1>1. /\ TypeOK /\ c \in Tasks /\ c \in Lockers /\ c # Supervisor
      /\ ses \in SessionStates /\ dialog \in CallOrNone /\ pc \in [Tasks -> Stages]
      /\ "start" \in Jobs /\ rt \in RuntimeStates
  BY TasksAssumption DEF Before, IInv, TypeOK, Tasks, Lockers, Jobs
<1>2. /\ pc[c] = "preparing" /\ Starting(c) /\ UNCHANGED outsideVars
      /\ Stops(c, "start", o, dialog, pc)
  BY DEF PrepareFails, Starting
<1>3. o \in Outcomes
  BY <1>1, SessionTypes DEF Outcomes, Stages
<1> HIDE DEF o
<1>4. /\ pc'[c] = o.at /\ rt' = o.rt /\ ses' = o.ses
      /\ dialog' = IF o.at \in {"hangingUp", "sipBye"} THEN NoCall ELSE dialog
      /\ \A x \in Tasks \ {c} : /\ job'[x] = job[x] /\ pc'[x] = pc[x]
                                /\ pc'[x] # "out" => leg'[x] = leg[x]
  BY <1>1, <1>2, <1>3, StopsExactly
<1>5. pc'[c] = "out" /\ rt' = rt /\ ses' = StartFailed(ses) /\ dialog' = dialog
  BY <1>4 DEF o
<1>6. ~Tearing(c) /\ \A u \in Commands \ {c} : ~Starting(u)
  BY <1>2, StartHoldsLock
<1>7. TasksKept
  BY <1>1, <1>2, <1>4, <1>5, <1>6, StepsAside DEF outsideVars
<1>8. MediaKept /\ ses'.state = "error"
  BY <1>1, <1>5 DEF MediaKept, StartFailed, SessionStates
<1>9. \A w \in Watchdogs : ~Supervising(w) /\ ~Supervising(w)'
  <2>1. rt.monitor = None
    BY <1>2 DEF Before, PatientInv, UnansweredStartIsAlone
  <2>2. \A w \in Watchdogs : ~Supervising(w)
    BY <2>1, TasksAssumption DEF Before, PatientInv, MonitorWatches, Tasks
  <2>3. QED
    BY <1>7, <2>2 DEF TasksKept
<1>10. \A x \in Tasks : InCharge(pc[x]) => InCharge(pc'[x])
  BY <1>2, <1>4 DEF InCharge, TeardownStages
<1>11. StartIsShown' /\ StreamingHasCall'
  BY <1>4, <1>5, <1>6, <1>8 DEF StartIsShown, StreamingHasCall, Starting, Tasks
<1>12. QED
  BY <1>2, <1>7, <1>8, <1>9, <1>10, <1>11, KeptServes DEF SupervisedIsLive, outsideVars

\* A start gets as far as its INVITE or its answer.
LEMMA InviteServes ==
  ASSUME Before, PatientInv', ServedInv, pc'[Supervisor] = "out",
         NEW c \in Commands, Invite(c) \/ InviteAnswered(c) \/ InviteAccepted(c)
  PROVE  ServedInv'
<1>1. /\ pc[c] \in {"preparing", "inviting", "acknowledging"} /\ Starting(c)
      /\ c \in Tasks /\ c # Supervisor /\ Supervisor \in Tasks
      /\ rt \in RuntimeStates /\ pc \in [Tasks -> Stages]
  BY TasksAssumption
     DEF Invite, InviteAnswered, InviteAccepted, Starting, Tasks, Before, IInv, TypeOK
<1>2. PICK at \in {"inviting", "acknowledging", "spawning"} : pc' = [pc EXCEPT ![c] = at]
  BY DEF Invite, InviteAnswered, InviteAccepted
<1>3. /\ UNCHANGED <<ses, link>>
      /\ rt' \in {rt, AudioBound(rt), Negotiated(rt, leg[c])}
  BY DEF Invite, InviteAnswered, InviteAccepted, sipVars
<1>4. rt'.process = rt.process /\ rt'.monitor = rt.monitor
  BY <1>1, <1>3 DEF AudioBound, Negotiated, RuntimeStates
<1>5. rt.process = NoCall /\ rt.monitor = None
  BY <1>1 DEF Before, PatientInv, UnansweredStartIsAlone, AcknowledgingStartHasDialog
<1>6. pc[Supervisor] = "out" /\ pc'[c] = at
  BY <1>1, <1>2
<1>7. CallIsOwned' /\ FFmpegIsOwned'
  BY <1>1, <1>4, <1>5, <1>6 DEF CallIsOwned, FFmpegIsOwned, InCharge
<1>8. SupervisedIsLive'
  BY <1>4, <1>5, TasksAssumption DEF PatientInv, MonitorWatches, SupervisedIsLive, Tasks
<1>9. ses'.state = "connecting"
  BY <1>1, <1>3, <1>6 DEF ServedInv, StartIsShown
<1>10. StartIsShown' /\ StreamingHasCall'
  BY <1>9 DEF StartIsShown, StreamingHasCall
<1>11. QED
  BY <1>3, <1>6, <1>7, <1>8, <1>10 DEF ServedInv

LEMMA SpawnServes ==
  ASSUME Before, PatientInv', ServedInv, pc'[Supervisor] = "out",
         NEW c \in Commands, NEW w \in Watchdogs, Spawn(c, w)
  PROVE  ServedInv'
<1>1. /\ pc[c] = "spawning" /\ Starting(c) /\ UNCHANGED <<ses, link>>
      /\ pc' = [pc EXCEPT ![c] = "out", ![w] = "waiting"]
  BY DEF Spawn, Starting, sipVars
<1>2. /\ c \in Tasks /\ w \in Tasks /\ c # w /\ w \notin Commands
      /\ c # Supervisor /\ w # Supervisor /\ Supervisor \in Tasks
      /\ pc \in [Tasks -> Stages]
  BY TasksAssumption DEF Tasks, Before, IInv, TypeOK
<1>3. pc[Supervisor] = "out" /\ pc'[w] = "waiting"
  BY <1>1, <1>2
<1>4. ses'.state = "connecting"
  BY <1>1, <1>3 DEF ServedInv, StartIsShown
<1>5. CallIsOwned' /\ FFmpegIsOwned'
  BY <1>2, <1>3 DEF CallIsOwned, FFmpegIsOwned, InCharge, Supervising
<1>6. StartIsShown' /\ SupervisedIsLive' /\ StreamingHasCall'
  BY <1>4 DEF StartIsShown, SupervisedIsLive, StreamingHasCall, Live
<1>7. QED
  BY <1>1, <1>3, <1>5, <1>6 DEF ServedInv

LEMMA StartStepServes ==
  ASSUME Before, PatientInv', ServedInv, pc'[Supervisor] = "out",
         NEW c \in Commands, StartStep(c)
  PROVE  ServedInv'
BY PrepareFailsServes, InviteServes, SpawnServes, StartStepsServe DEF StartStep

-----------------------------------------------------------------------------
(* The microphone, viewers, timers, FFmpeg, the gateway and the network.    *)

\* No task moves.
LEMMA StillServes ==
  ASSUME Before, ServedInv, MediaKept, UNCHANGED <<pc, leg>>,
         pc'[Supervisor] = "out",
         link' # "closed" \/ link' = link, ses'.state = ses.state
  PROVE  ServedInv'
BY PlacesUntouched, QuietlyServes DEF Starting

LEMMA ViewerStepServes ==
  ASSUME Before, ServedInv, pc'[Supervisor] = "out", ViewerStep
  PROVE  ServedInv'
<1>1. /\ ses \in SessionStates /\ pc \in [Tasks -> Stages] /\ TypeOK
      /\ \A x \in Tasks : Fits(x, pc[x], job[x])
  BY DEF Before, IInv, TypeOK, KindInv
<1>2. MediaKept /\ link' = link /\ UNCHANGED <<placed, phone, byes>>
  BY DEF ViewerStep, ViewerJoins, ViewerGivesUp, ViewerLeaves, sipVars, gatewayVars,
     MediaKept
<1>3. ses'.state = ses.state
  BY <1>1 DEF ViewerStep, ViewerJoins, ViewerGivesUp, ViewerLeaves, ViewerAdded,
     ViewerRemoved, CleanupCancelled, SessionStates
<1>4. CASE ViewerJoins
  <2>1. /\ pc' = TimerCancelled(pc)
        /\ leg' = [x \in Tasks |-> IF pc'[x] = "out" THEN NoCall ELSE leg[x]]
    BY <1>4 DEF ViewerJoins
  <2>2. \A x \in Tasks : pc'[x] = pc[x] \/ (pc[x] = "armed" /\ pc'[x] = "out")
    BY <1>1, <2>1, TimersOnlyCancelled DEF TimersOnly
  <2>3. \A c \in Commands : pc'[c] = pc[c] /\ (pc'[c] # "out" => leg'[c] = leg[c])
    BY <1>1, <2>1, <2>2, TasksAssumption DEF Fits, Tasks
  <2>4. pc'[Supervisor] = pc[Supervisor]
    BY <1>1, <2>2, TasksAssumption DEF Fits, Tasks
  <2>5. \A w \in Watchdogs : Supervising(w)' => Supervising(w)
    BY <2>2 DEF Supervising, Tasks
  <2>6. \A x \in Tasks : pc'[x] = pc[x] \/ (~Tearing(x) /\ ~Tearing(x)')
    BY <2>2 DEF Tearing, TeardownStages
  <2>7. TasksKept
    BY <2>3, <2>4, <2>5, <2>6 DEF TasksKept, Dead, Reachable
  <2>8. \A x \in Tasks : InCharge(pc[x]) => pc'[x] = pc[x]
    BY <2>2 DEF InCharge, TeardownStages
  <2>9. QED
    BY <1>2, <1>3, <2>3, <2>7, <2>8, QuietlyServes DEF Starting
<1>5. CASE ViewerGivesUp
  BY <1>2, <1>3, <1>5, StillServes DEF ViewerGivesUp
<1>6. ASSUME NEW t \in Timers, ViewerLeaves(t) PROVE ServedInv'
  <2>1. CASE StartsCleanup(ses)
    <3>1. /\ pc[t] = "out" /\ pc' = [pc EXCEPT ![t] = "armed"]
          /\ leg' = [leg EXCEPT ![t] = CurrentCall]
      BY <1>6, <2>1 DEF ViewerLeaves
    <3>2. /\ t \in Lockers /\ t \in Tasks /\ t \notin Commands /\ ~Tearing(t)
          /\ ~InCharge(pc[t])
      BY <3>1, TasksAssumption DEF Lockers, Tasks, Tearing, TeardownStages, InCharge
    <3>3. \A x \in Tasks \ {t} : pc'[x] = pc[x] /\ (pc'[x] # "out" => leg'[x] = leg[x])
      BY <1>1, <3>1 DEF TypeOK
    <3>4. pc'[t] = "armed"
      BY <1>1, <3>1, <3>2
    <3>5. TasksKept
      BY <1>2, <3>2, <3>3, <3>4, StepsAside DEF InCharge
    <3>6. QED
      BY <1>2, <1>3, <3>2, <3>3, <3>4, <3>5, StepsAsideServes
  <2>2. CASE ~StartsCleanup(ses)
    BY <1>2, <1>3, <1>6, <2>2, StillServes DEF ViewerLeaves
  <2>3. QED
    BY <2>1, <2>2
<1>7. QED
  BY <1>4, <1>5, <1>6 DEF ViewerStep

LEMMA TimerStepServes ==
  ASSUME Before, PatientInv', ServedInv, pc'[Supervisor] = "out",
         NEW t \in Timers, TimerStep(t)
  PROVE  ServedInv'
<1>1. t \in Lockers /\ t \in Tasks /\ t \notin Commands /\ pc \in [Tasks -> Stages]
  BY TasksAssumption DEF Lockers, Tasks, Before, IInv, TypeOK
<1>2. CASE TimerFires(t)
  <2>1. /\ pc[t] = "armed" /\ pc' = [pc EXCEPT ![t] = "fired"]
        /\ UNCHANGED <<rt, ses, dialog, link, leg, placed, phone, byes>>
    BY <1>2 DEF TimerFires, sipVars, gatewayVars
  <2>2. ~Tearing(t) /\ ~InCharge(pc[t])
    BY <2>1 DEF Tearing, TeardownStages, InCharge
  <2>3. TasksKept
    BY <1>1, <2>1, <2>2, StepsAside
  <2>4. MediaKept
    BY <2>1 DEF MediaKept
  <2>5. QED
    BY <1>1, <2>1, <2>2, <2>3, <2>4, StepsAsideServes
<1>3. CASE TimerEnds(t)
  BY <1>1, <1>3, EndServes DEF TimerEnds
<1>4. QED
  BY <1>2, <1>3 DEF TimerStep

\* The first frame arrives: it is that of the call.
LEMMA FirstVideoServes ==
  ASSUME Before, PatientInv', ServedInv, pc'[Supervisor] = "out",
         NEW w \in Watchdogs, FirstVideo(w)
  PROVE  ServedInv'
<1>1. /\ pc[w] = "waiting" /\ pc' = [pc EXCEPT ![w] = "watching"]
      /\ ses' = Delivered(ses, StreamsRunning(ses))
      /\ UNCHANGED <<rt, link>>
  BY DEF FirstVideo, sipVars
<1>2. /\ w \in Tasks /\ w \notin Commands /\ w # Supervisor /\ Supervisor \in Tasks
      /\ pc \in [Tasks -> Stages] /\ ses \in SessionStates /\ Supervising(w)
  BY <1>1, TasksAssumption DEF Tasks, Before, IInv, TypeOK, Supervising
<1>3. pc[Supervisor] = "out" /\ pc'[w] = "watching"
  BY <1>1, <1>2
<1>4. ses'.state = "streaming"
  BY <1>1, <1>2, <1>3 DEF Delivered, Reachable, StreamsRunning, SessionStates
<1>5. rt.process # NoCall /\ rt.negotiated # NoCall
  BY <1>2, <1>3, OvertakenWatchdog DEF Before, PatientInv, OrphanIsUnreachable, Reachable
<1>6. CallIsOwned' /\ FFmpegIsOwned'
  BY <1>2, <1>3 DEF CallIsOwned, FFmpegIsOwned, InCharge, Supervising
<1>7. \A c \in Commands : ~Starting(c) /\ ~Starting(c)'
  <2>1. \A c \in Commands : ~Starting(c)
    BY <1>5 DEF Before, PatientInv, UnansweredStartIsAlone, AcknowledgingStartHasDialog,
       AnsweredStartHasCall, Starting
  <2>2. QED
    BY <1>1, <1>2, <2>1 DEF Starting, Tasks
<1>8. StartIsShown' /\ SupervisedIsLive' /\ StreamingHasCall'
  BY <1>1, <1>4, <1>5, <1>7 DEF StartIsShown, SupervisedIsLive, StreamingHasCall, Live
<1>9. QED
  BY <1>1, <1>3, <1>6, <1>8 DEF ServedInv

\* What happens outside the tasks.
LEMMA OutsideServes ==
  ASSUME Before, ServedInv, pc'[Supervisor] = "out",
         \/ UNCHANGED vars \/ FFmpegExits \/ LinkLost
         \/ \E on \in BOOLEAN : SetMicrophone(on)
         \/ \E n \in Calls : ReadAnswer(n) \/ ByeIgnored(n) \/ GatewayStep(n)
  PROVE  ServedInv'
<1>1. rt \in RuntimeStates /\ ses \in SessionStates
  BY DEF Before, IInv, TypeOK
<1>2. CASE UNCHANGED vars \/ LinkLost
           \/ \E n \in Calls : ReadAnswer(n) \/ ByeIgnored(n) \/ GatewayStep(n)
  <2>1. UNCHANGED <<rt, ses, dialog, pc, leg>> /\ link' \in {link, "lost"}
    BY <1>2 DEF vars, LinkLost, ReadAnswer, ByeIgnored, GatewayStep, GatewayPicksUp,
       GatewayHangsUp, sipVars, gatewayVars
  <2>2. QED
    BY <2>1, StillServes DEF MediaKept
<1>3. CASE FFmpegExits
  <2>1. rt' = [rt EXCEPT !.exited = TRUE] /\ UNCHANGED <<ses, dialog, link, pc, leg>>
    BY <1>3 DEF FFmpegExits, sipVars
  <2>2. MediaKept
    BY <1>1, <2>1 DEF MediaKept, RuntimeStates
  <2>3. QED
    BY <2>1, <2>2, StillServes
<1>4. ASSUME NEW on \in BOOLEAN, SetMicrophone(on) PROVE ServedInv'
  <2>1. /\ rt' = WithMicrophone(rt, on) /\ ses' = [ses EXCEPT !.microphone = on]
        /\ UNCHANGED <<dialog, link, pc, leg>>
    BY <1>4 DEF SetMicrophone, sipVars
  <2>2. MediaKept /\ ses'.state = ses.state
    BY <1>1, <2>1 DEF MediaKept, WithMicrophone, RuntimeStates, SessionStates
  <2>3. QED
    BY <2>1, <2>2, StillServes
<1>5. QED
  BY <1>2, <1>3, <1>4

\* The supervisor does not come back.
LEMMA SupervisorGoes ==
  ASSUME Before, After, SupervisorStep PROVE pc'[Supervisor] # "out"
<1>1. /\ Supervisor \in Tasks /\ Supervisor # Reader /\ pc \in [Tasks -> Stages]
      /\ TypeOK /\ rt \in RuntimeStates /\ ses \in SessionStates
      /\ dialog \in CallOrNone /\ "none" \in Jobs /\ JobFits(Supervisor, "none")
  BY TasksAssumption DEF Tasks, Lockers, Jobs, JobFits, Before, IInv, TypeOK
<1>2. CASE SupervisorByeReturns \/ SipCloses
  BY <1>1, <1>2 DEF SupervisorByeReturns, SipCloses
<1>3. CASE SupervisorCloses
  <2> DEFINE stage == StageOfTeardown(rt, Supervisor, HasPeer(dialog))
             q == TornDown(rt, stage)
             k == Kept(Supervisor, stage, dialog)
  <2>1. Teardown(Supervisor, "none", rt, ses, dialog, pc)
    BY <1>3 DEF SupervisorCloses
  <2>2. /\ rt.ending => Left(Supervisor, "none", rt, ses, dialog)
        /\ ~rt.ending =>
             IF stage = "out" THEN Left(Supervisor, "none", q, Ended(ses), k)
             ELSE SuspendedAt(Supervisor, "none", stage, q, ses, dialog)
    BY <1>1, <2>1, TeardownExactly
  <2> HIDE DEF stage, q, k
  <2>3. ASSUME NEW r, NEW s, NEW d, Left(Supervisor, "none", r, s, d)
        PROVE  pc'[Supervisor] # "out"
    BY <1>1, <2>3, SupervisorReturns DEF Left
  <2>4. QED
    BY <2>2, <2>3 DEF SuspendedAt, TeardownStages
<1>4. QED
  BY <1>2, <1>3 DEF SupervisorStep

-----------------------------------------------------------------------------
(* The invariant                                                            *)

LEMMA ServedInit == Init => ServedInv
<1> SUFFICES ASSUME Init PROVE ServedInv
  OBVIOUS
<1>1. /\ rt.process = NoCall /\ rt.negotiated = NoCall /\ ~rt.audio
      /\ ses.state = "idle" /\ link = "up"
  BY DEF Init, NewRuntime, NewSession
<1>2. \A t \in Tasks : pc[t] = "out"
  BY DEF Init
<1>3. QED
  BY <1>1, <1>2 DEF ServedInv, CallIsOwned, FFmpegIsOwned, StartIsShown,
     SupervisedIsLive, StreamingHasCall, Starting, Supervising, Tasks

LEMMA ServedStep ==
  ASSUME Before, After, PatientInv', ServedInv, [Next]_vars PROVE ServedInv'
<1> SUFFICES ASSUME pc'[Supervisor] = "out" PROVE ServedInv'
  BY DEF ServedInv
<1>1. ASSUME NEW c \in Commands, Queues(c) \/ UserStep(c) \/ StartStep(c)
      PROVE  ServedInv'
  BY <1>1, UserStepServes, StartStepServes
<1>2. ASSUME NEW w \in Watchdogs, WatchdogStep(w) PROVE ServedInv'
  BY <1>2, FirstVideoServes, WatchdogFailsServes DEF WatchdogStep
<1>3. ASSUME NEW n \in Calls, ReaderStep(n) \/ GatewayStep(n) PROVE ServedInv'
  BY <1>3, RemoteEndedServes, OutsideServes DEF ReaderStep
<1>4. CASE UNCHANGED vars \/ FFmpegExits \/ LinkLost
           \/ \E on \in BOOLEAN : SetMicrophone(on)
  BY <1>4, OutsideServes
<1>5. ~SupervisorStep
  BY SupervisorGoes
<1>6. QED
  BY <1>1, <1>2, <1>3, <1>4, <1>5, TeardownStepServes, ViewerStepServes,
     TimerStepServes DEF Next

\* what holds all the time, with a patient gateway
Served == Before /\ ServedInv

LEMMA ServedAlways == ASSUME ~EarlyHangUp PROVE Spec => []Served
<1>1. Init => Served
  BY InvInit, PatientInit, ServedInit DEF Before, Served
<1>2. Served /\ [Next]_vars => Served'
  <2> SUFFICES ASSUME Served, [Next]_vars PROVE Served'
    OBVIOUS
  <2>1. Before /\ ServedInv
    BY DEF Served
  <2>2. After
    BY <2>1, InvStep, KindStep DEF Before, After, IInv
  <2>3. PatientInv'
    BY <2>1, <2>2, PatientStep
  <2>4. QED
    BY <2>1, <2>2, <2>3, ServedStep DEF Before, After, Served
<1>3. QED
  BY <1>1, <1>2, PTL DEF Spec

-----------------------------------------------------------------------------
(* What a step may add to a call.                                           *)

\* the step leaves no more of the call than runtime r and session s had
Fewer(r, s) ==
  /\ rt'.negotiated \in {r.negotiated, NoCall}
  /\ rt'.process \in {r.process, NoCall}
  /\ rt'.sending => r.sending
  /\ ses'.microphone => s.microphone

\* an error stays on show
ErrorKept(s) == s.state = "error" => ses'.state = "error"

SupervisorKept == pc[Supervisor] = "out" => pc'[Supervisor] = "out"

LEMMA ReturnsFewer ==
  ASSUME NEW t \in Tasks, NEW j \in Jobs, NEW q \in RuntimeStates,
         NEW s \in SessionStates, Returned(t, j, q, s)
  PROVE  Fewer(q, s) /\ (j \in {"start", "none"} => ErrorKept(s))
<1>1. /\ rt'.negotiated = q.negotiated /\ rt'.process = q.process
      /\ rt'.sending => q.sending
  BY ReturnedRuntime
<1>2. CASE j = "start"
  <2>1. ses' = StartFailed(s)
    BY <1>2, JobsAssumption DEF Returned, ReturnedFromStart
  <2>2. QED
    BY <1>1, <2>1 DEF StartFailed, SessionStates, Fewer, ErrorKept
<1>3. CASE j = "end"
  <2>1. ses' = EndFinished(s)
    BY <1>3, JobsAssumption DEF Returned, ReturnedFromEnd
  <2>2. QED
    BY <1>1, <1>3, <2>1 DEF EndFinished, SessionStates, Fewer
<1>4. CASE j \in Devices
  <2> DEFINE s1 == Connecting(EndFinished(s), j)
  <2>1. s1 \in SessionStates /\ ~s1.microphone
    <3>1. EndFinished(s) \in SessionStates
      BY SessionTypes
    <3>2. QED
      BY <1>4, <3>1, SessionTypes DEF Connecting, SessionStates
  <2>2. ses' \in {s1, StartFailed(s1)}
    BY <1>4, JobsAssumption DEF Returned, BeganStart
  <2> HIDE DEF s1
  <2>3. ~ses'.microphone
    BY <2>1, <2>2 DEF StartFailed, SessionStates
  <2>4. QED
    BY <1>1, <1>4, <2>3, JobsAssumption DEF Fewer
<1>5. CASE j = "none"
  <2>1. ses' = s
    BY <1>5, JobsAssumption DEF Returned, ReturnedToCaller
  <2>2. QED
    BY <1>1, <2>1 DEF Fewer, ErrorKept
<1>6. QED
  BY <1>2, <1>3, <1>4, <1>5 DEF Jobs

\* A stretch of a teardown.
LEMMA StretchLeavesFewer ==
  ASSUME NEW t \in Tasks, NEW j \in Jobs, NEW stage, NEW q \in RuntimeStates,
         NEW s \in SessionStates, NEW d,
         IF stage = "out" THEN Left(t, j, q, Ended(s), d)
         ELSE SuspendedAt(t, j, stage, q, s, d)
  PROVE  Fewer(q, s) /\ (j \in {"start", "none"} => ErrorKept(s))
<1>1. CASE stage = "out"
  <2>1. Ended(s) \in SessionStates
    BY EndedIsHeard
  <2>2. /\ Ended(s).microphone => s.microphone
        /\ s.state = "error" => Ended(s).state = "error"
    BY DEF Ended, Delivered, CallEnded, EndFinished, SessionStates
  <2>3. Returned(t, j, q, Ended(s))
    BY <1>1 DEF Left
  <2>4. Fewer(q, Ended(s)) /\ (j \in {"start", "none"} => ErrorKept(Ended(s)))
    BY <2>1, <2>3, ReturnsFewer
  <2>5. QED
    BY <2>2, <2>4 DEF Fewer, ErrorKept
<1>2. CASE stage # "out"
  BY <1>2 DEF SuspendedAt, Fewer, ErrorKept
<1>3. QED
  BY <1>1, <1>2

\* A task other than the supervisor calls _teardown.
LEMMA CallLeavesFewer ==
  ASSUME Before, NEW t \in Tasks \ {Supervisor}, NEW j \in Jobs,
         NEW r \in RuntimeStates, NEW s \in SessionStates, NEW d \in CallOrNone,
         NEW pcs \in {pc, TimerCancelled(pc)},
         Teardown(t, j, r, s, d, pcs)
  PROVE  /\ Fewer(r, s) /\ SupervisorKept
         /\ j \in {"start", "none"} => ErrorKept(s)
<1> DEFINE stage == StageOfTeardown(r, t, HasPeer(d))
           q == TornDown(r, stage)
           m == CancelledBy(t, r)
<1>1. /\ TypeOK /\ stage \in TeardownStages \cup {"out"} /\ q \in RuntimeStates
      /\ m \in Watchdogs \cup {None} /\ None \in Watchdogs \cup {None}
  BY StagesOfTeardown, TeardownTypes DEF Before, IInv, CancelledBy, RuntimeStates
<1>2. /\ r.ending => Left(t, j, r, s, d) /\ OthersShed(t, None)
      /\ ~r.ending =>
           /\ OthersShed(t, m)
           /\ IF stage = "out"
              THEN Left(t, j, q, Ended(s), Kept(t, stage, d))
              ELSE SuspendedAt(t, j, stage, q, s, d)
  BY <1>1, TeardownExactly
<1>3. SupervisorKept
  BY <1>1, <1>2, OthersStay DEF SupervisorKept
<1>4. CASE r.ending
  BY <1>2, <1>3, <1>4, ReturnsFewer DEF Left
<1>5. CASE ~r.ending
  <2> DEFINE k == Kept(t, stage, d)
  <2>1. stage # "out" => k = d
    BY DEF Kept
  <2>2. IF stage = "out" THEN Left(t, j, q, Ended(s), k)
        ELSE SuspendedAt(t, j, stage, q, s, k)
    BY <1>2, <1>5, <2>1
  <2>3. /\ ~q.sending
        /\ q.negotiated = IF stage = "out" THEN NoCall ELSE r.negotiated
        /\ q.process = IF stage = "cancelling" THEN r.process ELSE NoCall
    BY <1>1, <1>5, TornDownLeaves
  <2> HIDE DEF q, stage, k
  <2>4. Fewer(q, s) /\ (j \in {"start", "none"} => ErrorKept(s))
    BY <1>1, <2>2, StretchLeavesFewer
  <2>5. Fewer(r, s)
    BY <2>3, <2>4 DEF Fewer
  <2>6. QED
    BY <1>3, <2>4, <2>5
<1>6. QED
  BY <1>4, <1>5

\* A task other than the supervisor goes on with its teardown.
LEMMA ResumeLeavesFewer ==
  ASSUME Before, NEW t \in Tasks \ {Supervisor},
         NEW stage \in {"terminating", "hangingUp", "out"},
         NEW q \in RuntimeStates, NEW d \in CallOrNone,
         TeardownStops(t, job[t], stage, q, ses, d, pc),
         q.negotiated \in {rt.negotiated, NoCall},
         q.process \in {rt.process, NoCall},
         q.sending => rt.sending
  PROVE  /\ Fewer(rt, ses) /\ SupervisorKept
         /\ t \notin Lockers => ErrorKept(ses)
<1>1. /\ TypeOK /\ pc \in [Tasks -> Stages] /\ job[t] \in Jobs
      /\ ses \in SessionStates /\ (t \notin Lockers => job[t] = "none")
      /\ stage \in TeardownStages \cup {"out"}
  BY DEF Before, IInv, TypeOK, KindInv, Fits, TeardownStages
<1>2. /\ IF stage = "out" THEN Left(t, job[t], q, Ended(ses), d)
         ELSE SuspendedAt(t, job[t], stage, q, ses, d)
      /\ OthersShed(t, None)
  <2>1. /\ IF stage = "out"
           THEN Left(t, job[t], q, Ended(ses), d)
           ELSE SuspendedAt(t, job[t], stage, q, ses, d)
        /\ \A x \in Tasks \ {t} :
             /\ job'[x] = job[x]
             /\ pc'[x] # "out" => leg'[x] = leg[x]
             /\ pc'[x] = pc[x] \/ (pc[x] = "waiting" /\ pc'[x] = "deaf")
    BY <1>1, TeardownStopsExactly
  <2>2. QED
    BY <2>1, TasksAssumption DEF OthersShed
<1>3. SupervisorKept
  <2>1. None \in Watchdogs \cup {None}
    OBVIOUS
  <2>2. QED
    BY <1>2, <2>1, OthersStay DEF SupervisorKept
<1>4. Fewer(q, ses) /\ (job[t] \in {"start", "none"} => ErrorKept(ses))
  BY <1>1, <1>2, StretchLeavesFewer
<1>5. Fewer(rt, ses)
  BY <1>4 DEF Fewer
<1>6. QED
  BY <1>1, <1>3, <1>4, <1>5

LEMMA TeardownStepLeavesFewer ==
  ASSUME Before, NEW t \in Tasks \ {Supervisor}, TeardownStep(t)
  PROVE  /\ Fewer(rt, ses) /\ SupervisorKept
         /\ t \notin Lockers => ErrorKept(ses)
<1>1. rt \in RuntimeStates /\ dialog \in CallOrNone
  BY DEF Before, IInv, TypeOK
<1>2. CASE HelpersGone(t)
  <2> DEFINE stage == StageAfterHelpers(rt, t, HasPeer(dialog))
             q == AfterHelpers(rt, stage)
             k == Kept(t, stage, dialog)
  <2>1. TeardownStops(t, job[t], stage, q, ses, k, pc)
    BY <1>2 DEF HelpersGone
  <2>2. /\ stage \in {"terminating", "hangingUp", "out"} /\ q \in RuntimeStates
        /\ k \in CallOrNone
    BY <1>1, TeardownTypes, KeptTypes DEF StageAfterHelpers, StageAfterProcess
  <2>3. /\ q.process = NoCall
        /\ q.sending <=> (rt.sending /\ stage = "terminating")
        /\ q.negotiated = IF stage = "out" THEN NoCall ELSE rt.negotiated
    BY <1>1, HelpersGoneLeave
  <2> HIDE DEF stage, q, k
  <2>4. QED
    BY <2>1, <2>2, <2>3, ResumeLeavesFewer
<1>3. CASE ProcessGone(t)
  <2> DEFINE stage == StageAfterProcess(t, HasPeer(dialog))
             q == AfterProcess(rt, stage)
             k == Kept(t, stage, dialog)
  <2>1. TeardownStops(t, job[t], stage, q, ses, k, pc)
    BY <1>3 DEF ProcessGone
  <2>2. /\ stage \in {"terminating", "hangingUp", "out"} /\ q \in RuntimeStates
        /\ k \in CallOrNone
    BY <1>1, TeardownTypes, KeptTypes DEF StageAfterProcess
  <2>3. /\ q.process = rt.process /\ ~q.sending
        /\ q.negotiated = IF stage = "out" THEN NoCall ELSE rt.negotiated
    BY <1>1, ProcessGoneLeaves
  <2> HIDE DEF stage, q, k
  <2>4. QED
    BY <2>1, <2>2, <2>3, ResumeLeavesFewer
<1>4. CASE ByeAnswered(t) \/ ByeUnanswered(t)
  <2> DEFINE q == Forgotten(rt)
  <2>1. TeardownStops(t, job[t], "out", q, ses, dialog, pc)
    BY <1>4 DEF ByeAnswered, ByeUnanswered, ByeReturns
  <2>2. /\ q \in RuntimeStates /\ q.process = rt.process
        /\ q.sending = rt.sending /\ q.negotiated = NoCall
    BY <1>1, RuntimeTypes DEF Forgotten, RuntimeStates
  <2> HIDE DEF q
  <2>3. QED
    BY <1>1, <2>1, <2>2, ResumeLeavesFewer
<1>5. QED
  BY <1>2, <1>3, <1>4 DEF TeardownStep

\* Muting a call and showing its end adds nothing to it.
LEMMA MutedIsFewer ==
  ASSUME rt \in RuntimeStates, ses \in SessionStates,
         Fewer(Muted(rt), EndBegun(ses))
  PROVE  Fewer(rt, ses)
<1>1. /\ Muted(rt).negotiated = rt.negotiated /\ Muted(rt).process = rt.process
      /\ ~Muted(rt).sending /\ ~EndBegun(ses).microphone
  BY DEF Muted, WithMicrophone, EndBegun, CleanupCancelled, RuntimeStates, SessionStates
<1>2. QED
  BY <1>1 DEF Fewer

LEMMA EndLeavesFewer ==
  ASSUME Before, NEW t \in Lockers, EndLocked(t)
  PROVE  Fewer(rt, ses) /\ SupervisorKept
<1>1. /\ TypeOK /\ t \in Tasks /\ t # Supervisor /\ "end" \in Jobs
      /\ rt \in RuntimeStates /\ ses \in SessionStates /\ dialog \in CallOrNone
      /\ Supervisor \in Tasks
  BY TasksAssumption DEF Before, IInv, TypeOK, Tasks, Lockers, Jobs
<1>2. CASE ses.state = "idle"
  <2> DEFINE o == [rt |-> rt, ses |-> NothingToEnd(ses), at |-> "out"]
  <2>1. Stops(t, "end", o, dialog, TimerCancelled(pc))
    BY <1>2 DEF EndLocked
  <2>2. o \in Outcomes
    BY <1>1, SessionTypes DEF Outcomes, Stages
  <2>3. TimerCancelled(pc) \in [Tasks -> Stages] /\ TimersOnly(TimerCancelled(pc))
    BY <1>1, TimersOnlyCancelled
  <2> HIDE DEF o
  <2>4. /\ rt' = o.rt /\ ses' = o.ses
        /\ \A x \in Tasks \ {t} : pc'[x] = TimerCancelled(pc)[x]
    BY <1>1, <2>1, <2>2, <2>3, StopsExactly
  <2>5. rt' = rt /\ ses' = NothingToEnd(ses)
    BY <2>4 DEF o
  <2>6. SupervisorKept
    BY <1>1, <2>3, <2>4 DEF TimersOnly, SupervisorKept
  <2>7. Fewer(rt, ses)
    BY <1>1, <2>5 DEF Fewer, NothingToEnd, CleanupCancelled, SessionStates
  <2>8. QED
    BY <2>6, <2>7
<1>3. CASE ses.state # "idle"
  <2>1. Teardown(t, "end", Muted(rt), EndBegun(ses), dialog, TimerCancelled(pc))
    BY <1>3 DEF EndLocked
  <2>2. Muted(rt) \in RuntimeStates /\ EndBegun(ses) \in SessionStates
    BY <1>1, RuntimeTypes, SessionTypes
  <2>3. Fewer(Muted(rt), EndBegun(ses)) /\ SupervisorKept
    BY <1>1, <2>1, <2>2, CallLeavesFewer
  <2>4. QED
    BY <1>1, <2>3, MutedIsFewer
<1>4. QED
  BY <1>2, <1>3

\* The commands of the user, and queuing for the lock.
LEMMA UserStepLeavesFewer ==
  ASSUME Before, NEW c \in Commands, Queues(c) \/ UserStep(c)
  PROVE  Fewer(rt, ses) /\ SupervisorKept
<1>1. /\ TypeOK /\ c \in Tasks /\ c \in Lockers /\ c # Supervisor
      /\ rt \in RuntimeStates /\ ses \in SessionStates /\ dialog \in CallOrNone
      /\ pc \in [Tasks -> Stages] /\ "start" \in Jobs /\ Supervisor \in Tasks
  BY TasksAssumption DEF Before, IInv, TypeOK, Tasks, Lockers, Jobs
<1>2. ASSUME NEW d \in Devices, Start(c, d) PROVE Fewer(rt, ses) /\ SupervisorKept
  <2> DEFINE o == Started(rt, ses, d)
  <2>1. Stops(c, "start", o, dialog, pc) /\ o \in Outcomes
    BY <1>1, <1>2, StartedIsOutcome DEF Start
  <2>2. /\ o.rt.negotiated = rt.negotiated /\ o.rt.process = rt.process
        /\ ~o.rt.sending /\ ~o.ses.microphone
    <3>1. /\ Muted(rt) \in RuntimeStates /\ ~Muted(rt).sending
          /\ Muted(rt).negotiated = rt.negotiated /\ Muted(rt).process = rt.process
      BY <1>1 DEF Muted, WithMicrophone, RuntimeStates
    <3>2. Connecting(ses, d) \in SessionStates /\ ~Connecting(ses, d).microphone
      BY <1>1 DEF Connecting, SessionStates
    <3>3. CASE AlreadyActive(Muted(rt))
      BY <3>1, <3>2, <3>3 DEF Started, StartFailed, SessionStates
    <3>4. CASE ~AlreadyActive(Muted(rt))
      BY <3>1, <3>2, <3>4 DEF Started, Preparing, RuntimeStates
    <3>5. QED
      BY <3>3, <3>4
  <2> HIDE DEF o
  <2>3. /\ rt' = o.rt /\ ses' = o.ses
        /\ \A x \in Tasks \ {c} : pc'[x] = pc[x]
    BY <1>1, <2>1, StopsExactly
  <2>4. QED
    BY <1>1, <2>2, <2>3 DEF Fewer, SupervisorKept
<1>3. ASSUME NEW d \in Devices, SwitchDevice(c, d)
      PROVE  Fewer(rt, ses) /\ SupervisorKept
  <2>1. Teardown(c, d, Muted(rt), EndBegun(ses), dialog, TimerCancelled(pc))
    BY <1>3 DEF SwitchDevice
  <2>2. Muted(rt) \in RuntimeStates /\ EndBegun(ses) \in SessionStates /\ d \in Jobs
    BY <1>1, RuntimeTypes, SessionTypes DEF Jobs
  <2>3. Fewer(Muted(rt), EndBegun(ses)) /\ SupervisorKept
    BY <1>1, <2>1, <2>2, CallLeavesFewer
  <2>4. QED
    BY <1>1, <2>3, MutedIsFewer
<1>4. ASSUME NEW d \in Devices, StartShared(c, d)
      PROVE  Fewer(rt, ses) /\ SupervisorKept
  <2>1. pc' = [pc EXCEPT ![c] = "out"] /\ UNCHANGED <<rt, ses>>
    BY <1>4 DEF StartShared
  <2>2. QED
    BY <1>1, <2>1 DEF Fewer, SupervisorKept
<1>5. CASE Queues(c)
  <2>1. pc' = [pc EXCEPT ![c] = "queued"] /\ UNCHANGED <<rt, ses>>
    BY <1>5 DEF Queues
  <2>2. QED
    BY <1>1, <2>1 DEF Fewer, SupervisorKept
<1>6. QED
  BY <1>1, <1>2, <1>3, <1>4, <1>5, EndLeavesFewer DEF UserStep, End

-----------------------------------------------------------------------------
(* What the steps of a call do, seen as CallPromise sees them.              *)

\* what holds all the time, as long as the connection does
Connected == Served /\ pc[Supervisor] = "out"

\* the call is left with no more than it had, or makes the one step of its life
\* that gives it more
Promised ==
  \/ Fewer(rt, ses)
  \/ \E n \in Calls : Promise!Answer(n)
  \/ Promise!Watch
  \/ Promise!SpeakOn

\* A start that sends the ACK of its answer: there is no call, and nothing is on.
LEMMA AcknowledgedIsNothing ==
  ASSUME Connected, NEW c \in Commands, pc[c] = "acknowledging"
  PROVE  /\ rt.negotiated = NoCall /\ rt.process = NoCall /\ ~rt.sending
         /\ ~ses.microphone /\ leg[c] \in Calls
<1>1. rt.negotiated = NoCall /\ rt.process = NoCall /\ leg[c] \in Calls
  BY DEF Connected, Served, Before, PatientInv, AcknowledgingStartHasDialog,
     StartedCallIsAlive
<1>2. ~rt.sending /\ ~ses.microphone
  <2>1. ses.state = "connecting"
    BY DEF Connected, Served, ServedInv, StartIsShown, Starting
  <2>2. ~ses.microphone
    BY <2>1 DEF Connected, Served, Before, IInv, LockInv, MicrophoneOnlyWhileStreaming
  <2>3. QED
    BY <2>2 DEF Connected, Served, Before, PatientInv, NoSilentMicrophone
<1>3. QED
  BY <1>1, <1>2

\* A start that fails with the call of its answer, which it took, still there.
LEMMA UnusableIsPromised ==
  ASSUME Connected, After, NEW c \in Commands, pc[c] = "acknowledging",
         Fewer(Negotiated(rt, leg[c]), ses)
  PROVE  Promised
<1>1. /\ rt \in RuntimeStates /\ ses \in SessionStates
      /\ rt' \in RuntimeStates /\ ses' \in SessionStates
  BY DEF Connected, Served, Before, After, IInv, TypeOK
<1>2. /\ Negotiated(rt, leg[c]).negotiated = leg[c]
      /\ Negotiated(rt, leg[c]).process = rt.process
      /\ Negotiated(rt, leg[c]).sending = rt.sending
  BY <1>1 DEF Negotiated, RuntimeStates
<1>3. /\ rt.negotiated = NoCall /\ rt.process = NoCall /\ ~rt.sending
      /\ ~ses.microphone /\ leg[c] \in Calls
  BY AcknowledgedIsNothing
<1>4. /\ rt'.negotiated \in {leg[c], NoCall} /\ rt'.process = NoCall
      /\ ~rt'.sending /\ ~ses'.microphone
  BY <1>2, <1>3 DEF Fewer
<1>5. CASE rt'.negotiated = NoCall
  BY <1>3, <1>4, <1>5 DEF Fewer, Promised
<1>6. CASE rt'.negotiated = leg[c]
  <2>1. rt'.sending = rt.sending /\ ses'.microphone = ses.microphone
    BY <1>1, <1>3, <1>4 DEF RuntimeStates, SessionStates
  <2>2. Promise!Answer(leg[c])
    BY <1>3, <1>4, <1>6, <2>1 DEF Promise!Answer, NoCall
  <2>3. QED
    BY <1>3, <2>2 DEF Promised
<1>7. QED
  BY <1>4, <1>5, <1>6

LEMMA StartStepIsPromised ==
  ASSUME Connected, After, NEW c \in Commands, StartStep(c)
  PROVE  Promised /\ SupervisorKept /\ ErrorKept(ses)
<1>1. /\ TypeOK /\ c \in Tasks /\ c # Supervisor /\ Supervisor \in Tasks
      /\ rt \in RuntimeStates /\ ses \in SessionStates /\ dialog \in CallOrNone
      /\ leg[c] \in CallOrNone /\ pc \in [Tasks -> Stages] /\ "start" \in Jobs
      /\ Before
  BY TasksAssumption DEF Connected, Served, Before, IInv, TypeOK, Tasks, Jobs
<1>2. CASE PrepareFails(c)
  <2> DEFINE o == [rt |-> rt, ses |-> StartFailed(ses), at |-> "out"]
  <2>1. Stops(c, "start", o, dialog, pc)
    BY <1>2 DEF PrepareFails
  <2>2. o \in Outcomes
    BY <1>1, SessionTypes DEF Outcomes, Stages
  <2> HIDE DEF o
  <2>3. /\ rt' = o.rt /\ ses' = o.ses
        /\ \A x \in Tasks \ {c} : pc'[x] = pc[x]
    BY <1>1, <2>1, <2>2, StopsExactly
  <2>4. rt' = rt /\ ses' = StartFailed(ses)
    BY <2>3 DEF o
  <2>5. ~ses'.microphone /\ ses'.state = "error"
    BY <1>1, <2>4 DEF StartFailed, SessionStates
  <2>6. SupervisorKept /\ ErrorKept(ses)
    BY <1>1, <2>3, <2>5 DEF SupervisorKept, ErrorKept
  <2>7. QED
    BY <2>4, <2>5, <2>6 DEF Fewer, Promised
<1>3. ASSUME NEW r \in RuntimeStates, NEW d \in CallOrNone,
             Teardown(c, "start", r, ses, d, pc)
      PROVE  Fewer(r, ses) /\ SupervisorKept /\ ErrorKept(ses)
  BY <1>1, <1>3, CallLeavesFewer
<1>4. CASE InviteRefused(c)
  <2>1. AudioBound(rt) \in RuntimeStates
    BY <1>1, RuntimeTypes
  <2>2. Fewer(AudioBound(rt), ses) /\ SupervisorKept /\ ErrorKept(ses)
    BY <1>1, <1>3, <1>4, <2>1 DEF InviteRefused
  <2>3. Fewer(rt, ses)
    BY <1>1, <2>2 DEF Fewer, AudioBound, RuntimeStates
  <2>4. QED
    BY <2>2, <2>3 DEF Promised
<1>5. CASE AnswerUnusable(c)
  <2>1. Negotiated(rt, leg[c]) \in RuntimeStates /\ pc[c] = "acknowledging"
    BY <1>1, <1>5, RuntimeTypes DEF AnswerUnusable
  <2>2. /\ SupervisorKept /\ ErrorKept(ses)
        /\ Fewer(rt, ses) \/ Fewer(Negotiated(rt, leg[c]), ses)
    BY <1>1, <1>3, <1>5, <2>1 DEF AnswerUnusable
  <2>3. QED
    BY <2>1, <2>2, UnusableIsPromised DEF Promised
<1>6. CASE AckRefused(c) \/ InviteFails(c) \/ SpawnFails(c)
  BY <1>1, <1>3, <1>6 DEF AckRefused, InviteFails, SpawnFails, Promised
<1>7. CASE Invite(c)
  <2>1. rt' = AudioBound(rt) /\ ses' = ses /\ pc' = [pc EXCEPT ![c] = "inviting"]
    BY <1>7 DEF Invite
  <2>2. Fewer(rt, ses)
    BY <1>1, <2>1 DEF Fewer, AudioBound, RuntimeStates
  <2>3. QED
    BY <1>1, <2>1, <2>2 DEF Promised, SupervisorKept, ErrorKept
<1>8. CASE InviteAnswered(c)
  <2>1. UNCHANGED <<rt, ses>> /\ pc' = [pc EXCEPT ![c] = "acknowledging"]
    BY <1>8 DEF InviteAnswered
  <2>2. QED
    BY <1>1, <2>1 DEF Fewer, Promised, SupervisorKept, ErrorKept
<1>9. CASE InviteAccepted(c)
  <2>1. /\ rt' = Negotiated(rt, leg[c]) /\ ses' = ses /\ pc[c] = "acknowledging"
        /\ pc' = [pc EXCEPT ![c] = "spawning"]
    BY <1>9 DEF InviteAccepted
  <2>2. Fewer(Negotiated(rt, leg[c]), ses)
    BY <2>1 DEF Fewer
  <2>3. SupervisorKept /\ ErrorKept(ses)
    BY <1>1, <2>1 DEF SupervisorKept, ErrorKept
  <2>4. QED
    BY <2>1, <2>2, <2>3, UnusableIsPromised
<1>10. ASSUME NEW w \in Watchdogs, Spawn(c, w)
      PROVE  Promised /\ SupervisorKept /\ ErrorKept(ses)
  <2>1. /\ pc[c] = "spawning" /\ rt' = Spawned(rt, leg[c], w) /\ ses' = ses
        /\ pc' = [pc EXCEPT ![c] = "out", ![w] = "waiting"]
    BY <1>10 DEF Spawn
  <2>2. w \in Tasks /\ w # Supervisor
    BY TasksAssumption DEF Tasks
  <2>3. rt.process = NoCall /\ rt.negotiated = leg[c] /\ leg[c] # NoCall
    <3>1. rt.process = NoCall /\ CallOfSpawning(leg[c]) /\ leg[c] \in Calls
      BY <1>1, <2>1 DEF Before, PatientInv, AnsweredStartHasCall, StartedCallIsAlive
    <3>2. rt.negotiated = leg[c]
      BY <3>1 DEF CallOfSpawning, Connected, Reachable
    <3>3. QED
      BY <3>1, <3>2, TasksAssumption DEF Calls, NoCall
  <2>4. /\ rt'.process = leg[c] /\ rt'.negotiated = rt.negotiated
        /\ rt'.sending = rt.sending
    BY <1>1, <2>1 DEF Spawned, RuntimeStates
  <2>5. Promise!Watch
    BY <2>1, <2>3, <2>4 DEF Promise!Watch, NoCall
  <2>6. SupervisorKept /\ ErrorKept(ses)
    BY <1>1, <2>1, <2>2 DEF SupervisorKept, ErrorKept
  <2>7. QED
    BY <2>5, <2>6 DEF Promised
<1>11. QED
  BY <1>2, <1>4, <1>5, <1>6, <1>7, <1>8, <1>9, <1>10
     DEF StartStep

\* FFmpeg and its watchdog, and a BYE from the gateway.
LEMMA EventsArePromised ==
  ASSUME Connected,
         \/ FFmpegExits
         \/ \E w \in Watchdogs : WatchdogStep(w)
         \/ \E n \in Calls : RemoteEnded(n)
  PROVE  Promised /\ SupervisorKept /\ ErrorKept(ses)
<1>1. /\ TypeOK /\ Reader \in Tasks /\ Reader # Supervisor /\ Supervisor \in Tasks
      /\ rt \in RuntimeStates /\ ses \in SessionStates /\ dialog \in CallOrNone
      /\ NoCall \in CallOrNone /\ pc \in [Tasks -> Stages] /\ "none" \in Jobs /\ Before
  BY TasksAssumption, NoCallTypes
     DEF Connected, Served, Before, IInv, TypeOK, Tasks, Jobs
<1>2. CASE FFmpegExits
  <2>1. rt' = [rt EXCEPT !.exited = TRUE] /\ UNCHANGED <<ses, pc>>
    BY <1>2 DEF FFmpegExits
  <2>2. Fewer(rt, ses)
    BY <1>1, <2>1 DEF Fewer, RuntimeStates
  <2>3. QED
    BY <2>1, <2>2 DEF Promised, SupervisorKept, ErrorKept
<1>3. ASSUME NEW w \in Watchdogs, FirstVideo(w)
      PROVE  Promised /\ SupervisorKept /\ ErrorKept(ses)
  <2>1. /\ pc[w] = "waiting" /\ pc' = [pc EXCEPT ![w] = "watching"] /\ rt' = rt
        /\ ses' \in {ses, StreamsRunning(ses)}
    BY <1>3 DEF FirstVideo, Delivered
  <2>2. w \in Tasks /\ w # Supervisor
    BY TasksAssumption DEF Tasks
  <2>3. Live(ses)
    BY <2>1 DEF Connected, Served, ServedInv, SupervisedIsLive, Supervising
  <2>4. ses'.microphone = ses.microphone
    BY <1>1, <2>1 DEF StreamsRunning, SessionStates
  <2>5. Fewer(rt, ses)
    BY <2>1, <2>4 DEF Fewer
  <2>6. SupervisorKept /\ ErrorKept(ses)
    BY <1>1, <2>1, <2>2, <2>3 DEF SupervisorKept, ErrorKept, Live
  <2>7. QED
    BY <2>5, <2>6 DEF Promised
<1>4. ASSUME NEW w \in Watchdogs, WatchdogFails(w)
      PROVE  Promised /\ SupervisorKept /\ ErrorKept(ses)
  <2> DEFINE s == Delivered(ses, RuntimeError(ses))
  <2>1. Teardown(w, "none", rt, s, dialog, pc)
    BY <1>4 DEF WatchdogFails
  <2>2. s \in SessionStates /\ w \in Tasks /\ w # Supervisor
    BY <1>1, SessionTypes, TasksAssumption DEF Delivered, Tasks
  <2>3. /\ s.microphone => ses.microphone
        /\ ses.state = "error" => s.state = "error"
    BY <1>1 DEF Delivered, RuntimeError, SessionStates
  <2> HIDE DEF s
  <2>4. Fewer(rt, s) /\ SupervisorKept /\ ErrorKept(s)
    BY <1>1, <2>1, <2>2, CallLeavesFewer
  <2>5. QED
    BY <2>3, <2>4 DEF Fewer, ErrorKept, Promised
<1>5. ASSUME NEW n \in Calls, RemoteEnded(n)
      PROVE  Promised /\ SupervisorKept /\ ErrorKept(ses)
  <2>1. Teardown(Reader, "none", rt, ses, NoCall, pc)
    BY <1>5 DEF RemoteEnded
  <2>2. Fewer(rt, ses) /\ SupervisorKept /\ ErrorKept(ses)
    BY <1>1, <2>1, CallLeavesFewer
  <2>3. QED
    BY <2>2 DEF Promised
<1>6. QED
  BY <1>2, <1>3, <1>4, <1>5 DEF WatchdogStep

\* Steps that leave the runtime alone, and of the session its state and flag.
LEMMA UntouchedIsPromised ==
  ASSUME rt' = rt, ses'.microphone = ses.microphone, ses'.state = ses.state,
         pc'[Supervisor] = pc[Supervisor]
  PROVE  Promised /\ SupervisorKept /\ ErrorKept(ses)
BY DEF Promised, Fewer, SupervisorKept, ErrorKept

\* The microphone, viewers, timers, the gateway and the network.
LEMMA OutsideIsPromised ==
  ASSUME Connected,
         \/ UNCHANGED vars \/ LinkLost \/ ViewerStep
         \/ \E t \in Timers : TimerFires(t)
         \/ \E on \in BOOLEAN : SetMicrophone(on)
         \/ \E n \in Calls : ReadAnswer(n) \/ ByeIgnored(n) \/ GatewayStep(n)
  PROVE  Promised /\ SupervisorKept /\ ErrorKept(ses)
<1>1. /\ TypeOK /\ rt \in RuntimeStates /\ ses \in SessionStates
      /\ pc \in [Tasks -> Stages] /\ Supervisor \in Tasks /\ Supervisor \notin Timers
  BY TasksAssumption DEF Connected, Served, Before, IInv, TypeOK, Tasks
<1>2. CASE \/ UNCHANGED vars \/ LinkLost
           \/ \E n \in Calls : ReadAnswer(n) \/ ByeIgnored(n) \/ GatewayStep(n)
  <2>1. UNCHANGED <<rt, ses, pc>>
    BY <1>2 DEF vars, LinkLost, ReadAnswer, ByeIgnored, GatewayStep, GatewayPicksUp,
       GatewayHangsUp
  <2>2. QED
    BY <2>1, UntouchedIsPromised
<1>3. CASE ViewerStep
  <2>1. rt' = rt
    BY <1>3 DEF ViewerStep, ViewerJoins, ViewerGivesUp, ViewerLeaves
  <2>2. ses'.microphone = ses.microphone /\ ses'.state = ses.state
    BY <1>1, <1>3 DEF ViewerStep, ViewerJoins, ViewerGivesUp, ViewerLeaves, ViewerAdded,
       ViewerRemoved, CleanupCancelled, SessionStates
  <2>3. pc'[Supervisor] = pc[Supervisor]
    <3>1. CASE ViewerJoins
      <4>1. pc' = TimerCancelled(pc)
        BY <3>1 DEF ViewerJoins
      <4>2. QED
        BY <1>1, <4>1, TimersOnlyCancelled DEF TimersOnly, Connected
    <3>2. CASE ViewerGivesUp
      BY <3>2 DEF ViewerGivesUp
    <3>3. ASSUME NEW t \in Timers, ViewerLeaves(t) PROVE pc'[Supervisor] = pc[Supervisor]
      <4>1. pc' \in {pc, [pc EXCEPT ![t] = "armed"]}
        BY <3>3 DEF ViewerLeaves
      <4>2. QED
        BY <1>1, <4>1
    <3>4. QED
      BY <1>3, <3>1, <3>2, <3>3 DEF ViewerStep
  <2>4. QED
    BY <2>1, <2>2, <2>3, UntouchedIsPromised
<1>4. ASSUME NEW t \in Timers, TimerFires(t)
      PROVE  Promised /\ SupervisorKept /\ ErrorKept(ses)
  <2>1. /\ UNCHANGED <<rt, ses>> /\ pc' = [pc EXCEPT ![t] = "fired"]
    BY <1>4 DEF TimerFires
  <2>2. QED
    BY <1>1, <2>1, UntouchedIsPromised
<1>5. ASSUME NEW on \in BOOLEAN, SetMicrophone(on)
      PROVE  Promised /\ SupervisorKept /\ ErrorKept(ses)
  <2>1. /\ rt' = WithMicrophone(rt, on) /\ ses' = [ses EXCEPT !.microphone = on]
        /\ pc' = pc /\ (on => MicrophoneAllowed(rt))
    BY <1>5 DEF SetMicrophone
  <2>2. /\ rt'.negotiated = rt.negotiated /\ rt'.process = rt.process
        /\ rt'.sending = (rt.audio /\ on) /\ ses'.microphone = on
        /\ ses'.state = ses.state
    BY <1>1, <2>1 DEF WithMicrophone, RuntimeStates, SessionStates
  <2>3. CASE on
    <3>1. Promise!SpeakOn
      BY <2>1, <2>2, <2>3 DEF Promise!SpeakOn, MicrophoneAllowed, NoCall
    <3>2. QED
      BY <2>1, <2>2, <3>1 DEF Promised, SupervisorKept, ErrorKept
  <2>4. CASE ~on
    BY <2>1, <2>2, <2>4 DEF Promised, Fewer, SupervisorKept, ErrorKept
  <2>5. QED
    BY <2>3, <2>4
<1>6. QED
  BY <1>2, <1>3, <1>4, <1>5

\* With a connection that holds, the supervisor has nothing to do.
LEMMA SupervisorRests ==
  ASSUME ~SipMayFail, Connected
  PROVE  ~SupervisorStep /\ ~TeardownStep(Supervisor)
BY DEF Connected, SupervisorStep, SupervisorCloses, SupervisorByeReturns, SipCloses,
   TeardownStep, HelpersGone, ProcessGone, ByeAnswered, ByeUnanswered, ByeReturns

LEMMA StepIsPromised ==
  ASSUME ~SipMayFail, Connected, After, [Next]_vars
  PROVE  /\ Promised /\ SupervisorKept
         /\ \/ ErrorKept(ses)
            \/ \E c \in Commands : UserStep(c)
            \/ \E t \in Timers : TimerEnds(t)
            \/ \E t \in Commands \cup Timers : TeardownStep(t)
<1>1. Before
  BY DEF Connected, Served
<1>2. ASSUME NEW t \in Tasks, TeardownStep(t)
      PROVE  Promised /\ SupervisorKept /\ (t \notin Lockers => ErrorKept(ses))
  <2>1. t # Supervisor
    BY <1>2, SupervisorRests
  <2>2. QED
    BY <1>1, <1>2, <2>1, TeardownStepLeavesFewer DEF Promised
<1>3. ASSUME NEW c \in Commands, Queues(c) \/ UserStep(c)
      PROVE  Promised /\ SupervisorKept /\ (Queues(c) => ErrorKept(ses))
  BY <1>1, <1>3, UserStepLeavesFewer DEF Promised, Queues, ErrorKept
<1>4. ASSUME NEW t \in Timers, TimerEnds(t) PROVE Promised /\ SupervisorKept
  BY <1>1, <1>4, EndLeavesFewer DEF TimerEnds, Lockers, Promised
<1>5. ~SupervisorStep
  BY SupervisorRests
<1>6. QED
  BY <1>2, <1>3, <1>4, <1>5, StartStepIsPromised, EventsArePromised, OutsideIsPromised
     DEF Next, TimerStep, ReaderStep, Lockers

-----------------------------------------------------------------------------
(* What holds as long as the connection does.                               *)

LEMMA ConnectedAlways ==
  ASSUME ~EarlyHangUp, ~SipMayFail PROVE Spec => []Connected
<1>1. Init /\ Served => Connected
  BY DEF Init, Tasks, Connected
<1>2. Connected /\ Served' /\ [Next]_vars => Connected'
  BY StepIsPromised DEF Connected, Served, Before, After, SupervisorKept
<1>3. QED
  BY <1>1, <1>2, ServedAlways, PTL DEF Spec

\* FFmpeg is never left running unwatched: whatever commands, watchdog and BYE
\* do to each other, somebody will find out that no picture arrives, or is
\* already stopping it.
THEOREM FFmpegHasKeeper ==
  ASSUME ~EarlyHangUp, ~SipMayFail PROVE Spec => []FFmpegIsWatched
<1>1. Connected => FFmpegIsWatched
  BY DEF Connected, Served, ServedInv, FFmpegIsOwned, FFmpegIsWatched, Tearing,
     TeardownStages, Tasks
<1>2. QED
  BY <1>1, ConnectedAlways, PTL

\* The panel shows "streaming" only while the runtime has a call, although the
\* two are told of the end of one by different events.
THEOREM StreamingIsACall ==
  ASSUME ~EarlyHangUp, ~SipMayFail PROVE Spec => []StreamingHasCall
<1>1. Connected => StreamingHasCall
  BY DEF Connected, Served, ServedInv
<1>2. QED
  BY <1>1, ConnectedAlways, PTL

\* The end of a failed call does not hide its error: the watchdog's teardown,
\* the BYE of the gateway and a late first frame leave the error on show.
THEOREM ErrorOnShow ==
  ASSUME ~EarlyHangUp, ~SipMayFail PROVE Spec => ErrorStays
<1>1. Connected /\ Connected' /\ [Next]_vars
        => [ses.state = "error" /\ ses'.state # "error" =>
              \/ \E c \in Commands : UserStep(c)
              \/ \E t \in Timers : TimerEnds(t)
              \/ \E t \in Commands \cup Timers : TeardownStep(t)]_vars
  BY StepIsPromised DEF Connected, Served, Before, After, ErrorKept
<1>2. QED
  BY <1>1, ConnectedAlways, PTL DEF Spec, ErrorStays

\* A call that loses something loses it the way CallPromise allows: a mute, a
\* picture that stops, or all of it at once.
LEMMA FewerIsAllowed ==
  ASSUME Connected', Fewer(rt, ses)
  PROVE  Promise!Quieten \/ Promise!Release
<1>1. rt'.sending => ses'.microphone
  BY DEF Connected, Served, Before, PatientInv, NoSilentMicrophone
<1>2. CASE rt'.negotiated = rt.negotiated
  BY <1>1, <1>2 DEF Fewer, Promise!Quieten, NoCall
<1>3. CASE rt'.negotiated # rt.negotiated
  <2>1. rt.negotiated # NoCall /\ rt'.negotiated = NoCall
    BY <1>3 DEF Fewer
  <2>2. rt'.process = NoCall
    BY <2>1 DEF Connected, Served, Before, PatientInv, OrphanIsUnreachable, Reachable
  <2>3. ~ses'.microphone
    BY <2>1 DEF Connected, Served, ServedInv, StreamingHasCall, Before, IInv, LockInv,
       MicrophoneOnlyWhileStreaming
  <2>4. QED
    BY <1>1, <2>1, <2>2, <2>3 DEF Promise!Release, NoCall
<1>4. QED
  BY <1>2, <1>3

\* Sessions, tasks, teardowns and SIP messages together do what CallPromise
\* says: one call at a time, begun muted, whose picture and microphone end with
\* it, and a panel that shows the microphone for as long as it transmits.
THEOREM CallKeepsPromise ==
  ASSUME ~EarlyHangUp, ~SipMayFail PROVE Spec => KeepsPromise
<1>1. Init => Promise!PromiseInit
  BY DEF Init, NewRuntime, NewSession, Promise!PromiseInit, NoCall
<1>2. Connected /\ Connected' /\ [Next]_vars
        => [Promise!PromiseNext]_(Promise!promiseVars)
  BY StepIsPromised, FewerIsAllowed
     DEF Connected, Served, Before, After, Promised, Promise!PromiseNext
<1>3. QED
  BY <1>1, <1>2, ConnectedAlways, PTL
     DEF Spec, KeepsPromise, Promise!PromiseSpec

=============================================================================
