------------------------- MODULE PatientCall_proofs -------------------------
(***************************************************************************)
(* Theorems about MonitoringCall with a gateway that does not hang up on a  *)
(* start in progress, whatever becomes of the SIP connection.               *)
(***************************************************************************)
EXTENDS MonitoringCall_proofs

(* The invariant of a call whose start the gateway does not interrupt.      *)

\* the session is dropped and nobody is left to start a call
Dead == ~Reachable /\ \A c \in Commands : pc[c] = "out"

\* a call not yet placed rings nowhere, and no BYE of it can be unread
UnplacedIsSilent ==
  \A n \in Calls : n > placed => phone[n] \notin {"ringing", "up"} /\ n \notin byes

\* a start that has sent its INVITE works on a call nobody has hung up on
StartedCallIsAlive ==
  \A c \in Commands :
    pc[c] \in {"inviting", "acknowledging", "spawning"} => leg[c] \in Calls /\ leg[c] \notin byes

\* a start that sends its ACK has the dialog, and nothing else of its call
AcknowledgingStartHasDialog ==
  \A c \in Commands :
    pc[c] = "acknowledging" =>
      /\ rt.process = NoCall /\ rt.negotiated = NoCall /\ rt.monitor = None
      /\ ~rt.ending /\ dialog = leg[c]

\* a start without an answer finds no trace of another call, and no teardown
UnansweredStartIsAlone ==
  \A c \in Commands :
    pc[c] \in {"preparing", "inviting"} =>
      /\ rt.process = NoCall /\ rt.negotiated = NoCall /\ rt.monitor = None
      /\ ~rt.ending /\ dialog = NoCall

\* an answered start has its call, unless the supervisor is hanging it up or
\* has done so
CallOfSpawning(n) ==
  \/ ~rt.ending /\ dialog = n /\ rt.negotiated = n
  \/ /\ pc[Supervisor] = "hangingUp" /\ rt.ending /\ ~rt.audio
     /\ dialog = NoCall /\ rt.negotiated = n
  \/ /\ ~Reachable /\ ~rt.ending /\ ~rt.audio
     /\ dialog = NoCall /\ rt.negotiated = NoCall

AnsweredStartHasCall ==
  \A c \in Commands :
    pc[c] = "spawning" =>
      rt.process = NoCall /\ rt.monitor = None /\ CallOfSpawning(leg[c])

\* while a task other than a command or a timer tears down, the call is not
\* forgotten, so no command can start another one
TeardownBarsStarts ==
  \A t \in Tasks \ Lockers : Tearing(t) => rt.negotiated # NoCall \/ Dead

\* what each stage of a teardown has behind it
TeardownInOrder ==
  \A t \in Tasks :
    /\ pc[t] \in {"cancelling", "terminating"} => rt.monitor = None
    /\ pc[t] = "terminating" => rt.process = NoCall
    /\ pc[t] = "hangingUp" => /\ ~rt.audio /\ dialog = NoCall
                              /\ rt.process = NoCall \/ t = Supervisor

\* who supervises is the monitor, the monitor has an FFmpeg to watch, and only
\* a start that the supervisor overtook puts one into a teardown
MonitorWatches ==
  /\ \A w \in Watchdogs : Supervising(w) => rt.monitor = w
  /\ rt.monitor # None => rt.process # NoCall
  /\ rt.ending /\ rt.monitor # None => pc[Supervisor] = "hangingUp"

\* FFmpeg outlives its call only when the session has been dropped
OrphanIsUnreachable ==
  rt.process # NoCall /\ rt.negotiated = NoCall => ~Reachable

\* there is no sending without a socket
SendingNeedsAudio == rt.sending => rt.audio

\* a call that its watchdog tears down is no longer shown as live
FailureIsShown ==
  \A w \in Watchdogs : Tearing(w) /\ pc[Supervisor] = "out" => ~Live(ses)

PatientInv ==
  /\ UnplacedIsSilent /\ StartedCallIsAlive
  /\ UnansweredStartIsAlone /\ AcknowledgingStartHasDialog /\ AnsweredStartHasCall
  /\ TeardownExclusive /\ TeardownBarsStarts /\ TeardownInOrder
  /\ MonitorWatches /\ OrphanIsUnreachable /\ ReaderHasNoDialog
  /\ DialogIsNegotiated
  /\ NoSilentMicrophone /\ SendingNeedsAudio /\ FailureIsShown

\* the invariants proved without looking at the gateway, before and after a step
Before == IInv /\ KindInv /\ PatientInv
After == IInv' /\ KindInv'

-----------------------------------------------------------------------------
(* The ways a task leaves a step that may concern a teardown.               *)

\* What the step leaves of the calls: none is new, no BYE arrives, and a start
\* that waits for an answer or for FFmpeg goes on waiting with its call.
CallsKept ==
  /\ placed' = placed /\ byes' \subseteq byes
  /\ \A n \in Calls : phone'[n] \in {"ringing", "up"} => phone[n] \in {"ringing", "up"}
  /\ \A c \in Commands : pc'[c] \in {"inviting", "acknowledging", "spawning"} =>
       pc[c] \in {"inviting", "acknowledging", "spawning"} /\ leg'[c] = leg[c]

LEMMA CallsKeptKeeps ==
  ASSUME PatientInv, CallsKept PROVE UnplacedIsSilent' /\ StartedCallIsAlive'
BY DEF PatientInv, CallsKept, UnplacedIsSilent, StartedCallIsAlive

\* What the tasks other than t can be found doing after its step.
LEMMA OthersStay ==
  ASSUME Before, NEW t \in Tasks, NEW m \in Watchdogs \cup {None}, OthersShed(t, m)
  PROVE  /\ \A x \in Tasks \ {t} : Tearing(x)' => pc'[x] = pc[x]
         /\ \A c \in Commands \ {t} : Starting(c)' => pc'[c] = pc[c] /\ leg'[c] = leg[c]
         /\ \A c \in Commands \ {t} : pc[c] = "out" => pc'[c] = "out"
         /\ \A w \in Watchdogs \ {t} : Supervising(w)' => Supervising(w) /\ w # m
         /\ Supervisor # t => pc'[Supervisor] = pc[Supervisor]
         /\ t # Supervisor => (Reachable' <=> Reachable)
<1>1. /\ m \notin Commands /\ m # Supervisor
      /\ Commands \subseteq Tasks /\ Watchdogs \subseteq Tasks /\ Supervisor \in Tasks
      /\ Supervisor \notin Timers /\ Supervisor \notin Watchdogs
      /\ Commands \cap Timers = {} /\ Commands \cap Watchdogs = {}
  BY TasksAssumption DEF Tasks
<1>2. \A x \in Tasks : Fits(x, pc[x], job[x])
  BY DEF Before, KindInv
<1>3. \A x \in Tasks \ {t} : Tearing(x)' => pc'[x] = pc[x]
  BY DEF OthersShed, Tearing, TeardownStages
<1>4. \A c \in Commands \ {t} : pc'[c] = pc[c]
  BY <1>1, <1>2 DEF OthersShed, Fits
<1>5. \A c \in Commands \ {t} : pc'[c] # "out" => leg'[c] = leg[c]
  BY <1>1 DEF OthersShed
<1>6. \A w \in Watchdogs \ {t} : Supervising(w)' => Supervising(w) /\ w # m
  BY <1>1 DEF OthersShed, Supervising
<1>7. Supervisor # t => pc'[Supervisor] = pc[Supervisor]
  BY <1>1, <1>2 DEF OthersShed, Fits
<1>8. QED
  BY <1>3, <1>4, <1>5, <1>6, <1>7 DEF Starting, Reachable

\* t stops inside the one teardown there is.
LEMMA SuspendKeeps ==
  ASSUME Before, After, CallsKept,
         NEW t \in Tasks, NEW m \in Watchdogs \cup {None}, OthersShed(t, m),
         rt.ending => Tearing(t),
         pc'[t] \in TeardownStages, rt'.ending, rt'.monitor = None,
         \A w \in Watchdogs : ~Supervising(w)',
         pc'[t] \in {"terminating", "hangingUp"} => rt'.process = NoCall,
         pc'[t] = "hangingUp" => ~rt'.audio /\ dialog' = NoCall,
         rt'.process # NoCall =>
           rt'.process = rt.process /\ rt'.negotiated = rt.negotiated,
         dialog' # NoCall => rt'.negotiated = dialog',
         t \notin Lockers => rt'.negotiated # NoCall \/ Dead',
         t = Reader => dialog' = NoCall,
         t = Supervisor => Reachable,
         rt'.sending => rt'.audio /\ rt.sending /\ ses' = ses,
         t \in Watchdogs /\ pc'[Supervisor] = "out" => ~Live(ses'),
         \A c \in Commands : Starting(c)' =>
           /\ t = Supervisor /\ pc'[t] = "hangingUp"
           /\ pc[c] = "spawning" /\ rt'.negotiated = leg[c]
  PROVE  PatientInv'
<1> USE DEF Before
<1>1. /\ \A x \in Tasks \ {t} : Tearing(x)' => pc'[x] = pc[x]
      /\ \A c \in Commands \ {t} : Starting(c)' => pc'[c] = pc[c] /\ leg'[c] = leg[c]
      /\ t # Supervisor => (Reachable' <=> Reachable)
  BY OthersStay
<1>2. \A x \in Tasks : Tearing(x)' <=> x = t
  <2>1. \A x \in Tasks \ {t} : ~Tearing(x)
    BY DEF PatientInv, TeardownExclusive
  <2>2. QED
    BY <1>1, <2>1 DEF Tearing
<1>3. TeardownExclusive'
  BY <1>2 DEF TeardownExclusive
<1>4. UnplacedIsSilent' /\ StartedCallIsAlive'
  BY CallsKeptKeeps
<1>5. UnansweredStartIsAlone'
  BY <1>1, TasksAssumption DEF UnansweredStartIsAlone, Starting, Tasks
<1>6. AnsweredStartHasCall'
  <2> SUFFICES ASSUME NEW c \in Commands, pc'[c] = "spawning"
               PROVE  rt'.process = NoCall /\ rt'.monitor = None /\ CallOfSpawning(leg[c])'
    BY DEF AnsweredStartHasCall
  <2>1. c # t
    BY DEF TeardownStages
  <2>2. /\ t = Supervisor /\ pc'[t] = "hangingUp" /\ rt'.negotiated = leg[c]
        /\ leg'[c] = leg[c]
    BY <1>1, <2>1 DEF Starting
  <2>3. QED
    BY <2>2 DEF CallOfSpawning
<1>7. AcknowledgingStartHasDialog'
  BY <1>1, TasksAssumption
     DEF AcknowledgingStartHasDialog, Starting, Tasks, TeardownStages
<1>8. TeardownBarsStarts'
  BY <1>2 DEF TeardownBarsStarts
<1>9. TeardownInOrder'
  BY <1>2 DEF TeardownInOrder, Tearing, TeardownStages
<1>10. MonitorWatches'
  BY DEF MonitorWatches
<1>11. OrphanIsUnreachable'
  BY <1>1 DEF PatientInv, OrphanIsUnreachable
<1>12. ReaderHasNoDialog'
  BY <1>2, TasksAssumption DEF ReaderHasNoDialog, Tasks
<1>13. DialogIsNegotiated'
  BY DEF DialogIsNegotiated
<1>14. NoSilentMicrophone' /\ SendingNeedsAudio'
  BY DEF PatientInv, NoSilentMicrophone, SendingNeedsAudio
<1>15. FailureIsShown'
  BY <1>2, TasksAssumption DEF FailureIsShown, Tasks
<1>16. QED
  BY <1>3, <1>4, <1>5, <1>6, <1>7, <1>8, <1>9, <1>10, <1>11, <1>12, <1>13, <1>14, <1>15
     DEF PatientInv

\* t has brought the one teardown there is to its end.
LEMMA FinishKeeps ==
  ASSUME Before, After, CallsKept,
         NEW t \in Tasks, NEW m \in Watchdogs \cup {None}, OthersShed(t, m),
         rt.ending => Tearing(t),
         pc'[t] \in {"out", "preparing", "sipBye", "closing"},
         t = Supervisor => pc'[t] \in {"sipBye", "closing"},
         ~rt'.ending, rt'.negotiated = NoCall, ~rt'.audio, ~rt'.sending,
         dialog' = NoCall,
         \/ rt'.process = NoCall /\ rt'.monitor = None /\ \A w \in Watchdogs : ~Supervising(w)'
         \/ t = Supervisor /\ rt'.process = rt.process /\ rt'.monitor = rt.monitor,
         \A c \in Commands \ {t} : Starting(c)' =>
           t = Supervisor /\ pc[c] # "acknowledging"
  PROVE  PatientInv'
<1> USE DEF Before
<1>1. /\ \A x \in Tasks \ {t} : Tearing(x)' => pc'[x] = pc[x]
      /\ \A c \in Commands \ {t} : Starting(c)' => pc'[c] = pc[c] /\ leg'[c] = leg[c]
      /\ \A w \in Watchdogs \ {t} : Supervising(w)' => Supervising(w) /\ w # m
      /\ t # Supervisor => (Reachable' <=> Reachable)
  BY OthersStay
<1>2. \A x \in Tasks : ~Tearing(x)'
  <2>1. \A x \in Tasks \ {t} : ~Tearing(x)
    BY DEF PatientInv, TeardownExclusive
  <2>2. QED
    BY <1>1, <2>1 DEF Tearing, TeardownStages
<1>3. /\ TeardownExclusive' /\ TeardownBarsStarts' /\ TeardownInOrder'
      /\ ReaderHasNoDialog' /\ FailureIsShown'
  BY <1>2, TasksAssumption
     DEF TeardownExclusive, TeardownBarsStarts, TeardownInOrder, ReaderHasNoDialog,
         FailureIsShown, Tearing, TeardownStages, Tasks
<1>4. UnplacedIsSilent' /\ StartedCallIsAlive'
  BY CallsKeptKeeps
<1>5. t = Supervisor => ~Reachable' /\ t \notin Commands /\ t \notin Watchdogs
  BY TasksAssumption DEF Reachable
<1>6. UnansweredStartIsAlone'
  <2> SUFFICES ASSUME NEW c \in Commands, pc'[c] \in {"preparing", "inviting"}
               PROVE  rt'.process = NoCall /\ rt'.monitor = None
    BY DEF UnansweredStartIsAlone
  <2>1. CASE c = t
    BY <1>5, <2>1
  <2>2. CASE c # t
    <3>1. pc[c] \in {"preparing", "inviting"}
      BY <1>1, <2>2 DEF Starting
    <3>2. rt.process = NoCall /\ rt.monitor = None
      BY <3>1 DEF PatientInv, UnansweredStartIsAlone
    <3>3. QED
      BY <3>2
  <2>3. QED
    BY <2>1, <2>2
<1>7. AnsweredStartHasCall'
  <2> SUFFICES ASSUME NEW c \in Commands, pc'[c] = "spawning"
               PROVE  rt'.process = NoCall /\ rt'.monitor = None /\ CallOfSpawning(leg[c])'
    BY DEF AnsweredStartHasCall
  <2>1. t = Supervisor /\ pc[c] = "spawning"
    BY <1>1 DEF Starting
  <2>2. rt.process = NoCall /\ rt.monitor = None
    BY <2>1 DEF PatientInv, AnsweredStartHasCall
  <2>3. QED
    BY <1>5, <2>1, <2>2 DEF CallOfSpawning
<1>8. AcknowledgingStartHasDialog'
  BY <1>1 DEF AcknowledgingStartHasDialog, Starting
<1>9. MonitorWatches'
  BY <1>1, <1>5 DEF PatientInv, MonitorWatches
<1>10. OrphanIsUnreachable'
  BY <1>5 DEF OrphanIsUnreachable
<1>11. DialogIsNegotiated' /\ NoSilentMicrophone' /\ SendingNeedsAudio'
  BY DEF DialogIsNegotiated, NoSilentMicrophone, SendingNeedsAudio
<1>12. QED
  BY <1>3, <1>4, <1>6, <1>7, <1>8, <1>9, <1>10, <1>11 DEF PatientInv

\* the runtime is the same but for its flags, and sends no more than it did
SameCall(r, q) ==
  /\ q.process = r.process /\ q.negotiated = r.negotiated
  /\ q.monitor = r.monitor /\ q.ending = r.ending /\ q.audio = r.audio
  /\ q.sending => r.sending

\* t finds another task in the middle of a teardown and leaves it alone.
LEMMA DeclineKeeps ==
  ASSUME Before, After, CallsKept,
         NEW t \in Tasks, OthersShed(t, None),
         rt.ending, ~Tearing(t),
         pc'[t] \in {"out", "sipBye", "closing"},
         t = Supervisor => pc'[t] \in {"sipBye", "closing"},
         SameCall(rt, rt'), dialog' \in {dialog, NoCall},
         rt'.sending => ses'.microphone,
         Live(ses') => Live(ses)
  PROVE  PatientInv'
<1> USE DEF Before
<1>1. /\ \A x \in Tasks \ {t} : Tearing(x)' => pc'[x] = pc[x]
      /\ \A c \in Commands \ {t} : Starting(c)' => pc'[c] = pc[c] /\ leg'[c] = leg[c]
      /\ \A c \in Commands \ {t} : pc[c] = "out" => pc'[c] = "out"
      /\ \A w \in Watchdogs \ {t} : Supervising(w)' => Supervising(w)
      /\ Supervisor # t => pc'[Supervisor] = pc[Supervisor]
      /\ t # Supervisor => (Reachable' <=> Reachable)
  BY OthersStay
<1>2. /\ rt'.process = rt.process /\ rt'.negotiated = rt.negotiated
      /\ rt'.monitor = rt.monitor /\ rt'.ending = rt.ending /\ rt'.audio = rt.audio
      /\ rt'.sending => rt.sending
  BY DEF SameCall
<1>3. \A x \in Tasks : Tearing(x)' <=> Tearing(x)
  <2>1. \A x \in Tasks \ {t} : Tearing(x) => pc'[x] = pc[x]
    BY TasksAssumption DEF OthersShed, Tearing, TeardownStages
  <2>2. QED
    BY <1>1, <2>1 DEF Tearing, TeardownStages
<1>4. \A x \in Tasks : Tearing(x)' => pc'[x] = pc[x] /\ x # t
  BY <1>1, <1>3
<1>5. t = Supervisor => ~Reachable' /\ t \notin Commands /\ t \notin Watchdogs
  BY TasksAssumption DEF Reachable
<1>6. ~Reachable => ~Reachable'
  BY <1>1, <1>5
<1>7. Supervisor \in Tasks /\ Reader \in Tasks /\ Commands \subseteq Tasks
      /\ Watchdogs \subseteq Tasks
  BY DEF Tasks
<1>8. TeardownExclusive'
  BY <1>2, <1>3 DEF PatientInv, TeardownExclusive
<1>9. UnplacedIsSilent' /\ StartedCallIsAlive'
  BY CallsKeptKeeps
<1>10. UnansweredStartIsAlone'
  <2>1. \A c \in Commands : pc'[c] \in {"preparing", "inviting"} =>
          pc[c] \in {"preparing", "inviting"}
    BY <1>1, <1>7 DEF Starting
  <2>2. QED
    BY <1>2, <2>1 DEF PatientInv, UnansweredStartIsAlone
<1>11. AnsweredStartHasCall'
  <2> SUFFICES ASSUME NEW c \in Commands, pc'[c] = "spawning"
               PROVE  rt'.process = NoCall /\ rt'.monitor = None /\ CallOfSpawning(leg[c])'
    BY DEF AnsweredStartHasCall
  <2>1. pc[c] = "spawning" /\ leg'[c] = leg[c]
    BY <1>1 DEF Starting
  <2>2. /\ rt.process = NoCall /\ rt.monitor = None
        /\ pc[Supervisor] = "hangingUp" /\ ~rt.audio
        /\ dialog = NoCall /\ rt.negotiated = leg[c]
    BY <2>1 DEF PatientInv, AnsweredStartHasCall, CallOfSpawning
  <2>3. pc'[Supervisor] = "hangingUp"
    BY <1>1, <2>2 DEF Tearing, TeardownStages
  <2>4. QED
    BY <1>2, <2>1, <2>2, <2>3 DEF CallOfSpawning
<1>12. AcknowledgingStartHasDialog'
  BY <1>1 DEF PatientInv, AcknowledgingStartHasDialog, Starting
<1>13. TeardownBarsStarts'
  <2>1. t \in Commands => pc'[t] = "out"
    BY <1>5 DEF After, KindInv, Fits
  <2>2. Dead => Dead'
    BY <1>1, <1>6, <2>1 DEF Dead
  <2>3. QED
    BY <1>2, <1>3, <2>2 DEF PatientInv, TeardownBarsStarts
<1>14. TeardownInOrder'
  BY <1>2, <1>4, TasksAssumption
     DEF PatientInv, TeardownInOrder, Tearing, TeardownStages
<1>15. MonitorWatches'
  BY <1>1, <1>2, <1>5, <1>7 DEF PatientInv, MonitorWatches, Supervising, Tearing,
     TeardownStages
<1>16. OrphanIsUnreachable'
  BY <1>2, <1>6 DEF PatientInv, OrphanIsUnreachable
<1>17. ReaderHasNoDialog'
  BY <1>3, <1>7 DEF PatientInv, ReaderHasNoDialog
<1>18. DialogIsNegotiated'
  <2>1. dialog # NoCall => rt.negotiated = dialog
    BY DEF PatientInv, DialogIsNegotiated, AcknowledgingStartHasDialog
  <2>2. QED
    BY <1>2, <2>1 DEF DialogIsNegotiated
<1>19. NoSilentMicrophone' /\ SendingNeedsAudio'
  BY <1>2 DEF PatientInv, NoSilentMicrophone, SendingNeedsAudio
<1>20. FailureIsShown'
  BY <1>1, <1>3, <1>7 DEF PatientInv, FailureIsShown
<1>21. QED
  BY <1>8, <1>9, <1>10, <1>11, <1>12, <1>13, <1>14, <1>15, <1>16, <1>17, <1>18, <1>19,
     <1>20
     DEF PatientInv

-----------------------------------------------------------------------------
(* Teardowns that go on.                                                    *)

\* Which starts can be under way while t takes a step of its teardown.
LEMMA StartsDuringTeardown ==
  ASSUME Before, NEW t \in Tasks, Tearing(t), NEW c \in Commands, Starting(c)
  PROVE  pc[c] = "spawning" /\ t = Supervisor /\ pc[t] = "hangingUp"
<1>1. rt.ending
  BY DEF Before, PatientInv, TeardownExclusive
<1>2. pc[c] = "spawning"
  BY <1>1 DEF Before, PatientInv, UnansweredStartIsAlone, AcknowledgingStartHasDialog,
     Starting
<1>3. pc[Supervisor] = "hangingUp"
  BY <1>1, <1>2 DEF Before, PatientInv, AnsweredStartHasCall, CallOfSpawning
<1>4. t = Supervisor
  BY <1>3 DEF Before, PatientInv, TeardownExclusive, Tearing, TeardownStages, Tasks
<1>5. QED
  BY <1>2, <1>3, <1>4

\* A step that leaves the gateway alone keeps the calls, if no task has come
\* to wait for an answer or for FFmpeg.
LEMMA CallsKeptByTeardown ==
  ASSUME Before, NEW t \in Tasks, NEW m \in Watchdogs \cup {None}, OthersShed(t, m),
         pc'[t] \notin {"inviting", "acknowledging", "spawning"},
         placed' = placed, byes' \subseteq byes,
         \A n \in Calls : phone'[n] \in {phone[n], "down"}
  PROVE  CallsKept
<1>1. \A c \in Commands \ {t} : Starting(c)' => pc'[c] = pc[c] /\ leg'[c] = leg[c]
  BY OthersStay
<1>2. QED
  BY <1>1 DEF CallsKept, Starting

LEMMA ResumeKeepsPatient ==
  ASSUME Before, After, NEW t \in Tasks, Tearing(t),
         NEW stage \in {"terminating", "hangingUp", "out"},
         NEW q \in RuntimeStates, NEW d \in {dialog, NoCall},
         TeardownStops(t, job[t], stage, q, ses, d, pc),
         placed' = placed, byes' \subseteq byes,
         \A n \in Calls : phone'[n] \in {phone[n], "down"},
         q.monitor = rt.monitor, q.ending <=> stage # "out",
         q.negotiated = IF stage = "out" THEN NoCall ELSE rt.negotiated,
         stage # "out" => rt.monitor = None /\ pc[t] # "hangingUp",
         \/ q.process = NoCall /\ rt.monitor = None
         \/ t = Supervisor /\ q.process = rt.process,
         stage # "out" => q.process = NoCall,
         stage \in {"hangingUp", "out"} => ~q.audio /\ ~q.sending,
         q.sending => q.audio /\ rt.sending,
         stage = "out" => d = NoCall
  PROVE  PatientInv'
<1>1. /\ TypeOK /\ pc \in [Tasks -> Stages] /\ job[t] \in Jobs /\ d \in CallOrNone
      /\ ses \in SessionStates /\ JobFits(t, job[t]) /\ rt.ending
  BY NoCallTypes DEF Before, IInv, TypeOK, KindInv, Fits, JobFits, Lockers, Tearing,
     PatientInv, TeardownExclusive
<1>2. /\ IF stage = "out"
         THEN Left(t, job[t], q, Ended(ses), d)
         ELSE SuspendedAt(t, job[t], stage, q, ses, d)
      /\ OthersShed(t, None)
  <2>1. stage \in TeardownStages \cup {"out"}
    BY DEF TeardownStages
  <2>2. /\ IF stage = "out"
           THEN Left(t, job[t], q, Ended(ses), d)
           ELSE SuspendedAt(t, job[t], stage, q, ses, d)
        /\ \A x \in Tasks \ {t} :
             /\ job'[x] = job[x]
             /\ pc'[x] # "out" => leg'[x] = leg[x]
             /\ pc'[x] = pc[x] \/ (pc[x] = "waiting" /\ pc'[x] = "deaf")
    BY <1>1, <2>1, TeardownStopsExactly
  <2>3. None \notin Tasks
    BY TasksAssumption
  <2>4. QED
    BY <2>2, <2>3 DEF OthersShed
<1>3. /\ \A c \in Commands \ {t} : Starting(c)' => pc'[c] = pc[c] /\ leg'[c] = leg[c]
      /\ \A c \in Commands \ {t} : pc[c] = "out" => pc'[c] = "out"
      /\ \A w \in Watchdogs \ {t} : Supervising(w)' => Supervising(w)
      /\ Supervisor # t => pc'[Supervisor] = pc[Supervisor]
      /\ t # Supervisor => (Reachable' <=> Reachable)
  BY <1>2, OthersStay
<1>4. \A w \in Watchdogs : Supervising(w) => rt.monitor = w
  BY DEF Before, PatientInv, MonitorWatches
<1>5. None \notin Watchdogs
  BY TasksAssumption DEF Tasks
<1>6. CASE stage # "out"
  <2>1. /\ pc'[t] = stage /\ rt' = q /\ ses' = ses
        /\ dialog' = IF stage = "hangingUp" THEN NoCall ELSE d
    BY <1>2, <1>6 DEF SuspendedAt
  <2>2. CallsKept
    BY <1>2, <2>1, CallsKeptByTeardown
  <2>3. \A w \in Watchdogs : ~Supervising(w)'
    BY <1>3, <1>4, <1>5, <1>6, <2>1 DEF Supervising
  <2>4. t \notin Lockers => rt'.negotiated # NoCall \/ Dead'
    <3>1. ASSUME t \notin Lockers, rt.negotiated = NoCall PROVE Dead'
      <4>1. Dead
        BY <3>1 DEF Before, PatientInv, TeardownBarsStarts
      <4>2. t # Supervisor
        BY <4>1 DEF Dead, Reachable, Tearing, TeardownStages
      <4>3. t \notin Commands
        BY <3>1 DEF Lockers
      <4>4. QED
        BY <1>3, <4>1, <4>2, <4>3 DEF Dead
    <3>2. QED
      BY <1>6, <2>1, <3>1
  <2>5. t = Reader => dialog' = NoCall
    BY <2>1 DEF Before, PatientInv, ReaderHasNoDialog
  <2>6. t = Supervisor => Reachable
    BY DEF Reachable, Tearing, TeardownStages
  <2>7. t \in Watchdogs /\ pc'[Supervisor] = "out" => ~Live(ses')
    <3>1. t \in Watchdogs => t # Supervisor
      BY TasksAssumption
    <3>2. QED
      BY <1>3, <2>1, <3>1 DEF Before, PatientInv, FailureIsShown
  <2>8. \A c \in Commands : ~Starting(c)'
    <3>1. ~Starting(t)'
      BY <1>6, <2>1 DEF Starting
    <3>2. \A c \in Commands : ~Starting(c)
      BY <1>6, StartsDuringTeardown
    <3>3. QED
      BY <1>3, <3>1, <3>2 DEF Starting
  <2>9. dialog' # NoCall => rt'.negotiated = dialog'
    <3>1. dialog # NoCall => rt.negotiated = dialog
      <4>1. \A c \in Commands : pc[c] # "acknowledging"
        BY StartsDuringTeardown DEF Starting
      <4>2. QED
        BY <4>1 DEF Before, PatientInv, DialogIsNegotiated
    <3>2. QED
      BY <1>6, <2>1, <3>1
  <2>10. pc'[t] \in TeardownStages
    BY <1>6, <2>1 DEF TeardownStages
  <2>11. QED
    BY <1>2, <1>6, <2>1, <2>2, <2>3, <2>4, <2>5, <2>6, <2>7, <2>8, <2>9, <2>10,
       SuspendKeeps
<1>7. CASE stage = "out"
  <2>1. Left(t, job[t], q, Ended(ses), d)
    BY <1>2, <1>7
  <2>2. /\ rt'.process = q.process /\ rt'.negotiated = q.negotiated
        /\ rt'.monitor = q.monitor /\ rt'.audio = q.audio
        /\ rt'.ending => q.ending
        /\ rt'.sending => q.sending
        /\ pc'[t] \in {"out", "preparing", "sipBye", "closing"}
    BY <1>1, <2>1, ReturnedRuntime DEF Left
  <2>3. t = Supervisor => pc'[t] \in {"sipBye", "closing"}
    BY <1>1, <2>1, SupervisorReturns DEF Left
  <2>4. CallsKept
    BY <1>2, <2>2, CallsKeptByTeardown
  <2>5. dialog' = NoCall
    BY <1>7, <2>1 DEF Left
  <2>6. \/ rt'.process = NoCall /\ rt'.monitor = None /\ \A w \in Watchdogs : ~Supervising(w)'
        \/ t = Supervisor /\ rt'.process = rt.process /\ rt'.monitor = rt.monitor
    <3>1. rt.monitor = None => \A w \in Watchdogs : ~Supervising(w)'
      BY <1>3, <1>4, <1>5, <2>2 DEF Supervising
    <3>2. QED
      BY <2>2, <3>1
  <2>7. \A c \in Commands \ {t} : Starting(c)' =>
          t = Supervisor /\ pc[c] # "acknowledging"
    BY <1>3, StartsDuringTeardown DEF Starting
  <2>8. QED
    BY <1>2, <1>7, <2>2, <2>3, <2>4, <2>5, <2>6, <2>7, FinishKeeps
<1>8. QED
  BY <1>6, <1>7

LEMMA HelpersGoneKeepsPatient ==
  ASSUME Before, After, NEW t \in Tasks, HelpersGone(t) PROVE PatientInv'
<1> DEFINE stage == StageAfterHelpers(rt, t, HasPeer(dialog))
           q == AfterHelpers(rt, stage)
           d == Kept(t, stage, dialog)
<1>1. /\ pc[t] = "cancelling" /\ UNCHANGED outsideVars
      /\ TeardownStops(t, job[t], stage, q, ses, d, pc)
  BY DEF HelpersGone
<1>2. /\ Tearing(t) /\ rt \in RuntimeStates /\ rt.ending /\ rt.monitor = None
      /\ (rt.sending => rt.audio)
      /\ (t = Reader => dialog = NoCall)
  BY <1>1 DEF Tearing, TeardownStages, Before, IInv, TypeOK, PatientInv,
     TeardownExclusive, TeardownInOrder, SendingNeedsAudio, ReaderHasNoDialog
<1>3. q \in RuntimeStates /\ stage \in {"terminating", "hangingUp", "out"}
  BY <1>2, TeardownTypes DEF StageAfterHelpers, StageAfterProcess
<1>4. d \in {dialog, NoCall} /\ (stage = "out" => d = NoCall)
  BY <1>2 DEF Kept, SendsBye
<1>5. /\ q.process = NoCall /\ q.monitor = rt.monitor
      /\ q.audio <=> (rt.audio /\ stage = "terminating")
      /\ q.sending <=> (rt.sending /\ stage = "terminating")
      /\ q.ending <=> (rt.ending /\ stage # "out")
      /\ q.negotiated = IF stage = "out" THEN NoCall ELSE rt.negotiated
  BY <1>2, HelpersGoneLeave
<1> HIDE DEF stage, q, d
<1>6. /\ q.process = NoCall /\ q.monitor = rt.monitor
      /\ q.negotiated = IF stage = "out" THEN NoCall ELSE rt.negotiated
      /\ q.ending <=> stage # "out"
      /\ stage \in {"hangingUp", "out"} => ~q.audio /\ ~q.sending
      /\ q.sending => q.audio /\ rt.sending
  BY <1>2, <1>5
<1>7. placed' = placed /\ byes' = byes /\ phone' = phone
  BY <1>1 DEF outsideVars
<1>8. QED
  BY <1>1, <1>2, <1>3, <1>4, <1>6, <1>7, ResumeKeepsPatient

LEMMA ProcessGoneKeepsPatient ==
  ASSUME Before, After, NEW t \in Tasks, ProcessGone(t) PROVE PatientInv'
<1> DEFINE stage == StageAfterProcess(t, HasPeer(dialog))
           q == AfterProcess(rt, stage)
           d == Kept(t, stage, dialog)
<1>1. /\ pc[t] = "terminating" /\ UNCHANGED outsideVars
      /\ TeardownStops(t, job[t], stage, q, ses, d, pc)
  BY DEF ProcessGone
<1>2. /\ Tearing(t) /\ rt \in RuntimeStates /\ rt.ending /\ rt.monitor = None
      /\ rt.process = NoCall /\ (t = Reader => dialog = NoCall)
  BY <1>1 DEF Tearing, TeardownStages, Before, IInv, TypeOK, PatientInv,
     TeardownExclusive, TeardownInOrder, ReaderHasNoDialog
<1>3. q \in RuntimeStates /\ stage \in {"terminating", "hangingUp", "out"}
  BY <1>2, TeardownTypes DEF StageAfterProcess
<1>4. d \in {dialog, NoCall} /\ (stage = "out" => d = NoCall)
  BY <1>2 DEF Kept, SendsBye
<1>5. /\ q.process = rt.process /\ q.monitor = rt.monitor
      /\ ~q.audio /\ ~q.sending
      /\ q.ending <=> (rt.ending /\ stage # "out")
      /\ q.negotiated = IF stage = "out" THEN NoCall ELSE rt.negotiated
  BY <1>2, ProcessGoneLeaves
<1> HIDE DEF stage, q, d
<1>6. QED
  BY <1>1, <1>2, <1>3, <1>4, <1>5, ResumeKeepsPatient DEF outsideVars

LEMMA ByeReturnsKeepsPatient ==
  ASSUME Before, After, NEW t \in Tasks, ByeAnswered(t) \/ ByeUnanswered(t)
  PROVE  PatientInv'
<1> DEFINE q == Forgotten(rt)
<1>1. /\ pc[t] = "hangingUp"
      /\ TeardownStops(t, job[t], "out", q, ses, dialog, pc)
      /\ UNCHANGED <<placed, byes>>
      /\ phone' \in {phone, [phone EXCEPT ![leg[t]] = "down"]}
  BY DEF ByeAnswered, ByeUnanswered, ByeReturns
<1>2. /\ Tearing(t) /\ rt \in RuntimeStates /\ dialog = NoCall
      /\ ~rt.audio /\ ~rt.sending
      /\ (rt.process = NoCall \/ t = Supervisor)
  BY <1>1 DEF Tearing, TeardownStages, Before, IInv, TypeOK, PatientInv,
     TeardownInOrder, SendingNeedsAudio
<1>3. rt.process = NoCall => rt.monitor = None
  BY DEF Before, PatientInv, MonitorWatches
<1>4. \A n \in Calls : phone'[n] \in {phone[n], "down"}
  BY <1>1 DEF Before, IInv, TypeOK
<1>5. /\ q \in RuntimeStates /\ q.process = rt.process /\ q.monitor = rt.monitor
      /\ ~q.audio /\ ~q.sending /\ ~q.ending /\ q.negotiated = NoCall
  BY <1>2, RuntimeTypes DEF Forgotten, RuntimeStates
<1> HIDE DEF q
<1>6. QED
  BY <1>1, <1>2, <1>3, <1>4, <1>5, ResumeKeepsPatient

-----------------------------------------------------------------------------
(* Teardowns that begin, and those that are declined.                       *)

\* What t must be about when it calls _teardown with runtime r and dialog d.
CallsTeardown(t, r, d, s) ==
  /\ t \in Lockers => \A c \in Commands \ {t} : ~Starting(c)
  /\ t \notin Lockers => r = rt
  /\ t \in Watchdogs =>
       /\ Supervising(t)
       /\ pc[Supervisor] = "out" => ~Live(s)
       /\ rt.negotiated # NoCall \/ Dead
  /\ t = Reader => d = NoCall /\ dialog \in byes /\ dialog # NoCall
  /\ t = Supervisor => /\ pc[t] = "out" /\ d = dialog
                       /\ \A c \in Commands : pc[c] # "acknowledging"

\* r is the runtime with its flags, its socket or its answer changed.
SameMedia(r) ==
  /\ r.process = rt.process /\ r.exited = rt.exited
  /\ r.monitor = rt.monitor /\ r.ending = rt.ending

\* While t does this, nobody else is in a start, unless t is the supervisor.
LEMMA StartsDuringCall ==
  ASSUME Before, NEW t \in Tasks, NEW r, NEW d, NEW s, CallsTeardown(t, r, d, s),
         ~rt.ending, NEW c \in Commands \ {t}, Starting(c)
  PROVE  /\ t = Supervisor /\ rt.process = NoCall /\ rt.monitor = None
         /\ pc[c] # "acknowledging"
         /\ pc[c] \in {"preparing", "inviting"} => dialog = NoCall
         /\ pc[c] = "spawning" => rt.negotiated = leg[c]
<1>1. t \notin Lockers
  BY DEF CallsTeardown
<1>2. rt.process = NoCall /\ rt.monitor = None
  BY DEF Before, PatientInv, UnansweredStartIsAlone, AcknowledgingStartHasDialog,
     AnsweredStartHasCall, Starting
<1>3. t \notin Watchdogs
  BY <1>2, TasksAssumption
     DEF CallsTeardown, Before, PatientInv, MonitorWatches, Tasks
<1>4. t # Reader
  <2>1. CASE pc[c] \in {"preparing", "inviting"}
    BY <2>1 DEF CallsTeardown, Before, PatientInv, UnansweredStartIsAlone
  <2>2. CASE pc[c] = "spawning"
    BY <2>2 DEF CallsTeardown, Before, PatientInv, AnsweredStartHasCall,
       StartedCallIsAlive, CallOfSpawning
  <2>3. CASE pc[c] = "acknowledging"
    BY <2>3 DEF CallsTeardown, Before, PatientInv, AcknowledgingStartHasDialog,
       StartedCallIsAlive
  <2>4. QED
    BY <2>1, <2>2, <2>3 DEF Starting
<1>5. t = Supervisor
  BY <1>1, <1>3, <1>4 DEF Tasks, Lockers
<1>6. Reachable
  BY <1>5 DEF CallsTeardown, Reachable
<1>7. /\ pc[c] \in {"preparing", "inviting"} => dialog = NoCall
      /\ pc[c] = "spawning" => rt.negotiated = leg[c]
  BY <1>6 DEF Before, PatientInv, UnansweredStartIsAlone, AnsweredStartHasCall,
     CallOfSpawning
<1>8. pc[c] # "acknowledging"
  BY <1>5 DEF CallsTeardown
<1>9. QED
  BY <1>2, <1>5, <1>7, <1>8

LEMMA BeginKeepsPatient ==
  ASSUME Before, After, NEW t \in Tasks, ~Tearing(t), ~rt.ending,
         NEW j \in Jobs, JobFits(t, j), NEW r \in RuntimeStates,
         NEW s \in SessionStates, NEW d \in CallOrNone,
         NEW pcs \in {pc, TimerCancelled(pc)},
         Teardown(t, j, r, s, d, pcs),
         placed' = placed, byes' \subseteq byes,
         \A n \in Calls : phone'[n] \in {phone[n], "down"},
         CallsTeardown(t, r, d, s), SameMedia(r),
         \/ r.negotiated = rt.negotiated /\ d \in {dialog, NoCall}
         \/ t \in Commands /\ Starting(t)
  PROVE  PatientInv'
<1> DEFINE stage == StageOfTeardown(r, t, HasPeer(d))
           q == TornDown(r, stage)
           m == CancelledBy(t, r)
<1>1. /\ TypeOK /\ ~r.ending /\ stage \in TeardownStages \cup {"out"}
      /\ q \in RuntimeStates /\ m \in Watchdogs \cup {None}
  BY StagesOfTeardown, TeardownTypes
     DEF Before, IInv, SameMedia, CancelledBy, RuntimeStates
<1>2. /\ OthersShed(t, m)
      /\ IF stage = "out"
         THEN Left(t, j, q, Ended(s), Kept(t, stage, d))
         ELSE SuspendedAt(t, j, stage, q, s, d)
  BY <1>1, TeardownExactly
<1>3. /\ q.monitor = None /\ ~q.sending
      /\ q.ending <=> (stage # "out")
      /\ q.negotiated = IF stage = "out" THEN NoCall ELSE r.negotiated
      /\ q.process = IF stage = "cancelling" THEN r.process ELSE NoCall
      /\ stage \in {"hangingUp", "out"} => ~q.audio
  BY <1>1, TornDownLeaves
<1>4. /\ \A c \in Commands \ {t} : Starting(c)' => pc'[c] = pc[c] /\ leg'[c] = leg[c]
      /\ \A c \in Commands \ {t} : pc[c] = "out" => pc'[c] = "out"
      /\ \A w \in Watchdogs \ {t} : Supervising(w)' => Supervising(w) /\ w # m
      /\ Supervisor # t => pc'[Supervisor] = pc[Supervisor]
      /\ t # Supervisor => (Reachable' <=> Reachable)
  BY <1>1, <1>2, OthersStay
<1>5. \A w \in Watchdogs \ {t} : ~Supervising(w)'
  <2>1. \A w \in Watchdogs : Supervising(w) => r.monitor = w
    BY DEF Before, PatientInv, MonitorWatches, SameMedia
  <2>2. QED
    BY <1>4, <2>1 DEF CancelledBy, CallsTeardown
<1>6. t \in Commands /\ Starting(t) => rt.process = NoCall /\ rt.monitor = None
  BY DEF Before, PatientInv, UnansweredStartIsAlone, AcknowledgingStartHasDialog,
     AnsweredStartHasCall, Starting
<1>7. (t \notin Commands \/ ~Starting(t)) /\ dialog # NoCall => rt.negotiated = dialog
  <2> SUFFICES ASSUME t \notin Commands \/ ~Starting(t), NEW c \in Commands,
                      pc[c] = "acknowledging"
               PROVE  FALSE
    BY DEF Before, PatientInv, DialogIsNegotiated
  <2>1. c # t /\ Starting(c)
    BY DEF Starting
  <2>2. QED
    BY <2>1, StartsDuringCall
<1>8. CASE stage # "out"
  <2>1. /\ pc'[t] = stage /\ rt' = q /\ ses' = s
        /\ dialog' = IF stage = "hangingUp" THEN NoCall ELSE d
        /\ stage \in TeardownStages
    BY <1>2, <1>8 DEF SuspendedAt
  <2>2. CallsKept
    BY <1>1, <1>2, <2>1, CallsKeptByTeardown DEF TeardownStages
  <2>3. \A w \in Watchdogs : ~Supervising(w)'
    BY <1>5, <2>1 DEF Supervising, TeardownStages
  <2>4. t \in Commands /\ Starting(t) => stage = "hangingUp"
    BY <1>1, <1>6, <1>8
       DEF StageOfTeardown, StageAfterHelpers, StageAfterProcess, SameMedia
  <2>5. t \notin Lockers => rt'.negotiated # NoCall \/ Dead'
    <3>1. ASSUME t \in Watchdogs PROVE rt.negotiated # NoCall \/ Dead'
      <4>1. t \notin Commands /\ t # Supervisor
        BY <3>1, TasksAssumption
      <4>2. Dead => Dead'
        BY <1>4, <4>1 DEF Dead
      <4>3. QED
        BY <3>1, <4>2 DEF CallsTeardown
    <3>2. ASSUME t = Reader PROVE rt.negotiated # NoCall
      <4>1. t \notin Commands /\ dialog # NoCall
        BY <3>2, TasksAssumption DEF CallsTeardown, Lockers, Tasks
      <4>2. QED
        BY <1>7, <4>1
    <3>3. ASSUME t = Supervisor, r = rt PROVE rt.negotiated # NoCall
      <4>1. Reachable /\ d = dialog
        BY <3>3 DEF CallsTeardown, Reachable
      <4>2. rt.process # NoCall \/ rt.monitor # None \/ dialog # NoCall
        BY <1>1, <1>8, <3>3, <4>1
           DEF StageOfTeardown, StageAfterHelpers, StageAfterProcess, HasPeer
      <4>3. dialog # NoCall => rt.negotiated = dialog
        BY <1>7, <3>3, TasksAssumption
      <4>4. QED
        BY <4>1, <4>2, <4>3 DEF Before, PatientInv, MonitorWatches, OrphanIsUnreachable
    <3>4. ASSUME t \notin Lockers PROVE r = rt /\ t \in Watchdogs \cup {Reader, Supervisor}
      BY <3>4 DEF CallsTeardown, Tasks, Lockers
    <3>5. QED
      BY <1>3, <1>8, <2>1, <3>1, <3>2, <3>3, <3>4
  <2>6. t = Reader => dialog' = NoCall
    BY <2>1 DEF CallsTeardown
  <2>7. t = Supervisor => Reachable
    BY DEF CallsTeardown, Reachable
  <2>8. t \in Watchdogs /\ pc'[Supervisor] = "out" => ~Live(ses')
    <3>1. t \in Watchdogs => t # Supervisor
      BY TasksAssumption
    <3>2. QED
      BY <1>4, <2>1, <3>1 DEF CallsTeardown
  <2>9. \A c \in Commands : Starting(c)' =>
          /\ t = Supervisor /\ pc'[t] = "hangingUp"
          /\ pc[c] = "spawning" /\ rt'.negotiated = leg[c]
    <3> SUFFICES ASSUME NEW c \in Commands, Starting(c)'
                 PROVE  /\ t = Supervisor /\ pc'[t] = "hangingUp"
                        /\ pc[c] = "spawning" /\ rt'.negotiated = leg[c]
      OBVIOUS
    <3>1. c # t
      BY <2>1 DEF Starting, TeardownStages
    <3>2. Starting(c)
      BY <1>4, <3>1 DEF Starting
    <3>3. /\ t = Supervisor /\ rt.process = NoCall /\ rt.monitor = None
          /\ pc[c] # "acknowledging"
          /\ pc[c] \in {"preparing", "inviting"} => dialog = NoCall
          /\ pc[c] = "spawning" => rt.negotiated = leg[c]
      BY <3>1, <3>2, StartsDuringCall
    <3>4. d = dialog /\ r = rt
      BY <3>3, TasksAssumption DEF CallsTeardown, Lockers
    <3>5. stage = "hangingUp" /\ dialog # NoCall
      BY <1>1, <1>8, <3>3, <3>4
         DEF StageOfTeardown, StageAfterHelpers, StageAfterProcess, HasPeer
    <3>6. QED
      BY <1>3, <2>1, <3>2, <3>3, <3>4, <3>5 DEF Starting
  <2>10. rt'.process # NoCall =>
           rt'.process = rt.process /\ rt'.negotiated = rt.negotiated
    BY <1>3, <1>6, <1>8, <2>1 DEF SameMedia
  <2>11. dialog' # NoCall => rt'.negotiated = dialog'
    <3>1. ASSUME t \in Commands, Starting(t) PROVE dialog' = NoCall
      BY <2>1, <2>4, <3>1
    <3>2. CASE r.negotiated = rt.negotiated /\ d \in {dialog, NoCall}
      BY <1>3, <1>8, <1>7, <2>1, <3>1, <3>2
    <3>3. QED
      BY <3>1, <3>2
  <2>12. rt'.ending /\ rt'.monitor = None /\ ~rt'.sending
    BY <1>3, <1>8, <2>1
  <2>13. /\ pc'[t] \in {"terminating", "hangingUp"} => rt'.process = NoCall
         /\ pc'[t] = "hangingUp" => ~rt'.audio /\ dialog' = NoCall
    BY <1>3, <2>1
  <2>14. QED
    BY <1>1, <1>2, <2>1, <2>2, <2>3, <2>5, <2>6, <2>7, <2>8, <2>9, <2>10, <2>11,
       <2>12, <2>13, SuspendKeeps
<1>9. CASE stage = "out"
  <2> DEFINE k == Kept(t, stage, d)
  <2>1. Left(t, j, q, Ended(s), k)
    BY <1>2, <1>9
  <2>2. k = NoCall
    BY <1>9 DEF Kept, SendsBye, CallsTeardown
  <2> HIDE DEF q, k
  <2>3. /\ rt'.process = q.process /\ rt'.negotiated = q.negotiated
        /\ rt'.monitor = q.monitor /\ rt'.audio = q.audio
        /\ rt'.ending => q.ending
        /\ rt'.sending => q.sending
        /\ pc'[t] \in {"out", "preparing", "sipBye", "closing"}
    BY <1>1, <2>1, ReturnedRuntime DEF Left
  <2>4. t = Supervisor => pc'[t] \in {"sipBye", "closing"}
    BY <2>1, SupervisorReturns DEF Left
  <2>5. CallsKept
    BY <1>1, <1>2, <2>3, CallsKeptByTeardown
  <2>6. dialog' = NoCall
    BY <2>1, <2>2 DEF Left
  <2>7. rt'.process = NoCall /\ rt'.monitor = None /\ \A w \in Watchdogs : ~Supervising(w)'
    BY <1>3, <1>5, <1>9, <2>3 DEF Supervising
  <2>8. \A c \in Commands \ {t} : Starting(c)' =>
          t = Supervisor /\ pc[c] # "acknowledging"
    <3>1. \A c \in Commands \ {t} : Starting(c)' => Starting(c)
      BY <1>4 DEF Starting
    <3>2. QED
      BY <3>1, StartsDuringCall
  <2>9. QED
    BY <1>1, <1>2, <1>3, <1>9, <2>3, <2>4, <2>5, <2>6, <2>7, <2>8, FinishKeeps
<1>10. QED
  BY <1>8, <1>9

LEMMA DeclinedKeepsPatient ==
  ASSUME Before, After, NEW t \in Tasks, ~Tearing(t), rt.ending,
         NEW j \in Jobs, JobFits(t, j), NEW r \in RuntimeStates,
         NEW s \in SessionStates, NEW d \in {dialog, NoCall},
         NEW pcs \in {pc, TimerCancelled(pc)},
         Teardown(t, j, r, s, d, pcs),
         placed' = placed, byes' \subseteq byes,
         \A n \in Calls : phone'[n] \in {phone[n], "down"},
         SameCall(rt, r),
         r.sending => s.microphone /\ j = "none",
         Live(s) => Live(ses),
         j \in Devices => r.negotiated # NoCall
  PROVE  PatientInv'
<1> DEFINE m == Muted(r)
<1>1. TypeOK /\ r.ending /\ d \in CallOrNone
  BY NoCallTypes DEF Before, IInv, TypeOK, SameCall
<1>2. OthersShed(t, None) /\ Left(t, j, r, s, d)
  BY <1>1, TeardownExactly
<1>3. /\ m \in RuntimeStates /\ ~m.sending /\ SameCall(rt, m)
      /\ m.process = r.process /\ m.negotiated = r.negotiated
  <2>1. /\ m.process = r.process /\ m.negotiated = r.negotiated
        /\ m.monitor = r.monitor /\ m.audio = r.audio /\ m.ending = r.ending
    BY DEF Muted, WithMicrophone, RuntimeStates
  <2>2. m \in RuntimeStates /\ ~m.sending
    BY RuntimeTypes, MutedIsQuiet DEF Quiet
  <2> HIDE DEF m
  <2>3. QED
    BY <2>1, <2>2 DEF SameCall
<1> HIDE DEF m
<1>4. /\ pc'[t] \in {"out", "sipBye", "closing"}
      /\ rt' \in {r, m}
      /\ rt'.sending => ses'.microphone
      /\ Live(ses') => Live(ses)
  <2>1. CASE j = "start"
    BY <1>2, <2>1, JobsAssumption
       DEF Left, Returned, ReturnedFromStart, StartFailed, Live, SessionStates
  <2>2. CASE j = "end"
    BY <1>2, <2>2, JobsAssumption
       DEF Left, Returned, ReturnedFromEnd, EndFinished, Live, SessionStates
  <2>3. CASE j \in Devices
    <3>1. AlreadyActive(m)
      BY <1>3, <2>3 DEF AlreadyActive
    <3>2. /\ pc'[t] = "out" /\ rt' = m
          /\ ses' = StartFailed(Connecting(EndFinished(s), j))
      BY <1>2, <2>3, <3>1, JobsAssumption DEF Left, Returned, BeganStart, m
    <3>3. EndFinished(s) \in SessionStates /\ Connecting(EndFinished(s), j) \in SessionStates
      BY <2>3, SessionTypes
    <3>4. ses'.state = "error"
      BY <3>2, <3>3 DEF StartFailed, SessionStates
    <3>5. QED
      BY <1>3, <3>2, <3>4 DEF Live
  <2>4. CASE j = "none"
    BY <1>2, <2>4, JobsAssumption DEF Left, Returned, ReturnedToCaller
  <2>5. QED
    BY <2>1, <2>2, <2>3, <2>4 DEF Jobs
<1>5. SameCall(rt, rt')
  BY <1>3, <1>4
<1>6. t = Supervisor => pc'[t] \in {"sipBye", "closing"}
  BY <1>2, SupervisorReturns DEF Left
<1>7. CallsKept
  BY <1>2, <1>4, CallsKeptByTeardown
<1>8. dialog' \in {dialog, NoCall}
  BY <1>2 DEF Left
<1>9. QED
  BY <1>2, <1>4, <1>5, <1>6, <1>7, <1>8, DeclineKeeps

-----------------------------------------------------------------------------
(* Who calls _teardown.                                                     *)

\* A start holds the lock, so no other start is under way and nothing is sent.
LEMMA StartHoldsLock ==
  ASSUME Before, NEW c \in Commands, Starting(c)
  PROVE  /\ ~LockFree /\ Quiet(rt) /\ ~Tearing(c)
         /\ \A u \in Commands \ {c} : ~Starting(u)
<1>1. \A u \in Commands : Starting(u) => u \in Lockers /\ LockHeld(u)
  BY DEF Starting, Lockers, LockHeld, Unlocked
<1>2. \A u \in Commands \ {c} : ~Starting(u)
  BY <1>1 DEF Before, IInv, LockInv, LockExclusive
<1>3. ~LockFree /\ ~Tearing(c)
  BY DEF LockFree, Starting, Unlocked, Tearing, TeardownStages
<1>4. Quiet(rt)
  BY <1>3 DEF Before, IInv, LockInv, MutedUnderLock
<1>5. QED
  BY <1>2, <1>3, <1>4

LEMMA StartFailsKeepsPatient ==
  ASSUME Before, After, NEW c \in Commands, Starting(c),
         NEW r \in RuntimeStates, NEW d \in CallOrNone,
         Teardown(c, "start", r, ses, d, pc),
         placed' = placed, byes' \subseteq byes,
         \A n \in Calls : phone'[n] \in {phone[n], "down"},
         SameMedia(r),
         rt.ending => r = rt /\ d = dialog
  PROVE  PatientInv'
<1>1. /\ c \in Tasks /\ c \in Lockers /\ c \notin Watchdogs /\ c \notin Timers
      /\ c # Reader /\ c # Supervisor /\ "start" \in Jobs /\ "start" \notin Devices
      /\ ses \in SessionStates /\ pc \in {pc, TimerCancelled(pc)}
  BY TasksAssumption, JobsAssumption DEF Tasks, Lockers, Jobs, Before, IInv, TypeOK
<1>2. JobFits(c, "start") /\ CallsTeardown(c, r, d, ses)
  BY <1>1, StartHoldsLock DEF JobFits, CallsTeardown
<1>3. ~Tearing(c) /\ ~rt.sending
  BY StartHoldsLock DEF Quiet
<1>4. CASE ~rt.ending
  BY <1>1, <1>2, <1>3, <1>4, BeginKeepsPatient
<1>5. CASE rt.ending
  BY <1>1, <1>2, <1>3, <1>5, DeclinedKeepsPatient DEF SameCall
<1>6. QED
  BY <1>4, <1>5

LEMMA StartStepsKeepPatient ==
  ASSUME Before, After, NEW c \in Commands,
         \/ InviteRefused(c) \/ AckRefused(c) \/ AnswerUnusable(c)
         \/ InviteFails(c) \/ SpawnFails(c)
  PROVE  PatientInv'
<1>1. /\ rt \in RuntimeStates /\ dialog \in CallOrNone /\ leg[c] \in CallOrNone
      /\ phone \in [Calls -> {"none", "ringing", "up", "down"}]
  BY DEF Before, IInv, TypeOK, Tasks
<1>2. CASE InviteRefused(c)
  <2>1. /\ Starting(c) /\ UNCHANGED outsideVars /\ ~rt.ending
        /\ Teardown(c, "start", AudioBound(rt), ses, dialog, pc)
    BY <1>2 DEF InviteRefused, Starting, Before, PatientInv, UnansweredStartIsAlone
  <2>2. AudioBound(rt) \in RuntimeStates /\ SameMedia(AudioBound(rt))
    <3>1. AudioBound(rt) \in RuntimeStates
      BY <1>1, RuntimeTypes
    <3>2. SameMedia(AudioBound(rt))
      BY <1>1 DEF AudioBound, SameMedia, RuntimeStates
    <3>3. QED
      BY <3>1, <3>2
  <2>3. QED
    BY <1>1, <2>1, <2>2, StartFailsKeepsPatient DEF outsideVars
<1>3. CASE AnswerUnusable(c)
  <2>1. PICK r \in {rt, Negotiated(rt, leg[c])} :
          Teardown(c, "start", r, ses, dialog, pc)
    BY <1>3 DEF AnswerUnusable
  <2>2. Starting(c) /\ UNCHANGED outsideVars /\ ~rt.ending
    BY <1>3 DEF AnswerUnusable, Starting, Before, PatientInv, AcknowledgingStartHasDialog
  <2>3. r \in RuntimeStates /\ SameMedia(r)
    <3>1. r \in RuntimeStates
      BY <1>1, RuntimeTypes
    <3>2. SameMedia(r)
      BY <1>1 DEF Negotiated, SameMedia, RuntimeStates
    <3>3. QED
      BY <3>1, <3>2
  <2>4. QED
    BY <1>1, <2>1, <2>2, <2>3, StartFailsKeepsPatient DEF outsideVars
<1>4. CASE InviteFails(c)
  <2>1. /\ Starting(c) /\ placed' = placed /\ byes' = byes
        /\ Teardown(c, "start", rt, ses, dialog, pc)
        /\ phone' \in {phone, [phone EXCEPT ![leg[c]] =
                                 IF @ = "ringing" THEN "down" ELSE @]}
    BY <1>4 DEF InviteFails, Starting
  <2>2. \A n \in Calls : phone'[n] \in {phone[n], "down"}
    BY <1>1, <2>1
  <2>3. QED
    BY <1>1, <2>1, <2>2, StartFailsKeepsPatient DEF SameMedia
<1>5. CASE SpawnFails(c)
  <2>1. /\ Starting(c) /\ UNCHANGED outsideVars
        /\ Teardown(c, "start", rt, ses, dialog, pc)
    BY <1>5 DEF SpawnFails, Starting
  <2>2. QED
    BY <1>1, <2>1, StartFailsKeepsPatient DEF SameMedia, outsideVars
<1>6. CASE AckRefused(c)
  <2>1. /\ Starting(c) /\ UNCHANGED outsideVars /\ ~rt.ending
        /\ Teardown(c, "start", rt, ses, leg[c], pc)
    BY <1>6 DEF AckRefused, Starting, Before, PatientInv, UnansweredStartIsAlone
  <2>2. QED
    BY <1>1, <2>1, StartFailsKeepsPatient DEF SameMedia, outsideVars
<1>7. QED
  BY <1>2, <1>3, <1>4, <1>5, <1>6

\* A command or a timer that gets the lock ends the call, and may go on to
\* start another one.
LEMMA EndBeginsKeepsPatient ==
  ASSUME Before, After, NEW t \in Lockers, LockFree,
         NEW j \in Devices \cup {"end"}, JobFits(t, j),
         j \in Devices => ~Dead,
         Teardown(t, j, Muted(rt), EndBegun(ses), dialog, TimerCancelled(pc)),
         UNCHANGED outsideVars
  PROVE  PatientInv'
<1> DEFINE r == Muted(rt)
           s == EndBegun(ses)
<1>1. /\ t \in Tasks /\ t \notin Watchdogs /\ t # Reader /\ t # Supervisor
      /\ j \in Jobs /\ j # "none" /\ rt \in RuntimeStates /\ ses \in SessionStates
      /\ dialog \in CallOrNone /\ "end" \notin Devices
  BY TasksAssumption, JobsAssumption DEF Tasks, Lockers, Jobs, Before, IInv, TypeOK
<1>2. /\ r.process = rt.process /\ r.negotiated = rt.negotiated
      /\ r.monitor = rt.monitor /\ r.audio = rt.audio /\ r.ending = rt.ending
      /\ r.exited = rt.exited
  BY <1>1 DEF Muted, WithMicrophone, RuntimeStates
<1>3. r \in RuntimeStates /\ ~r.sending /\ s \in SessionStates
  BY <1>1, RuntimeTypes, MutedIsQuiet, SessionTypes DEF Quiet
<1>4. ~Live(s)
  BY <1>1 DEF Live, EndBegun, CleanupCancelled, SessionStates
<1> HIDE DEF r, s
<1>5. ~Tearing(t) /\ \A c \in Commands : ~Starting(c)
  BY DEF LockFree, Lockers, Unlocked, Tearing, TeardownStages, Starting
<1>6. /\ Teardown(t, j, r, s, dialog, TimerCancelled(pc))
      /\ placed' = placed /\ byes' = byes /\ phone' = phone
  BY DEF outsideVars, r, s
<1>7. CASE ~rt.ending
  <2>1. CallsTeardown(t, r, dialog, s) /\ SameMedia(r)
    BY <1>1, <1>2, <1>5 DEF CallsTeardown, SameMedia
  <2>2. QED
    BY <1>1, <1>2, <1>3, <1>5, <1>6, <1>7, <2>1, BeginKeepsPatient
<1>8. CASE rt.ending
  <2>1. PICK u \in Tasks : Tearing(u)
    BY <1>8 DEF Before, PatientInv, TeardownExclusive
  <2>2. u \notin Lockers
    BY <2>1 DEF LockFree, Lockers, Unlocked, Tearing, TeardownStages
  <2>3. j \in Devices => r.negotiated # NoCall
    BY <1>2, <2>1, <2>2 DEF Before, PatientInv, TeardownBarsStarts
  <2>4. SameCall(rt, r)
    BY <1>2, <1>3 DEF SameCall
  <2>5. QED
    BY <1>1, <1>3, <1>4, <1>5, <1>6, <1>8, <2>3, <2>4, DeclinedKeepsPatient
<1>9. QED
  BY <1>7, <1>8

-----------------------------------------------------------------------------
(* Steps that leave the teardown, FFmpeg and the dialog alone.              *)

MediaKept ==
  /\ rt'.process = rt.process /\ rt'.negotiated = rt.negotiated
  /\ rt'.monitor = rt.monitor /\ rt'.ending = rt.ending /\ rt'.audio = rt.audio
  /\ dialog' = dialog

\* no task enters or leaves a teardown or begins to supervise, no start gets
\* any further, and the supervisor is where it was or beyond dropping the session
TasksKept ==
  /\ \A x \in Tasks : pc'[x] = pc[x] \/ (~Tearing(x) /\ ~Tearing(x)')
  /\ \A w \in Watchdogs : Supervising(w)' => Supervising(w)
  /\ \A c \in Commands : "acknowledging" \in {pc[c], pc'[c]} \/ pc'[c] = "spawning" =>
       pc'[c] = pc[c] /\ leg'[c] = leg[c]
  /\ pc'[Supervisor] = pc[Supervisor] \/ (~Reachable /\ ~Reachable')
  /\ Dead => Dead'

LEMMA KeptKeepsPatient ==
  ASSUME Before, MediaKept, TasksKept,
         UnplacedIsSilent', StartedCallIsAlive',
         \A c \in Commands : pc'[c] \in {"preparing", "inviting"} =>
           \/ pc[c] \in {"preparing", "inviting"}
           \/ /\ rt.process = NoCall /\ rt.negotiated = NoCall /\ rt.monitor = None
              /\ ~rt.ending /\ dialog = NoCall,
         rt'.sending => rt'.audio /\ ses'.microphone,
         Live(ses') => \/ Live(ses)
                       \/ \A w \in Watchdogs : ~Tearing(w)
  PROVE  PatientInv'
<1> USE DEF Before
<1>1. \A x \in Tasks : Tearing(x)' <=> Tearing(x)
  BY DEF TasksKept, Tearing
<1>2. \A x \in Tasks : Tearing(x)' => pc'[x] = pc[x]
  BY DEF TasksKept
<1>3. ~Reachable => ~Reachable'
  BY DEF TasksKept, Reachable
<1>4. Supervisor \in Tasks /\ Reader \in Tasks /\ Watchdogs \subseteq Tasks
  BY DEF Tasks
<1>5. pc[Supervisor] = "hangingUp" => pc'[Supervisor] = "hangingUp"
  BY DEF TasksKept, Reachable
<1>6. pc'[Supervisor] = "out" => pc[Supervisor] = "out"
  BY DEF TasksKept, Reachable
<1>7. UnansweredStartIsAlone'
  BY DEF PatientInv, UnansweredStartIsAlone, MediaKept
<1>8. AcknowledgingStartHasDialog'
  BY DEF PatientInv, AcknowledgingStartHasDialog, MediaKept, TasksKept
<1>9. AnsweredStartHasCall'
  <2> SUFFICES ASSUME NEW c \in Commands, pc'[c] = "spawning"
               PROVE  rt'.process = NoCall /\ rt'.monitor = None /\ CallOfSpawning(leg[c])'
    BY DEF AnsweredStartHasCall
  <2>1. pc[c] = "spawning" /\ leg'[c] = leg[c]
    BY DEF TasksKept
  <2>2. rt.process = NoCall /\ rt.monitor = None /\ CallOfSpawning(leg[c])
    BY <2>1 DEF PatientInv, AnsweredStartHasCall
  <2>3. QED
    BY <1>3, <1>5, <2>1, <2>2 DEF MediaKept, CallOfSpawning
<1>10. TeardownExclusive'
  BY <1>1 DEF PatientInv, TeardownExclusive, MediaKept
<1>11. TeardownBarsStarts'
  BY <1>1 DEF PatientInv, TeardownBarsStarts, MediaKept, TasksKept
<1>12. TeardownInOrder'
  BY <1>2 DEF PatientInv, TeardownInOrder, MediaKept, Tearing, TeardownStages
<1>13. MonitorWatches'
  BY <1>5 DEF PatientInv, MonitorWatches, MediaKept, TasksKept
<1>14. OrphanIsUnreachable'
  BY <1>3 DEF PatientInv, OrphanIsUnreachable, MediaKept
<1>15. ReaderHasNoDialog' /\ DialogIsNegotiated'
  BY <1>1, <1>4
     DEF PatientInv, ReaderHasNoDialog, DialogIsNegotiated, MediaKept, TasksKept
<1>16. NoSilentMicrophone' /\ SendingNeedsAudio'
  BY DEF NoSilentMicrophone, SendingNeedsAudio
<1>17. FailureIsShown'
  BY <1>1, <1>4, <1>6 DEF PatientInv, FailureIsShown
<1>18. QED
  BY <1>7, <1>8, <1>9, <1>10, <1>11, <1>12, <1>13, <1>14, <1>15, <1>16, <1>17
     DEF PatientInv

\* The runtime's record is untouched.
LEMMA RuntimeUntouched ==
  ASSUME Before, UNCHANGED <<rt, dialog>>, ses'.microphone = ses.microphone
  PROVE  MediaKept /\ (rt'.sending => rt'.audio /\ ses'.microphone)
BY DEF Before, PatientInv, MediaKept, NoSilentMicrophone, SendingNeedsAudio

\* No task is anywhere else.
LEMMA PlacesUntouched ==
  ASSUME UNCHANGED <<pc, leg>> PROVE TasksKept
BY DEF TasksKept, Dead, Reachable, Supervising, Tearing

\* A task that is in no teardown and no supervisor steps aside: it waits for
\* the lock, is armed, or is done.
LEMMA StepsAside ==
  ASSUME Before, NEW t \in Lockers, ~Tearing(t),
         \A x \in Tasks \ {t} : \/ pc'[x] = pc[x] /\ (pc'[x] # "out" => leg'[x] = leg[x])
                                \/ pc[x] = "armed" /\ pc'[x] = "out",
         pc'[t] \in {"out", "queued", "armed", "fired", "preparing"},
         pc[t] # "acknowledging", t \in Commands /\ pc'[t] # "out" => ~Dead,
         placed' = placed, byes' = byes, phone' = phone
  PROVE  TasksKept /\ UnplacedIsSilent' /\ StartedCallIsAlive'
<1>1. /\ t \in Tasks /\ t \notin Watchdogs /\ t # Supervisor
      /\ Supervisor \in Tasks /\ Commands \subseteq Tasks /\ Watchdogs \subseteq Tasks
      /\ Supervisor \notin Timers /\ Commands \cap Timers = {}
  BY TasksAssumption DEF Tasks, Lockers
<1>2. \A x \in Tasks : Fits(x, pc[x], job[x])
  BY DEF Before, KindInv
<1>3. \A x \in Tasks : pc'[x] = pc[x] \/ (~Tearing(x) /\ ~Tearing(x)')
  BY DEF Tearing, TeardownStages
<1>4. \A w \in Watchdogs : Supervising(w)' => Supervising(w)
  BY <1>1 DEF Supervising
<1>5. \A c \in Commands \ {t} : pc'[c] = pc[c] /\ (pc'[c] # "out" => leg'[c] = leg[c])
  BY <1>1, <1>2 DEF Fits
<1>6. pc'[Supervisor] = pc[Supervisor]
  BY <1>1, <1>2 DEF Fits
<1>7. Dead => Dead'
  BY <1>1, <1>5, <1>6 DEF Dead, Reachable
<1>8. TasksKept
  BY <1>3, <1>4, <1>5, <1>6, <1>7 DEF TasksKept
<1>9. CallsKept
  BY <1>5 DEF CallsKept
<1>10. QED
  BY <1>8, <1>9, CallsKeptKeeps DEF Before

-----------------------------------------------------------------------------
(* The user's commands and the timers.                                      *)

LEMMA StartKeepsPatient ==
  ASSUME Before, NEW c \in Commands, NEW d \in Devices, Start(c, d)
  PROVE  PatientInv'
<1> DEFINE o == Started(rt, ses, d)
           m == Muted(rt)
           s == Connecting(ses, d)
<1>1. /\ Admitted(c) /\ LockFree /\ UNCHANGED outsideVars
      /\ Stops(c, "start", o, dialog, pc)
  BY DEF Start, Admitted
<1>2. /\ TypeOK /\ c \in Tasks /\ c \in Lockers /\ rt \in RuntimeStates
      /\ ses \in SessionStates /\ dialog \in CallOrNone /\ pc \in [Tasks -> Stages]
      /\ "start" \in Jobs
  BY DEF Before, IInv, TypeOK, Tasks, Lockers, Jobs
<1>3. o \in Outcomes
  BY <1>2, StartedIsOutcome
<1>4. /\ ~Dead /\ ~Tearing(c) /\ \A u \in Lockers : ~Tearing(u)
      /\ \A u \in Commands : pc[u] # "acknowledging"
  BY <1>1 DEF Admitted, Dead, LockFree, Lockers, Unlocked, Tearing, TeardownStages
<1>5. /\ m \in RuntimeStates /\ ~m.sending
      /\ m.process = rt.process /\ m.negotiated = rt.negotiated
      /\ m.monitor = rt.monitor /\ m.audio = rt.audio /\ m.ending = rt.ending
  <2>1. /\ m.process = rt.process /\ m.negotiated = rt.negotiated
        /\ m.monitor = rt.monitor /\ m.audio = rt.audio /\ m.ending = rt.ending
    BY <1>2 DEF Muted, WithMicrophone, RuntimeStates
  <2>2. m \in RuntimeStates /\ ~m.sending
    BY <1>2, RuntimeTypes, MutedIsQuiet DEF Quiet
  <2>3. QED
    BY <2>1, <2>2
<1> HIDE DEF m
<1>6. \/ AlreadyActive(m) /\ o = [rt |-> m, ses |-> StartFailed(s), at |-> "out"]
      \/ ~AlreadyActive(m) /\ o = [rt |-> Preparing(m), ses |-> s, at |-> "preparing"]
  BY DEF Started, m
<1> HIDE DEF o
<1>7. /\ pc'[c] = o.at /\ rt' = o.rt /\ ses' = o.ses
      /\ dialog' = IF o.at \in {"hangingUp", "sipBye"} THEN NoCall ELSE dialog
      /\ \A x \in Tasks \ {c} : /\ job'[x] = job[x] /\ pc'[x] = pc[x]
                                /\ pc'[x] # "out" => leg'[x] = leg[x]
  BY <1>1, <1>2, <1>3, StopsExactly
<1>8. o.at \in {"out", "preparing"}
  BY <1>6
<1>9. TasksKept /\ UnplacedIsSilent' /\ StartedCallIsAlive'
  BY <1>1, <1>2, <1>4, <1>7, <1>8, StepsAside DEF outsideVars
<1>10. \A x \in Commands \ {c} : ~Starting(x) /\ ~Starting(x)'
  BY <1>1, <1>7 DEF LockFree, Unlocked, Starting, Tasks
<1>11. CASE AlreadyActive(m)
  <2>1. rt' = m /\ ses' = StartFailed(s) /\ dialog' = dialog /\ pc'[c] = "out"
    BY <1>6, <1>7, <1>11
  <2>2. MediaKept /\ ~rt'.sending
    BY <1>5, <2>1 DEF MediaKept
  <2>3. ~Live(ses')
    <3>1. s \in SessionStates
      BY <1>2, SessionTypes
    <3>2. QED
      BY <2>1, <3>1 DEF StartFailed, Live, SessionStates
  <2>4. QED
    BY <1>9, <1>10, <2>1, <2>2, <2>3, KeptKeepsPatient DEF Starting
<1>12. CASE ~AlreadyActive(m)
  <2>1. rt' = Preparing(m) /\ dialog' = dialog /\ pc'[c] = "preparing"
    BY <1>6, <1>7, <1>12
  <2>2. rt.process = NoCall /\ rt.negotiated = NoCall
    BY <1>5, <1>12 DEF AlreadyActive
  <2>3. rt.monitor = None /\ dialog = NoCall
    BY <1>4, <2>2 DEF Before, PatientInv, MonitorWatches, DialogIsNegotiated
  <2>4. \A x \in Tasks : ~Tearing(x)
    BY <1>4, <2>2 DEF Before, PatientInv, TeardownBarsStarts
  <2>5. ~rt.ending
    BY <2>4 DEF Before, PatientInv, TeardownExclusive
  <2>6. MediaKept /\ ~rt'.sending
    BY <1>5, <2>1, <2>5 DEF MediaKept, Preparing, RuntimeStates
  <2>7. \A w \in Watchdogs : ~Tearing(w)
    BY <2>4 DEF Tasks
  <2>8. QED
    BY <1>9, <2>2, <2>3, <2>5, <2>6, <2>7, KeptKeepsPatient
<1>13. QED
  BY <1>11, <1>12

LEMMA EndKeepsPatient ==
  ASSUME Before, After, NEW t \in Lockers, LockFree, EndLocked(t),
         UNCHANGED outsideVars
  PROVE  PatientInv'
<1>1. /\ t \in Tasks /\ rt \in RuntimeStates /\ ses \in SessionStates
      /\ dialog \in CallOrNone /\ "end" \in Jobs /\ TypeOK /\ "end" \notin Devices
  BY JobsAssumption DEF Before, IInv, TypeOK, Jobs, Tasks, Lockers
<1>2. CASE ses.state = "idle"
  <2> DEFINE o == [rt |-> rt, ses |-> NothingToEnd(ses), at |-> "out"]
  <2>1. Stops(t, "end", o, dialog, TimerCancelled(pc))
    BY <1>2 DEF EndLocked
  <2>2. o \in Outcomes /\ TimerCancelled(pc) \in [Tasks -> Stages]
    BY <1>1, SessionTypes, TimersShed DEF Outcomes, Stages
  <2> HIDE DEF o
  <2>3. /\ pc'[t] = o.at /\ rt' = o.rt /\ ses' = o.ses
        /\ dialog' = IF o.at \in {"hangingUp", "sipBye"} THEN NoCall ELSE dialog
        /\ \A x \in Tasks \ {t} : /\ job'[x] = job[x] /\ pc'[x] = TimerCancelled(pc)[x]
                                  /\ pc'[x] # "out" => leg'[x] = leg[x]
    BY <1>1, <2>1, <2>2, StopsExactly
  <2>4. pc'[t] = "out" /\ rt' = rt /\ ses' = NothingToEnd(ses) /\ dialog' = dialog
    BY <2>3 DEF o
  <2>5. \A x \in Tasks \ {t} : \/ pc'[x] = pc[x] /\ (pc'[x] # "out" => leg'[x] = leg[x])
                               \/ pc[x] = "armed" /\ pc'[x] = "out"
    BY <1>1, <2>3, TimersOnlyCancelled DEF TimersOnly
  <2>6. ~Tearing(t) /\ pc[t] # "acknowledging"
    BY DEF LockFree, Lockers, Unlocked, Tearing, TeardownStages
  <2>7. TasksKept /\ UnplacedIsSilent' /\ StartedCallIsAlive'
    BY <2>4, <2>5, <2>6, StepsAside DEF outsideVars
  <2>8. ~ses.microphone /\ ~Live(ses')
    BY <1>1, <1>2, <2>4 DEF NothingToEnd, CleanupCancelled, SessionStates, Live,
       Before, IInv, LockInv, MicrophoneOnlyWhileStreaming
  <2>9. MediaKept /\ ~rt'.sending
    BY <2>4, <2>8 DEF MediaKept, Before, PatientInv, NoSilentMicrophone
  <2>10. \A c \in Commands : ~Starting(c)'
    <3>1. \A c \in Commands : ~Starting(c)
      BY DEF LockFree, Unlocked, Starting
    <3>2. QED
      BY <2>4, <2>5, <3>1 DEF Starting, Tasks
  <2>11. QED
    BY <2>7, <2>8, <2>9, <2>10, KeptKeepsPatient DEF Starting
<1>3. CASE ses.state # "idle"
  <2>1. Teardown(t, "end", Muted(rt), EndBegun(ses), dialog, TimerCancelled(pc))
    BY <1>3 DEF EndLocked
  <2>2. JobFits(t, "end")
    BY DEF JobFits
  <2>3. QED
    BY <1>1, <2>1, <2>2, EndBeginsKeepsPatient
<1>4. QED
  BY <1>2, <1>3

LEMMA UserStepKeepsPatient ==
  ASSUME Before, After, NEW c \in Commands, Queues(c) \/ UserStep(c)
  PROVE  PatientInv'
<1>1. c \in Tasks /\ c \in Lockers /\ c \notin Timers /\ pc \in [Tasks -> Stages]
  BY TasksAssumption DEF Tasks, Lockers, Before, IInv, TypeOK
<1>2. ASSUME NEW d \in Devices, StartShared(c, d) PROVE PatientInv'
  <2>1. /\ LockFree /\ pc' = [pc EXCEPT ![c] = "out"]
        /\ UNCHANGED <<rt, ses, dialog, placed, leg, phone, byes>>
    BY <1>2 DEF StartShared, Admitted, sipVars, gatewayVars
  <2>2. /\ ~Tearing(c) /\ pc[c] # "acknowledging"
        /\ \A u \in Commands : ~Starting(u)
    BY <2>1 DEF LockFree, Unlocked, Tearing, TeardownStages, Starting
  <2>3. TasksKept /\ UnplacedIsSilent' /\ StartedCallIsAlive'
    BY <1>1, <2>1, <2>2, StepsAside
  <2>4. \A u \in Commands : ~Starting(u)'
    BY <1>1, <2>1, <2>2 DEF Starting
  <2>5. QED
    BY <2>1, <2>3, <2>4, RuntimeUntouched, KeptKeepsPatient DEF Starting
<1>3. ASSUME NEW d \in Devices, SwitchDevice(c, d) PROVE PatientInv'
  <2>1. /\ LockFree /\ UNCHANGED outsideVars /\ ~Dead
        /\ Teardown(c, d, Muted(rt), EndBegun(ses), dialog, TimerCancelled(pc))
    BY <1>3 DEF SwitchDevice, Admitted, Dead
  <2>2. JobFits(c, d)
    BY <1>1, JobsAssumption DEF JobFits
  <2>3. QED
    BY <1>1, <2>1, <2>2, EndBeginsKeepsPatient
<1>4. ASSUME Queues(c) PROVE PatientInv'
  <2>1. /\ pc[c] = "out" /\ Reachable /\ pc' = [pc EXCEPT ![c] = "queued"]
        /\ UNCHANGED <<rt, ses, dialog, placed, leg, phone, byes>>
    BY <1>4 DEF Queues, sipVars, gatewayVars
  <2>2. ~Tearing(c) /\ ~Dead
    BY <2>1 DEF Tearing, TeardownStages, Dead
  <2>3. TasksKept /\ UnplacedIsSilent' /\ StartedCallIsAlive'
    BY <1>1, <2>1, <2>2, StepsAside
  <2>4. \A u \in Commands : pc'[u] \in {"preparing", "inviting"} => pc'[u] = pc[u]
    BY <1>1, <2>1
  <2>5. QED
    BY <2>1, <2>3, <2>4, RuntimeUntouched, KeptKeepsPatient
<1>5. QED
  BY <1>1, <1>2, <1>3, <1>4, StartKeepsPatient, EndKeepsPatient
     DEF UserStep, End, Admitted

LEMMA PrepareFailsKeepsPatient ==
  ASSUME Before, NEW c \in Commands, PrepareFails(c) PROVE PatientInv'
<1> DEFINE o == [rt |-> rt, ses |-> StartFailed(ses), at |-> "out"]
<1>1. /\ TypeOK /\ c \in Tasks /\ c \in Lockers /\ rt \in RuntimeStates
      /\ ses \in SessionStates /\ dialog \in CallOrNone /\ pc \in [Tasks -> Stages]
      /\ "start" \in Jobs
  BY DEF Before, IInv, TypeOK, Tasks, Lockers, Jobs
<1>2. /\ Starting(c) /\ pc[c] # "acknowledging" /\ UNCHANGED outsideVars
      /\ Stops(c, "start", o, dialog, pc)
  BY DEF PrepareFails, Starting
<1>3. o \in Outcomes
  BY <1>1, SessionTypes DEF Outcomes, Stages
<1> HIDE DEF o
<1>4. /\ pc'[c] = o.at /\ rt' = o.rt /\ ses' = o.ses
      /\ dialog' = IF o.at \in {"hangingUp", "sipBye"} THEN NoCall ELSE dialog
      /\ \A x \in Tasks \ {c} : /\ job'[x] = job[x] /\ pc'[x] = pc[x]
                                /\ pc'[x] # "out" => leg'[x] = leg[x]
  BY <1>1, <1>2, <1>3, StopsExactly
<1>5. pc'[c] = "out" /\ rt' = rt /\ ses' = StartFailed(ses) /\ dialog' = dialog
  BY <1>4 DEF o
<1>6. Quiet(rt) /\ ~Tearing(c)
  BY <1>2, StartHoldsLock
<1>7. TasksKept /\ UnplacedIsSilent' /\ StartedCallIsAlive'
  BY <1>1, <1>2, <1>4, <1>5, <1>6, StepsAside DEF outsideVars
<1>8. MediaKept /\ ~rt'.sending /\ ~Live(ses')
  BY <1>1, <1>5, <1>6 DEF MediaKept, Quiet, StartFailed, Live, SessionStates
<1>9. \A u \in Commands : pc'[u] \in {"preparing", "inviting"} => pc'[u] = pc[u]
  BY <1>4, <1>5 DEF Tasks
<1>10. QED
  BY <1>7, <1>8, <1>9, KeptKeepsPatient

\* A start that has no answer yet, or has just got one, is alone.
LEMMA AloneKeepsPatient ==
  ASSUME Before, NEW c \in Commands, pc[c] \in {"preparing", "inviting", "acknowledging"},
         NEW at \in {"inviting", "acknowledging", "spawning"}, pc' = [pc EXCEPT ![c] = at],
         rt'.process = NoCall, rt'.monitor = None, ~rt'.ending, ~rt'.sending,
         UnplacedIsSilent', leg'[c] \in Calls, leg'[c] \notin byes',
         at = "inviting" => rt'.negotiated = NoCall /\ dialog' = NoCall,
         at = "acknowledging" => rt'.negotiated = NoCall /\ dialog' = leg'[c],
         at = "spawning" => rt'.negotiated = leg'[c] /\ dialog' = leg'[c]
  PROVE  PatientInv'
<1>1. Starting(c) /\ c \in Tasks /\ pc \in [Tasks -> Stages]
  BY DEF Starting, Tasks, Before, IInv, TypeOK
<1>2. rt.monitor = None /\ ~rt.ending
  BY DEF Before, PatientInv, UnansweredStartIsAlone, AcknowledgingStartHasDialog
<1>3. \A u \in Commands \ {c} : ~Starting(u)
  BY <1>1, StartHoldsLock
<1>4. \A u \in Commands : Starting(u)' => u = c
  BY <1>1, <1>3 DEF Starting, Tasks
<1>5. pc'[c] = at
  BY <1>1
<1>6. \A x \in Tasks : ~Tearing(x)'
  <2>1. \A x \in Tasks : ~Tearing(x)
    BY <1>2 DEF Before, PatientInv, TeardownExclusive
  <2>2. QED
    BY <1>1, <2>1 DEF Tearing, TeardownStages
<1>7. \A w \in Watchdogs : ~Supervising(w)'
  <2>1. \A w \in Watchdogs : ~Supervising(w)
    BY <1>2, TasksAssumption DEF Before, PatientInv, MonitorWatches, Tasks
  <2>2. QED
    BY <1>1, <2>1 DEF Supervising, Tasks
<1>8. StartedCallIsAlive'
  BY <1>4 DEF StartedCallIsAlive, Starting
<1>9. UnansweredStartIsAlone'
  BY <1>4, <1>5 DEF UnansweredStartIsAlone, Starting
<1>10. AcknowledgingStartHasDialog' /\ AnsweredStartHasCall'
  BY <1>4, <1>5 DEF AcknowledgingStartHasDialog, AnsweredStartHasCall, Starting, CallOfSpawning
<1>11. /\ TeardownExclusive' /\ TeardownBarsStarts' /\ TeardownInOrder'
       /\ ReaderHasNoDialog' /\ FailureIsShown'
  BY <1>6 DEF TeardownExclusive, TeardownBarsStarts, TeardownInOrder,
     ReaderHasNoDialog, FailureIsShown, Tearing, TeardownStages, Tasks
<1>12. MonitorWatches' /\ OrphanIsUnreachable'
  BY <1>7 DEF MonitorWatches, OrphanIsUnreachable
<1>13. DialogIsNegotiated' /\ NoSilentMicrophone' /\ SendingNeedsAudio'
  BY <1>5 DEF DialogIsNegotiated, NoSilentMicrophone, SendingNeedsAudio
<1>14. QED
  BY <1>8, <1>9, <1>10, <1>11, <1>12, <1>13 DEF PatientInv

LEMMA InviteKeepsPatient ==
  ASSUME Before, NEW c \in Commands, Invite(c) \/ InviteAnswered(c) \/ InviteAccepted(c)
  PROVE  PatientInv'
<1>1. /\ pc[c] \in {"preparing", "inviting", "acknowledging"} /\ Starting(c)
      /\ c \in Tasks /\ c \in Lockers /\ rt \in RuntimeStates /\ placed \in CallOrNone
      /\ leg \in [Tasks -> CallOrNone]
      /\ phone \in [Calls -> {"none", "ringing", "up", "down"}]
  BY DEF Invite, InviteAnswered, InviteAccepted, Starting, Tasks, Lockers, Before, IInv, TypeOK
<1>2. /\ rt.process = NoCall /\ rt.negotiated = NoCall /\ rt.monitor = None
      /\ ~rt.ending
      /\ dialog = IF pc[c] = "acknowledging" THEN leg[c] ELSE NoCall
  BY <1>1 DEF Before, PatientInv, UnansweredStartIsAlone, AcknowledgingStartHasDialog
<1>3. Quiet(rt)
  BY <1>1, StartHoldsLock
<1>4. CASE Invite(c)
  <2>1. /\ pc[c] = "preparing" /\ pc' = [pc EXCEPT ![c] = "inviting"]
        /\ leg' = [leg EXCEPT ![c] = placed + 1]
        /\ placed' = placed + 1 /\ byes' = byes /\ dialog' = dialog
        /\ rt' = AudioBound(rt)
        /\ phone' = [phone EXCEPT ![placed + 1] =
                       IF link = "up" THEN "ringing" ELSE "none"]
    BY <1>4 DEF Invite
  <2>2. placed < MaxCalls
    BY <1>1, <2>1 DEF Before, IInv, LockInv, RoomForCall, WillPlace
  <2>3. placed + 1 \in Calls /\ leg'[c] = placed + 1
    BY <1>1, <2>1, <2>2, TasksAssumption DEF Calls, CallOrNone
  <2>4. /\ rt'.process = NoCall /\ rt'.monitor = None /\ ~rt'.ending
        /\ ~rt'.sending /\ rt'.negotiated = NoCall
    BY <1>1, <1>2, <2>1 DEF AudioBound, RuntimeStates
  <2>5. placed + 1 \notin byes
    BY <1>1, <2>3 DEF Before, PatientInv, UnplacedIsSilent, Calls, CallOrNone
  <2>6. UnplacedIsSilent'
    <3> SUFFICES ASSUME NEW n \in Calls, n > placed + 1
                 PROVE  phone'[n] \notin {"ringing", "up"} /\ n \notin byes'
      BY <2>1 DEF UnplacedIsSilent
    <3>1. n > placed /\ n # placed + 1
      BY <1>1 DEF Calls, CallOrNone
    <3>2. QED
      BY <1>1, <2>1, <3>1 DEF Before, PatientInv, UnplacedIsSilent
  <2>7. QED
    BY <1>1, <1>2, <2>1, <2>3, <2>4, <2>5, <2>6, AloneKeepsPatient
<1>5. CASE InviteAnswered(c)
  <2>1. /\ pc[c] = "inviting" /\ pc' = [pc EXCEPT ![c] = "acknowledging"]
        /\ dialog' = leg[c] /\ UNCHANGED <<rt, leg, placed, phone, byes>>
    BY <1>5 DEF InviteAnswered, gatewayVars
  <2>2. leg'[c] \in Calls /\ leg'[c] \notin byes'
    BY <2>1 DEF Before, PatientInv, StartedCallIsAlive
  <2>3. UnplacedIsSilent'
    BY <2>1 DEF Before, PatientInv, UnplacedIsSilent
  <2>4. QED
    BY <1>1, <1>2, <1>3, <2>1, <2>2, <2>3, AloneKeepsPatient DEF Quiet
<1>6. CASE InviteAccepted(c)
  <2>1. /\ pc[c] = "acknowledging" /\ pc' = [pc EXCEPT ![c] = "spawning"]
        /\ rt' = Negotiated(rt, leg[c]) /\ dialog' = leg[c]
        /\ UNCHANGED <<leg, placed, phone, byes>>
    BY <1>2, <1>6 DEF InviteAccepted, sipVars, gatewayVars
  <2>2. leg'[c] \in Calls /\ leg'[c] \notin byes'
    BY <2>1 DEF Before, PatientInv, StartedCallIsAlive
  <2>3. /\ rt'.process = NoCall /\ rt'.monitor = None /\ ~rt'.ending
        /\ ~rt'.sending /\ rt'.negotiated = leg[c]
    BY <1>1, <1>2, <1>3, <2>1 DEF Negotiated, RuntimeStates, Quiet
  <2>4. UnplacedIsSilent'
    BY <2>1 DEF Before, PatientInv, UnplacedIsSilent
  <2>5. QED
    BY <1>1, <2>1, <2>2, <2>3, <2>4, AloneKeepsPatient
<1>7. QED
  BY <1>4, <1>5, <1>6

LEMMA SpawnKeepsPatient ==
  ASSUME Before, NEW c \in Commands, NEW w \in Watchdogs, Spawn(c, w)
  PROVE  PatientInv'
<1>1. /\ pc[c] = "spawning" /\ pc[w] = "out" /\ Starting(c)
      /\ rt' = Spawned(rt, leg[c], w)
      /\ pc' = [pc EXCEPT ![c] = "out", ![w] = "waiting"]
      /\ UNCHANGED <<ses, dialog, placed, phone, byes>>
  BY DEF Spawn, Starting, sipVars, gatewayVars
<1>2. /\ c \in Tasks /\ w \in Tasks /\ c # w /\ w \notin Commands
      /\ c # Supervisor /\ w # Supervisor /\ w # None /\ c # Reader /\ w # Reader
      /\ Supervisor \in Tasks /\ Reader \in Tasks
      /\ rt \in RuntimeStates /\ pc \in [Tasks -> Stages]
  BY TasksAssumption DEF Tasks, Before, IInv, TypeOK
<1>3. /\ leg[c] \in Calls /\ leg[c] # NoCall
      /\ rt.process = NoCall /\ rt.monitor = None /\ CallOfSpawning(leg[c])
  BY <1>1 DEF Before, PatientInv, StartedCallIsAlive, AnsweredStartHasCall,
     Calls, NoCall
<1>4. /\ rt'.process = leg[c] /\ rt'.monitor = w /\ rt'.ending = rt.ending
      /\ rt'.negotiated = rt.negotiated /\ rt'.audio = rt.audio
      /\ rt'.sending = rt.sending
  BY <1>1, <1>2 DEF Spawned, RuntimeStates
<1>5. \A x \in Tasks : /\ Tearing(x)' <=> Tearing(x)
                       /\ Tearing(x) => pc'[x] = pc[x]
  BY <1>1, <1>2 DEF Tearing, TeardownStages
<1>6. pc'[Supervisor] = pc[Supervisor] /\ (Reachable' <=> Reachable)
  BY <1>1, <1>2 DEF Reachable
<1>7. \A u \in Commands : ~Starting(u)'
  <2>1. \A u \in Commands \ {c} : ~Starting(u)
    BY <1>1, StartHoldsLock
  <2>2. QED
    BY <1>1, <1>2, <2>1 DEF Starting, Tasks
<1>8. \A v \in Watchdogs : Supervising(v)' => v = w
  <2>1. \A v \in Watchdogs : ~Supervising(v)
    BY <1>3, TasksAssumption DEF Before, PatientInv, MonitorWatches, Tasks
  <2>2. QED
    BY <1>1, <1>2, <2>1 DEF Supervising, Tasks
<1>9. rt.ending => pc[Supervisor] = "hangingUp" /\ \A x \in Tasks : Tearing(x) => x = Supervisor
  <2>1. rt.ending => pc[Supervisor] = "hangingUp"
    BY <1>3 DEF CallOfSpawning
  <2>2. QED
    BY <1>2, <2>1 DEF Before, PatientInv, TeardownExclusive, Tearing, TeardownStages
<1>10. \A x \in Tasks : Tearing(x)' => x = Supervisor /\ pc'[x] = "hangingUp"
  BY <1>5, <1>9 DEF Before, PatientInv, TeardownExclusive
<1>11. UnplacedIsSilent'
  BY <1>1 DEF Before, PatientInv, UnplacedIsSilent
<1>12. /\ StartedCallIsAlive' /\ UnansweredStartIsAlone'
       /\ AcknowledgingStartHasDialog' /\ AnsweredStartHasCall'
  BY <1>7 DEF StartedCallIsAlive, UnansweredStartIsAlone, AcknowledgingStartHasDialog,
     AnsweredStartHasCall, Starting
<1>13. TeardownExclusive'
  BY <1>4, <1>5 DEF Before, PatientInv, TeardownExclusive
<1>14. TeardownBarsStarts'
  <2>1. ~Dead
    BY <1>1 DEF Dead
  <2>2. QED
    BY <1>4, <1>5, <2>1 DEF Before, PatientInv, TeardownBarsStarts
<1>15. TeardownInOrder'
  <2>1. pc[Supervisor] = "hangingUp" => ~rt.audio /\ dialog = NoCall
    BY <1>2 DEF Before, PatientInv, TeardownInOrder
  <2>2. QED
    BY <1>1, <1>4, <1>6, <1>10, <2>1 DEF TeardownInOrder, Tearing, TeardownStages
<1>16. MonitorWatches'
  BY <1>3, <1>4, <1>6, <1>8, <1>9 DEF MonitorWatches
<1>17. OrphanIsUnreachable'
  BY <1>3, <1>4, <1>6 DEF OrphanIsUnreachable, CallOfSpawning
<1>18. ReaderHasNoDialog' /\ FailureIsShown'
  BY <1>2, <1>10, TasksAssumption DEF ReaderHasNoDialog, FailureIsShown, Tasks
<1>19. DialogIsNegotiated' /\ NoSilentMicrophone' /\ SendingNeedsAudio'
  BY <1>1, <1>3, <1>4
     DEF Before, PatientInv, DialogIsNegotiated, NoSilentMicrophone, SendingNeedsAudio,
         CallOfSpawning
<1>20. QED
  BY <1>11, <1>12, <1>13, <1>14, <1>15, <1>16, <1>17, <1>18, <1>19 DEF PatientInv

LEMMA StartStepKeepsPatient ==
  ASSUME Before, After, NEW c \in Commands, StartStep(c) PROVE PatientInv'
BY PrepareFailsKeepsPatient, InviteKeepsPatient, SpawnKeepsPatient,
   StartStepsKeepPatient DEF StartStep

-----------------------------------------------------------------------------
(* The microphone, the viewers and the timers.                              *)

\* A step of the gateway, the network or the reader that only concerns calls.
LEMMA ElsewhereKeepsPatient ==
  ASSUME Before, UNCHANGED <<rt, dialog, pc, leg>>,
         ses'.microphone = ses.microphone, ses'.state = ses.state,
         UnplacedIsSilent', StartedCallIsAlive'
  PROVE  PatientInv'
BY RuntimeUntouched, PlacesUntouched, KeptKeepsPatient DEF Live

\* The calls are as they were.
LEMMA CallsUntouched ==
  ASSUME Before, UNCHANGED <<pc, leg, placed, phone, byes>>
  PROVE  UnplacedIsSilent' /\ StartedCallIsAlive'
BY DEF Before, PatientInv, UnplacedIsSilent, StartedCallIsAlive

LEMMA SetMicrophoneKeepsPatient ==
  ASSUME Before, NEW on \in BOOLEAN, SetMicrophone(on) PROVE PatientInv'
<1>1. /\ rt' = WithMicrophone(rt, on) /\ ses' = [ses EXCEPT !.microphone = on]
      /\ UNCHANGED <<dialog, pc, leg, placed, phone, byes>>
  BY DEF SetMicrophone, sipVars, gatewayVars
<1>2. rt \in RuntimeStates /\ ses \in SessionStates
  BY DEF Before, IInv, TypeOK
<1>3. MediaKept /\ (rt'.sending => rt'.audio /\ on)
  BY <1>1, <1>2 DEF WithMicrophone, MediaKept, RuntimeStates
<1>4. ses'.microphone = on /\ (Live(ses') => Live(ses))
  BY <1>1, <1>2 DEF Live, SessionStates
<1>5. TasksKept /\ UnplacedIsSilent' /\ StartedCallIsAlive'
  BY <1>1, PlacesUntouched, CallsUntouched
<1>6. QED
  BY <1>1, <1>3, <1>4, <1>5, KeptKeepsPatient

LEMMA ViewerStepKeepsPatient ==
  ASSUME Before, ViewerStep PROVE PatientInv'
<1>1. /\ ses \in SessionStates /\ pc \in [Tasks -> Stages] /\ TypeOK
      /\ \A x \in Tasks : Fits(x, pc[x], job[x])
  BY DEF Before, IInv, TypeOK, KindInv
<1>2. CASE ViewerJoins
  <2>1. /\ pc' = TimerCancelled(pc) /\ ses' = ViewerAdded(ses)
        /\ leg' = [x \in Tasks |-> IF pc'[x] = "out" THEN NoCall ELSE leg[x]]
        /\ UNCHANGED <<rt, dialog, placed, phone, byes>>
    BY <1>2 DEF ViewerJoins, sipVars, gatewayVars
  <2>2. \A x \in Tasks : pc'[x] = pc[x] \/ (pc[x] = "armed" /\ pc'[x] = "out")
    BY <1>1, <2>1, TimersOnlyCancelled DEF TimersOnly
  <2>3. \A c \in Commands : pc'[c] = pc[c] /\ (pc'[c] # "out" => leg'[c] = leg[c])
    BY <1>1, <2>1, <2>2, TasksAssumption DEF Fits, Tasks
  <2>4. pc'[Supervisor] = pc[Supervisor]
    BY <1>1, <2>2, TasksAssumption DEF Fits, Tasks
  <2>5. \A w \in Watchdogs : Supervising(w)' => Supervising(w)
    BY <2>2 DEF Supervising, Tasks
  <2>6. \A x \in Tasks : pc'[x] = pc[x] \/ (~Tearing(x) /\ ~Tearing(x)')
    BY <2>2 DEF Tearing, TeardownStages
  <2>7. TasksKept
    BY <2>3, <2>4, <2>5, <2>6 DEF TasksKept, Dead, Reachable
  <2>8. UnplacedIsSilent' /\ StartedCallIsAlive'
    BY <2>1, <2>3 DEF Before, PatientInv, UnplacedIsSilent, StartedCallIsAlive
  <2>9. ses'.microphone = ses.microphone /\ (Live(ses') => Live(ses))
    BY <1>1, <2>1 DEF ViewerAdded, CleanupCancelled, Live, SessionStates
  <2>10. QED
    BY <2>1, <2>3, <2>7, <2>8, <2>9, RuntimeUntouched, KeptKeepsPatient
<1>3. CASE ViewerGivesUp
  <2>1. UNCHANGED <<rt, ses, dialog, pc, leg, placed, phone, byes>>
    BY <1>3 DEF ViewerGivesUp, sipVars, gatewayVars
  <2>2. QED
    BY <2>1, CallsUntouched, ElsewhereKeepsPatient
<1>4. ASSUME NEW t \in Timers, ViewerLeaves(t) PROVE PatientInv'
  <2>1. /\ ses' = ViewerRemoved(ses, t)
        /\ UNCHANGED <<rt, dialog, placed, phone, byes>>
    BY <1>4 DEF ViewerLeaves, sipVars, gatewayVars
  <2>2. ses'.microphone = ses.microphone /\ ses'.state = ses.state
    BY <1>1, <2>1 DEF ViewerRemoved, SessionStates
  <2>3. CASE StartsCleanup(ses)
    <3>1. /\ pc[t] = "out" /\ pc' = [pc EXCEPT ![t] = "armed"]
          /\ leg' = [leg EXCEPT ![t] = CurrentCall]
      BY <1>4, <2>3 DEF ViewerLeaves
    <3>2. t \in Lockers /\ t \in Tasks /\ t \notin Commands /\ ~Tearing(t)
          /\ pc[t] # "acknowledging"
      BY <3>1, TasksAssumption DEF Lockers, Tasks, Tearing, TeardownStages
    <3>3. \A x \in Tasks \ {t} : pc'[x] = pc[x] /\ (pc'[x] # "out" => leg'[x] = leg[x])
      BY <1>1, <3>1 DEF TypeOK
    <3>4. pc'[t] = "armed"
      BY <1>1, <3>1, <3>2
    <3>5. TasksKept /\ UnplacedIsSilent' /\ StartedCallIsAlive'
      BY <2>1, <3>2, <3>3, <3>4, StepsAside
    <3>6. \A c \in Commands : pc'[c] = pc[c]
      BY <3>2, <3>3 DEF Tasks
    <3>7. QED
      BY <2>1, <2>2, <3>5, <3>6, RuntimeUntouched, KeptKeepsPatient DEF Live
  <2>4. CASE ~StartsCleanup(ses)
    <3>1. UNCHANGED <<pc, leg>>
      BY <1>4, <2>4 DEF ViewerLeaves
    <3>2. QED
      BY <2>1, <2>2, <3>1, CallsUntouched, ElsewhereKeepsPatient
  <2>5. QED
    BY <2>3, <2>4
<1>5. QED
  BY <1>2, <1>3, <1>4 DEF ViewerStep

LEMMA TimerStepKeepsPatient ==
  ASSUME Before, After, NEW t \in Timers, TimerStep(t) PROVE PatientInv'
<1>1. t \in Lockers /\ t \in Tasks /\ t \notin Commands /\ pc \in [Tasks -> Stages]
  BY TasksAssumption DEF Lockers, Tasks, Before, IInv, TypeOK
<1>2. CASE TimerFires(t)
  <2>1. /\ pc[t] = "armed" /\ pc' = [pc EXCEPT ![t] = "fired"]
        /\ UNCHANGED <<rt, ses, dialog, leg, placed, phone, byes>>
    BY <1>2 DEF TimerFires, sipVars, gatewayVars
  <2>2. ~Tearing(t)
    BY <2>1 DEF Tearing, TeardownStages
  <2>3. TasksKept /\ UnplacedIsSilent' /\ StartedCallIsAlive'
    BY <1>1, <2>1, <2>2, StepsAside
  <2>4. \A c \in Commands : pc'[c] = pc[c]
    BY <1>1, <2>1 DEF Tasks
  <2>5. QED
    BY <2>1, <2>3, <2>4, RuntimeUntouched, KeptKeepsPatient
<1>3. CASE TimerEnds(t)
  BY <1>1, <1>3, EndKeepsPatient DEF TimerEnds
<1>4. QED
  BY <1>2, <1>3 DEF TimerStep

-----------------------------------------------------------------------------
(* FFmpeg and the watchdogs.                                                *)

\* A watchdog that still supervises while the call is torn down: only the
\* supervisor's teardown can be meant.
LEMMA OvertakenWatchdog ==
  ASSUME Before, NEW w \in Watchdogs, Supervising(w)
  PROVE  /\ rt.monitor = w /\ rt.process # NoCall /\ ~Tearing(w)
         /\ rt.ending => /\ pc[Supervisor] = "hangingUp" /\ ~rt.audio /\ ~rt.sending
                         /\ \A x \in Tasks : Tearing(x) => x = Supervisor
<1>1. rt.monitor = w /\ rt.process # NoCall /\ ~Tearing(w)
  <2>1. w # None
    BY TasksAssumption DEF Tasks
  <2>2. QED
    BY <2>1 DEF Before, PatientInv, MonitorWatches, Supervising, Tearing, TeardownStages
<1>2. ASSUME rt.ending
      PROVE  /\ pc[Supervisor] = "hangingUp" /\ ~rt.audio /\ ~rt.sending
             /\ \A x \in Tasks : Tearing(x) => x = Supervisor
  <2>1. w # None /\ Supervisor \in Tasks
    BY TasksAssumption DEF Tasks
  <2>2. pc[Supervisor] = "hangingUp"
    BY <1>1, <1>2, <2>1 DEF Before, PatientInv, MonitorWatches
  <2>3. ~rt.audio /\ ~rt.sending
    BY <2>1, <2>2 DEF Before, PatientInv, TeardownInOrder, SendingNeedsAudio
  <2>4. \A x \in Tasks : Tearing(x) => x = Supervisor
    BY <2>1, <2>2 DEF Before, PatientInv, TeardownExclusive, Tearing, TeardownStages
  <2>5. QED
    BY <2>2, <2>3, <2>4
<1>3. QED
  BY <1>1, <1>2

LEMMA FirstVideoKeepsPatient ==
  ASSUME Before, NEW w \in Watchdogs, FirstVideo(w) PROVE PatientInv'
<1>1. /\ pc[w] = "waiting" /\ pc' = [pc EXCEPT ![w] = "watching"]
      /\ ses' \in {ses, StreamsRunning(ses)}
      /\ UNCHANGED <<rt, dialog, leg, placed, phone, byes>>
  BY DEF FirstVideo, Delivered, sipVars, gatewayVars
<1>2. /\ w \in Tasks /\ w \notin Commands /\ w # Supervisor /\ Supervisor \in Tasks
      /\ pc \in [Tasks -> Stages] /\ ses \in SessionStates
  BY TasksAssumption DEF Tasks, Before, IInv, TypeOK
<1>3. \A x \in Tasks \ {w} : pc'[x] = pc[x]
  BY <1>1, <1>2
<1>4. \A c \in Commands : pc'[c] = pc[c]
  BY <1>2, <1>3 DEF Tasks
<1>5. TasksKept
  <2>1. \A x \in Tasks : pc'[x] = pc[x] \/ (~Tearing(x) /\ ~Tearing(x)')
    BY <1>1, <1>2, <1>3 DEF Tearing, TeardownStages
  <2>2. \A v \in Watchdogs : Supervising(v)' => Supervising(v)
    BY <1>1, <1>3 DEF Supervising, Tasks
  <2>3. pc'[Supervisor] = pc[Supervisor]
    BY <1>2, <1>3
  <2>4. QED
    BY <1>1, <1>4, <2>1, <2>2, <2>3 DEF TasksKept, Dead, Reachable
<1>6. UnplacedIsSilent' /\ StartedCallIsAlive'
  BY <1>1, <1>4 DEF Before, PatientInv, UnplacedIsSilent, StartedCallIsAlive
<1>7. ses'.microphone = ses.microphone
  BY <1>1, <1>2 DEF StreamsRunning, SessionStates
<1>8. \A v \in Watchdogs : ~Tearing(v)
  <2>1. ASSUME NEW v \in Watchdogs, Tearing(v) PROVE FALSE
    <3>1. rt.ending /\ v \in Tasks /\ v # Supervisor
      BY <2>1, TasksAssumption DEF Before, PatientInv, TeardownExclusive, Tasks
    <3>2. Supervising(w)
      BY <1>1 DEF Supervising
    <3>3. QED
      BY <2>1, <3>1, <3>2, OvertakenWatchdog
  <2>2. QED
    BY <2>1
<1>9. QED
  BY <1>1, <1>4, <1>5, <1>6, <1>7, <1>8, RuntimeUntouched, KeptKeepsPatient

LEMMA FFmpegExitsKeepsPatient ==
  ASSUME Before, FFmpegExits PROVE PatientInv'
<1>1. /\ rt' = [rt EXCEPT !.exited = TRUE]
      /\ UNCHANGED <<ses, dialog, pc, leg, placed, phone, byes>>
  BY DEF FFmpegExits, sipVars, gatewayVars
<1>2. MediaKept /\ rt'.sending = rt.sending
  BY <1>1 DEF Before, IInv, TypeOK, MediaKept, RuntimeStates
<1>3. rt'.sending => rt'.audio /\ ses'.microphone
  BY <1>1, <1>2 DEF Before, PatientInv, MediaKept, NoSilentMicrophone, SendingNeedsAudio
<1>4. QED
  BY <1>1, <1>2, <1>3, PlacesUntouched, CallsUntouched, KeptKeepsPatient

LEMMA WatchdogFailsKeepsPatient ==
  ASSUME Before, After, NEW w \in Watchdogs, WatchdogFails(w) PROVE PatientInv'
<1> DEFINE s == Delivered(ses, RuntimeError(ses))
<1>1. /\ Supervising(w) /\ ~Handover /\ placed' = placed /\ byes' = byes
      /\ phone' = phone /\ Teardown(w, "none", rt, s, dialog, pc)
  BY DEF WatchdogFails, Supervising, outsideVars
<1>2. /\ w \in Tasks /\ w \notin Lockers /\ w # Reader /\ w # Supervisor
      /\ "none" \in Jobs /\ "none" \notin Devices /\ rt \in RuntimeStates
      /\ ses \in SessionStates /\ dialog \in CallOrNone
  BY TasksAssumption, JobsAssumption DEF Tasks, Lockers, Jobs, Before, IInv, TypeOK
<1>3. /\ rt.monitor = w /\ rt.process # NoCall /\ ~Tearing(w)
      /\ rt.ending => ~rt.sending
  BY <1>1, OvertakenWatchdog
<1>4. /\ s \in SessionStates /\ s \in {ses, RuntimeError(ses)}
      /\ Live(s) => Live(ses)
      /\ pc[Supervisor] = "out" => ~Live(s)
  <2>1. s \in SessionStates /\ s \in {ses, RuntimeError(ses)}
    BY <1>2, SessionTypes DEF Delivered
  <2>2. ~Live(RuntimeError(ses))
    BY <1>2 DEF RuntimeError, Live, SessionStates
  <2>3. pc[Supervisor] = "out" => s = RuntimeError(ses)
    BY DEF Delivered, Reachable
  <2> HIDE DEF s
  <2>4. QED
    BY <2>1, <2>2, <2>3
<1> HIDE DEF s
<1>5. JobFits(w, "none")
  BY <1>2 DEF JobFits, Lockers
<1>6. CASE ~rt.ending
  <2>1. rt.negotiated # NoCall \/ Dead
    <3> SUFFICES ASSUME rt.negotiated = NoCall PROVE Dead
      OBVIOUS
    <3>1. ~Reachable
      BY <1>3 DEF Before, PatientInv, OrphanIsUnreachable
    <3>2. \A c \in Commands : ~Starting(c)
      BY <1>3 DEF Before, PatientInv, UnansweredStartIsAlone,
         AcknowledgingStartHasDialog, AnsweredStartHasCall, Starting
    <3>3. \A x \in Lockers : pc[x] \in Unlocked
      <4> SUFFICES ASSUME NEW x \in Lockers PROVE pc[x] \in Unlocked
        OBVIOUS
      <4>1. /\ x \in Tasks /\ x \notin Watchdogs /\ x # Supervisor
            /\ pc[x] \in Stages /\ Fits(x, pc[x], job[x])
        BY TasksAssumption DEF Lockers, Tasks, Before, IInv, TypeOK, KindInv
      <4>2. pc[x] \notin TeardownStages
        BY <1>6, <4>1 DEF Before, PatientInv, TeardownExclusive, Tearing
      <4>3. pc[x] \notin {"preparing", "inviting", "acknowledging", "spawning"}
        BY <3>2, <4>1 DEF Fits, Starting
      <4>4. pc[x] \notin {"waiting", "deaf", "watching", "sipBye", "closing", "closed"}
        BY <4>1 DEF Fits
      <4>5. QED
        BY <4>1, <4>2, <4>3, <4>4 DEF Stages, Unlocked
    <3>4. \A c \in Commands : pc[c] # "queued"
      BY <1>1, <3>3 DEF Handover, LockFree, Lockers
    <3>5. \A c \in Commands : pc[c] \notin {"armed", "fired"}
      BY TasksAssumption DEF Before, KindInv, Fits, Tasks
    <3>6. QED
      BY <3>1, <3>3, <3>4, <3>5 DEF Dead, Lockers, Unlocked
  <2>2. CallsTeardown(w, rt, dialog, s) /\ SameMedia(rt)
    BY <1>1, <1>2, <1>4, <2>1 DEF CallsTeardown, SameMedia
  <2>3. QED
    BY <1>1, <1>2, <1>3, <1>4, <1>5, <1>6, <2>2, BeginKeepsPatient
<1>7. CASE rt.ending
  BY <1>1, <1>2, <1>3, <1>4, <1>5, <1>7, DeclinedKeepsPatient DEF SameCall
<1>8. QED
  BY <1>6, <1>7

LEMMA WatchdogStepKeepsPatient ==
  ASSUME Before, After, NEW w \in Watchdogs, WatchdogStep(w) PROVE PatientInv'
BY FirstVideoKeepsPatient, WatchdogFailsKeepsPatient DEF WatchdogStep

-----------------------------------------------------------------------------
(* The reader, the gateway, the network and the supervisor.                 *)

LEMMA RemoteEndedKeepsPatient ==
  ASSUME Before, After, NEW n \in Calls, RemoteEnded(n) PROVE PatientInv'
<1>1. /\ pc[Reader] = "out" /\ n \in byes /\ dialog = n /\ byes' = byes \ {n}
      /\ placed' = placed /\ phone' = phone
      /\ Teardown(Reader, "none", rt, ses, NoCall, pc)
  BY DEF RemoteEnded, Reading
<1>2. /\ Reader \in Tasks /\ Reader \notin Lockers /\ Reader \notin Watchdogs
      /\ Reader # Supervisor /\ "none" \in Jobs /\ "none" \notin Devices
      /\ rt \in RuntimeStates /\ ses \in SessionStates /\ NoCall \in CallOrNone
      /\ n # NoCall
  BY TasksAssumption, JobsAssumption, NoCallTypes
     DEF Tasks, Lockers, Jobs, Before, IInv, TypeOK, Calls, NoCall
<1>3. ~Tearing(Reader) /\ JobFits(Reader, "none")
  BY <1>1, <1>2 DEF Tearing, TeardownStages, JobFits, Lockers
<1>4. CASE ~rt.ending
  <2>1. CallsTeardown(Reader, rt, NoCall, ses) /\ SameMedia(rt)
    BY <1>1, <1>2 DEF CallsTeardown, SameMedia
  <2>2. QED
    BY <1>1, <1>2, <1>3, <1>4, <2>1, BeginKeepsPatient
<1>5. CASE rt.ending
  <2>1. rt.sending => ses.microphone
    BY DEF Before, PatientInv, NoSilentMicrophone
  <2>2. QED
    BY <1>1, <1>2, <1>3, <1>5, <2>1, DeclinedKeepsPatient DEF SameCall
<1>6. QED
  BY <1>4, <1>5

LEMMA ReaderStepKeepsPatient ==
  ASSUME Before, After, NEW n \in Calls, ReaderStep(n) PROVE PatientInv'
<1>1. CASE ReadAnswer(n)
  <2>1. UNCHANGED <<rt, ses, dialog, placed, pc, leg, phone, byes>>
    BY <1>1 DEF ReadAnswer, sipVars
  <2>2. QED
    BY <2>1, CallsUntouched, ElsewhereKeepsPatient
<1>2. CASE ByeIgnored(n)
  <2>1. byes' \subseteq byes /\ UNCHANGED <<rt, ses, dialog, placed, pc, leg, phone>>
    BY <1>2 DEF ByeIgnored, sipVars
  <2>2. UnplacedIsSilent' /\ StartedCallIsAlive'
    BY <2>1 DEF Before, PatientInv, UnplacedIsSilent, StartedCallIsAlive
  <2>3. QED
    BY <2>1, <2>2, ElsewhereKeepsPatient
<1>3. QED
  BY <1>1, <1>2, RemoteEndedKeepsPatient DEF ReaderStep

\* A gateway that has picked up hangs up, but not on a start in progress.
LEMMA GatewayStepKeepsPatient ==
  ASSUME Before, ~EarlyHangUp, NEW n \in Calls, GatewayStep(n) PROVE PatientInv'
<1>1. UNCHANGED <<rt, ses, dialog, placed, pc, leg>>
  BY DEF GatewayStep, GatewayPicksUp, GatewayHangsUp, sipVars
<1>2. phone \in [Calls -> {"none", "ringing", "up", "down"}] /\ byes \subseteq Calls
  BY DEF Before, IInv, TypeOK
<1>3. UnplacedIsSilent /\ StartedCallIsAlive
  BY DEF Before, PatientInv
<1>4. CASE GatewayPicksUp(n)
  <2>1. /\ phone[n] = "ringing" /\ phone' = [phone EXCEPT ![n] = "up"]
        /\ byes' = byes
    BY <1>4 DEF GatewayPicksUp
  <2>2. UnplacedIsSilent' /\ StartedCallIsAlive'
    BY <1>1, <1>2, <1>3, <2>1 DEF UnplacedIsSilent, StartedCallIsAlive
  <2>3. QED
    BY <1>1, <2>2, ElsewhereKeepsPatient
<1>5. CASE GatewayHangsUp(n)
  <2>1. /\ phone[n] = "up" /\ ~BeingStarted(n)
        /\ phone' = [phone EXCEPT ![n] = "down"] /\ byes' = byes \cup {n}
    BY <1>5 DEF GatewayHangsUp
  <2>2. ~(n > placed)
    BY <1>3, <2>1 DEF UnplacedIsSilent
  <2>3. UnplacedIsSilent'
    BY <1>1, <1>2, <1>3, <2>1, <2>2 DEF UnplacedIsSilent
  <2>4. StartedCallIsAlive'
    BY <1>1, <1>3, <2>1 DEF StartedCallIsAlive, BeingStarted
  <2>5. QED
    BY <1>1, <2>3, <2>4, ElsewhereKeepsPatient
<1>6. QED
  BY <1>4, <1>5 DEF GatewayStep

LEMMA LinkLostKeepsPatient ==
  ASSUME Before, LinkLost PROVE PatientInv'
<1>1. UNCHANGED <<rt, ses, dialog, placed, pc, leg, phone, byes>>
  BY DEF LinkLost, gatewayVars
<1>2. QED
  BY <1>1, CallsUntouched, ElsewhereKeepsPatient

LEMMA SupervisorClosesKeepsPatient ==
  ASSUME ~EarlyHangUp, Before, After, SupervisorCloses PROVE PatientInv'
<1>1. /\ pc[Supervisor] = "out" /\ placed' = placed /\ byes' = byes
      /\ phone' = phone /\ Teardown(Supervisor, "none", rt, ses, dialog, pc)
      /\ \A c \in Commands : pc[c] # "acknowledging"
  BY DEF SupervisorCloses, outsideVars
<1>2. /\ Supervisor \in Tasks /\ Supervisor \notin Lockers
      /\ Supervisor \notin Watchdogs /\ Supervisor # Reader
      /\ "none" \in Jobs /\ "none" \notin Devices /\ rt \in RuntimeStates
      /\ ses \in SessionStates /\ dialog \in CallOrNone
  BY TasksAssumption, JobsAssumption DEF Tasks, Lockers, Jobs, Before, IInv, TypeOK
<1>3. ~Tearing(Supervisor) /\ JobFits(Supervisor, "none")
  BY <1>1, <1>2 DEF Tearing, TeardownStages, JobFits, Lockers
<1>4. CASE ~rt.ending
  <2>1. CallsTeardown(Supervisor, rt, dialog, ses) /\ SameMedia(rt)
    BY <1>1, <1>2 DEF CallsTeardown, SameMedia
  <2>2. QED
    BY <1>1, <1>2, <1>3, <1>4, <2>1, BeginKeepsPatient
<1>5. CASE rt.ending
  <2>1. rt.sending => ses.microphone
    BY DEF Before, PatientInv, NoSilentMicrophone
  <2>2. QED
    BY <1>1, <1>2, <1>3, <1>5, <2>1, DeclinedKeepsPatient DEF SameCall
<1>6. QED
  BY <1>4, <1>5

LEMMA SupervisorByeKeepsPatient ==
  ASSUME Before, SupervisorByeReturns PROVE PatientInv'
<1>1. /\ pc[Supervisor] = "sipBye" /\ pc' = [pc EXCEPT ![Supervisor] = "closing"]
      /\ leg' = [leg EXCEPT ![Supervisor] = NoCall]
      /\ phone' \in {phone, [phone EXCEPT ![leg[Supervisor]] = "down"]}
      /\ UNCHANGED <<rt, ses, dialog, placed, byes>>
  BY DEF SupervisorByeReturns, sipVars
<1>2. /\ Supervisor \in Tasks /\ Supervisor \notin Commands
      /\ Supervisor \notin Watchdogs /\ pc \in [Tasks -> Stages]
      /\ leg \in [Tasks -> CallOrNone]
      /\ phone \in [Calls -> {"none", "ringing", "up", "down"}]
  BY TasksAssumption DEF Tasks, Before, IInv, TypeOK
<1>3. \A x \in Tasks \ {Supervisor} : pc'[x] = pc[x] /\ leg'[x] = leg[x]
  BY <1>1, <1>2
<1>4. pc'[Supervisor] = "closing"
  BY <1>1, <1>2
<1>5. \A c \in Commands : pc'[c] = pc[c] /\ leg'[c] = leg[c]
  BY <1>2, <1>3 DEF Tasks
<1>6. TasksKept
  BY <1>1, <1>2, <1>3, <1>4, <1>5
     DEF TasksKept, Dead, Reachable, Supervising, Tearing, TeardownStages, Tasks
<1>7. UnplacedIsSilent' /\ StartedCallIsAlive'
  BY <1>1, <1>2, <1>5 DEF Before, PatientInv, UnplacedIsSilent, StartedCallIsAlive
<1>8. QED
  BY <1>1, <1>5, <1>6, <1>7, RuntimeUntouched, KeptKeepsPatient

\* The reader is cancelled in the middle of its teardown.
LEMMA ReaderCutShortKeepsPatient ==
  ASSUME Before, pc[Supervisor] = "closing", pc[Reader] # "out",
         rt' = [rt EXCEPT !.ending = FALSE],
         pc' = [pc EXCEPT ![Supervisor] = "closed", ![Reader] = "out"],
         UNCHANGED <<ses, dialog, placed, leg, phone, byes>>
  PROVE  PatientInv'
<1>1. /\ Supervisor \in Tasks /\ Supervisor \notin Commands /\ Supervisor \notin Watchdogs
      /\ Reader \in Tasks /\ Reader \notin Commands /\ Reader \notin Watchdogs
      /\ Reader \notin Timers /\ Reader # Supervisor
      /\ pc \in [Tasks -> Stages] /\ rt \in RuntimeStates /\ Fits(Reader, pc[Reader], job[Reader])
  BY TasksAssumption DEF Tasks, Before, IInv, TypeOK, KindInv
<1>2. Tearing(Reader)
  BY <1>1 DEF Fits, Tearing, Stages
<1>3. rt.ending /\ \A x \in Tasks : Tearing(x) => x = Reader
  BY <1>1, <1>2 DEF Before, PatientInv, TeardownExclusive
<1>4. /\ rt'.process = rt.process /\ rt'.negotiated = rt.negotiated
      /\ rt'.monitor = rt.monitor /\ ~rt'.ending /\ rt'.audio = rt.audio
      /\ rt'.sending = rt.sending
  BY <1>1 DEF RuntimeStates
<1>5. \A c \in Commands : ~Starting(c)
  <2> SUFFICES ASSUME NEW c \in Commands, Starting(c) PROVE FALSE
    OBVIOUS
  <2>1. pc[Supervisor] = "hangingUp"
    BY <1>3 DEF Starting, Before, PatientInv, UnansweredStartIsAlone,
       AcknowledgingStartHasDialog, AnsweredStartHasCall, CallOfSpawning
  <2>2. QED
    BY <2>1
<1>6. \A x \in Tasks : ~Tearing(x)'
  BY <1>1, <1>3 DEF Tearing, TeardownStages
<1>7. ~Reachable' /\ \A c \in Commands : ~Starting(c)'
  BY <1>1, <1>5 DEF Reachable, Starting, Tasks
<1>8. UnplacedIsSilent'
  BY DEF Before, PatientInv, UnplacedIsSilent
<1>9. /\ StartedCallIsAlive' /\ UnansweredStartIsAlone'
      /\ AcknowledgingStartHasDialog' /\ AnsweredStartHasCall'
  BY <1>7 DEF StartedCallIsAlive, UnansweredStartIsAlone, AcknowledgingStartHasDialog,
     AnsweredStartHasCall, Starting
<1>10. /\ TeardownExclusive' /\ TeardownBarsStarts' /\ TeardownInOrder'
       /\ ReaderHasNoDialog' /\ FailureIsShown'
  BY <1>1, <1>4, <1>6 DEF TeardownExclusive, TeardownBarsStarts, TeardownInOrder,
     ReaderHasNoDialog, FailureIsShown, Tearing, TeardownStages, Tasks
<1>11. MonitorWatches'
  <2>1. \A w \in Watchdogs : pc'[w] = pc[w]
    BY <1>1 DEF Tasks
  <2>2. QED
    BY <1>4, <2>1 DEF Before, PatientInv, MonitorWatches, Supervising
<1>12. OrphanIsUnreachable'
  BY <1>7 DEF OrphanIsUnreachable
<1>13. DialogIsNegotiated' /\ NoSilentMicrophone' /\ SendingNeedsAudio'
  BY <1>4, <1>5 DEF Before, PatientInv, DialogIsNegotiated, NoSilentMicrophone,
     SendingNeedsAudio, Starting
<1>14. QED
  BY <1>8, <1>9, <1>10, <1>11, <1>12, <1>13 DEF PatientInv

LEMMA SipClosesKeepsPatient ==
  ASSUME Before, SipCloses PROVE PatientInv'
<1>1. /\ pc[Supervisor] = "closing"
      /\ rt' = IF pc[Reader] = "out" THEN rt ELSE [rt EXCEPT !.ending = FALSE]
      /\ pc' = [pc EXCEPT ![Supervisor] = "closed", ![Reader] = "out"]
      /\ UNCHANGED <<ses, dialog, placed, leg, phone, byes>>
  BY DEF SipCloses, gatewayVars
<1>2. CASE pc[Reader] = "out"
  <2>1. /\ Supervisor \in Tasks /\ Reader \in Tasks /\ pc \in [Tasks -> Stages]
        /\ Supervisor \notin Commands /\ Supervisor \notin Watchdogs /\ Reader # Supervisor
    BY TasksAssumption DEF Tasks, Before, IInv, TypeOK
  <2>2. \A x \in Tasks \ {Supervisor} : pc'[x] = pc[x]
    BY <1>1, <1>2, <2>1
  <2>3. pc'[Supervisor] = "closed"
    BY <1>1, <2>1
  <2>4. \A c \in Commands : pc'[c] = pc[c]
    BY <2>1, <2>2 DEF Tasks
  <2>5. TasksKept
    BY <1>1, <2>1, <2>2, <2>3, <2>4
       DEF TasksKept, Dead, Reachable, Supervising, Tearing, TeardownStages, Tasks
  <2>6. UnplacedIsSilent' /\ StartedCallIsAlive'
    BY <1>1, <2>4 DEF Before, PatientInv, UnplacedIsSilent, StartedCallIsAlive
  <2>7. rt' = rt
    BY <1>1, <1>2
  <2>8. QED
    BY <1>1, <2>4, <2>5, <2>6, <2>7, RuntimeUntouched, KeptKeepsPatient
<1>3. CASE pc[Reader] # "out"
  BY <1>1, <1>3, ReaderCutShortKeepsPatient
<1>4. QED
  BY <1>2, <1>3

-----------------------------------------------------------------------------
(* The invariant                                                            *)

LEMMA PatientInit == Init => KindInv /\ PatientInv
<1> SUFFICES ASSUME Init PROVE KindInv /\ PatientInv
  OBVIOUS
<1>1. /\ \A t \in Tasks : pc[t] = "out" /\ job[t] = "none"
      /\ \A n \in Calls : phone[n] = "none"
      /\ dialog = NoCall /\ byes = {} /\ ~Live(ses) /\ ~ses.microphone
  BY DEF Init, NewSession, Live
<1>2. /\ rt.process = NoCall /\ rt.negotiated = NoCall /\ rt.monitor = None
      /\ ~rt.ending /\ ~rt.audio /\ ~rt.sending
  BY DEF Init, NewRuntime
<1>3. Commands \subseteq Tasks /\ Watchdogs \subseteq Tasks /\ Reader \in Tasks
  BY DEF Tasks
<1>4. KindInv
  BY <1>1 DEF KindInv, Fits, TeardownStages
<1>5. /\ UnplacedIsSilent /\ StartedCallIsAlive /\ UnansweredStartIsAlone
      /\ AcknowledgingStartHasDialog /\ AnsweredStartHasCall
  BY <1>1, <1>3 DEF UnplacedIsSilent, StartedCallIsAlive, UnansweredStartIsAlone,
     AcknowledgingStartHasDialog, AnsweredStartHasCall
<1>6. /\ TeardownExclusive /\ TeardownBarsStarts /\ TeardownInOrder
      /\ ReaderHasNoDialog /\ FailureIsShown
  BY <1>1, <1>2, <1>3 DEF TeardownExclusive, TeardownBarsStarts, TeardownInOrder,
     ReaderHasNoDialog, FailureIsShown, Tearing, TeardownStages
<1>7. MonitorWatches /\ OrphanIsUnreachable /\ DialogIsNegotiated
  BY <1>1, <1>2, <1>3 DEF MonitorWatches, OrphanIsUnreachable, DialogIsNegotiated,
     Supervising
<1>8. NoSilentMicrophone /\ SendingNeedsAudio
  BY <1>2 DEF NoSilentMicrophone, SendingNeedsAudio
<1>9. QED
  BY <1>4, <1>5, <1>6, <1>7, <1>8 DEF PatientInv

LEMMA PatientStep ==
  ASSUME ~EarlyHangUp, Before, After, [Next]_vars PROVE PatientInv'
<1>1. CASE UNCHANGED vars
  <2>1. UNCHANGED <<rt, ses, dialog, placed, pc, leg, phone, byes>>
    BY <1>1 DEF vars
  <2>2. QED
    BY <2>1, CallsUntouched, ElsewhereKeepsPatient
<1>2. ASSUME NEW t \in Tasks, TeardownStep(t) PROVE PatientInv'
  BY <1>2, HelpersGoneKeepsPatient, ProcessGoneKeepsPatient, ByeReturnsKeepsPatient
     DEF TeardownStep
<1>3. ASSUME NEW c \in Commands, Queues(c) \/ UserStep(c) \/ StartStep(c)
      PROVE  PatientInv'
  BY <1>3, UserStepKeepsPatient, StartStepKeepsPatient
<1>4. ASSUME NEW on \in BOOLEAN, SetMicrophone(on) PROVE PatientInv'
  BY <1>4, SetMicrophoneKeepsPatient
<1>5. ASSUME NEW t \in Timers, TimerStep(t) PROVE PatientInv'
  BY <1>5, TimerStepKeepsPatient
<1>6. ASSUME NEW w \in Watchdogs, WatchdogStep(w) PROVE PatientInv'
  BY <1>6, WatchdogStepKeepsPatient
<1>7. ASSUME NEW n \in Calls, ReaderStep(n) \/ GatewayStep(n) PROVE PatientInv'
  BY <1>7, ReaderStepKeepsPatient, GatewayStepKeepsPatient
<1>8. ASSUME ViewerStep \/ FFmpegExits \/ LinkLost \/ SupervisorStep
      PROVE  PatientInv'
  BY <1>8, ViewerStepKeepsPatient, FFmpegExitsKeepsPatient, LinkLostKeepsPatient,
     SupervisorClosesKeepsPatient, SupervisorByeKeepsPatient, SipClosesKeepsPatient
     DEF SupervisorStep
<1>9. QED
  BY <1>1, <1>2, <1>3, <1>4, <1>5, <1>6, <1>7, <1>8 DEF Next

LEMMA PatientAlways == ASSUME ~EarlyHangUp PROVE Spec => []Before
<1>1. Init => Before
  BY InvInit, PatientInit DEF Before
<1>2. Before /\ [Next]_vars => Before'
  <2> SUFFICES ASSUME Before, [Next]_vars PROVE Before'
    OBVIOUS
  <2>1. After
    BY InvStep, KindStep DEF Before, After, IInv
  <2>2. PatientInv'
    BY <2>1, PatientStep
  <2>3. QED
    BY <2>1, <2>2 DEF Before, After
<1>3. QED
  BY <1>1, <1>2, PTL DEF Spec

\* At most one task is inside _teardown, and _ending is set exactly while one
\* is: no interleaving of a command, a timer, a watchdog, the BYE of the gateway
\* and the supervisor's close tears the same call down twice.
THEOREM OneTeardownAtATime ==
  ASSUME ~EarlyHangUp PROVE Spec => []TeardownExclusive
<1>1. Before => TeardownExclusive
  BY DEF Before, PatientInv
<1>2. QED
  BY <1>1, PatientAlways, PTL

\* A call has one watchdog: the one of the call before is gone when it starts,
\* for the supervising watchdog is always the runtime's monitor.
THEOREM OneWatchdogPerCall == ASSUME ~EarlyHangUp PROVE Spec => []OneWatchdog
<1>1. Before => OneWatchdog
  BY DEF Before, PatientInv, MonitorWatches, OneWatchdog
<1>2. QED
  BY <1>1, PatientAlways, PTL

\* The SIP client holds the dialog of the call the runtime has negotiated, or
\* none, and is ahead of it only while the start that was answered sends its ACK
\* (sip.py stores the dialog before the ACK, media_runtime.py the SDP after it):
\* the two objects never mean different calls.
THEOREM ClientAndRuntimeAgree ==
  ASSUME ~EarlyHangUp PROVE Spec => []DialogIsNegotiated
<1>1. Before => DialogIsNegotiated
  BY DEF Before, PatientInv
<1>2. QED
  BY <1>1, PatientAlways, PTL

\* No audio is sent to the external unit while the panel says the microphone is
\* off, at whatever await a teardown, a start or a failure is suspended.
THEOREM NeverSilentlyOn ==
  ASSUME ~EarlyHangUp PROVE Spec => []NoSilentMicrophone
<1>1. Before => NoSilentMicrophone
  BY DEF Before, PatientInv
<1>2. QED
  BY <1>1, PatientAlways, PTL

-----------------------------------------------------------------------------
(* Nothing is sent when a task starts to say BYE.                           *)

Byeing(at) == at \in {"hangingUp", "sipBye"}

\* the step makes no task begin a BYE while audio is being sent
MutedByes ==
  \A t \in Tasks : Byeing(pc'[t]) /\ pc'[t] # pc[t] => ~rt'.sending

LEMMA OthersBeginNoBye ==
  ASSUME NEW t \in Tasks, NEW m, OthersShed(t, m),
         Byeing(pc'[t]) /\ pc'[t] # pc[t] => ~rt'.sending
  PROVE  MutedByes
<1>1. \A x \in Tasks \ {t} : Byeing(pc'[x]) => pc'[x] = pc[x]
  BY DEF OthersShed, Byeing
<1>2. QED
  BY <1>1 DEF MutedByes

\* The one task that can begin a BYE of its own while another task tears the
\* call down is the supervisor; and that task has muted the call before.
LEMMA OvertakenCallIsMuted ==
  ASSUME Before, rt.ending, pc[Supervisor] = "out", HasPeer(dialog)
  PROVE  ~rt.sending
<1>1. PICK u \in Tasks : Tearing(u)
  BY DEF Before, PatientInv, TeardownExclusive
<1>2. CASE u \in Lockers
  <2>1. ~LockFree
    BY <1>1, <1>2 DEF LockFree, Lockers, Unlocked, Tearing, TeardownStages
  <2>2. QED
    BY <2>1 DEF Before, IInv, LockInv, MutedUnderLock, Quiet
<1>3. CASE u \in Watchdogs
  <2>1. ~Live(ses)
    BY <1>1, <1>3 DEF Before, PatientInv, FailureIsShown
  <2>2. ~ses.microphone
    BY <2>1 DEF Live, Before, IInv, LockInv, MicrophoneOnlyWhileStreaming
  <2>3. QED
    BY <2>2 DEF Before, PatientInv, NoSilentMicrophone
<1>4. u # Reader
  BY <1>1 DEF Before, PatientInv, ReaderHasNoDialog, HasPeer
<1>5. u # Supervisor
  BY <1>1 DEF Tearing, TeardownStages
<1>6. QED
  BY <1>2, <1>3, <1>4, <1>5 DEF Tasks, Lockers

LEMMA CallMutesByes ==
  ASSUME Before, NEW t \in Tasks, NEW j \in Jobs, JobFits(t, j),
         NEW r \in RuntimeStates, NEW s \in SessionStates, NEW d \in CallOrNone,
         NEW pcs \in {pc, TimerCancelled(pc)}, Teardown(t, j, r, s, d, pcs),
         t = Supervisor => r = rt /\ d = dialog /\ pc[t] = "out"
  PROVE  MutedByes
<1> DEFINE stage == StageOfTeardown(r, t, HasPeer(d))
           q == TornDown(r, stage)
<1>1. TypeOK /\ stage \in TeardownStages \cup {"out"} /\ q \in RuntimeStates
  BY StagesOfTeardown, TeardownTypes DEF Before, IInv
<1>2. CASE ~r.ending
  <2>1. /\ OthersShed(t, CancelledBy(t, r))
        /\ IF stage = "out"
           THEN Left(t, j, q, Ended(s), Kept(t, stage, d))
           ELSE SuspendedAt(t, j, stage, q, s, d)
    BY <1>1, <1>2, TeardownExactly
  <2>2. ~q.sending
    BY <1>1, <1>2, TornDownLeaves
  <2> HIDE DEF q, stage
  <2>3. ~rt'.sending
    BY <1>1, <2>1, <2>2, ReturnedRuntime DEF Left, SuspendedAt
  <2>4. QED
    BY <2>1, <2>3, OthersBeginNoBye
<1>3. CASE r.ending
  <2>1. OthersShed(t, None) /\ Left(t, j, r, s, d)
    BY <1>1, <1>3, TeardownExactly
  <2>2. CASE t # Supervisor
    <3>1. ~Byeing(pc'[t])
      BY <2>1, <2>2 DEF Left, Returned, ReturnedFromStart, ReturnedFromEnd,
         BeganStart, ReturnedToCaller, Byeing
    <3>2. QED
      BY <2>1, <3>1, OthersBeginNoBye
  <2>3. CASE t = Supervisor
    <3>1. j = "none"
      BY <2>3, TasksAssumption DEF JobFits, Lockers
    <3>2. Stops(t, j, TeardownReturned(t, j, r, s, d), d, pcs)
      BY <1>3 DEF Teardown
    <3>3. TeardownReturned(t, j, r, s, d) = [rt |-> r, ses |-> s, at |-> ClosingStage(d)]
      BY <2>3, <3>1, JobsAssumption DEF TeardownReturned
    <3>4. pcs \in [Tasks -> Stages]
      BY <1>1, TimersOnlyCancelled
    <3>5. pc'[t] = ClosingStage(d) /\ rt' = r
      BY <3>2, <3>3, <3>4 DEF Stops
    <3>6. Byeing(pc'[t]) => HasPeer(dialog)
      BY <2>3, <3>5 DEF ClosingStage, Byeing
    <3>7. Byeing(pc'[t]) => ~rt'.sending
      BY <1>3, <2>3, <3>5, <3>6, OvertakenCallIsMuted
    <3>8. QED
      BY <2>1, <3>7, OthersBeginNoBye
  <2>4. QED
    BY <2>2, <2>3
<1>4. QED
  BY <1>2, <1>3

LEMMA ResumeMutesByes ==
  ASSUME Before, NEW t \in Tasks, Tearing(t),
         NEW stage \in {"terminating", "hangingUp", "out"},
         NEW q \in RuntimeStates, NEW d \in CallOrNone,
         TeardownStops(t, job[t], stage, q, ses, d, pc),
         stage \in {"hangingUp", "out"} => ~q.sending
  PROVE  MutedByes
<1>1. /\ TypeOK /\ pc \in [Tasks -> Stages] /\ job[t] \in Jobs
      /\ ses \in SessionStates /\ stage \in TeardownStages \cup {"out"}
  BY DEF Before, IInv, TypeOK, TeardownStages
<1>2. /\ IF stage = "out"
         THEN Left(t, job[t], q, Ended(ses), d)
         ELSE SuspendedAt(t, job[t], stage, q, ses, d)
      /\ \A x \in Tasks \ {t} :
           pc'[x] = pc[x] \/ (pc[x] = "waiting" /\ pc'[x] = "deaf")
  <2>1. /\ IF stage = "out"
           THEN Left(t, job[t], q, Ended(ses), d)
           ELSE SuspendedAt(t, job[t], stage, q, ses, d)
        /\ \A x \in Tasks \ {t} :
             /\ job'[x] = job[x]
             /\ pc'[x] # "out" => leg'[x] = leg[x]
             /\ pc'[x] = pc[x] \/ (pc[x] = "waiting" /\ pc'[x] = "deaf")
    BY <1>1, TeardownStopsExactly
  <2>2. QED
    BY <2>1
<1>3. Byeing(pc'[t]) => ~rt'.sending
  <2>1. CASE stage = "out"
    BY <1>1, <1>2, <2>1, ReturnedRuntime DEF Left
  <2>2. CASE stage # "out"
    BY <1>2, <2>2 DEF SuspendedAt, Byeing
  <2>3. QED
    BY <2>1, <2>2
<1>4. QED
  BY <1>2, <1>3 DEF MutedByes, Byeing

LEMMA TeardownStepMutesByes ==
  ASSUME Before, NEW t \in Tasks, TeardownStep(t) PROVE MutedByes
<1>1. /\ rt \in RuntimeStates /\ dialog \in CallOrNone
  BY DEF Before, IInv, TypeOK
<1>2. CASE HelpersGone(t)
  <2> DEFINE stage == StageAfterHelpers(rt, t, HasPeer(dialog))
             q == AfterHelpers(rt, stage)
  <2>1. /\ Tearing(t)
        /\ TeardownStops(t, job[t], stage, q, ses, Kept(t, stage, dialog), pc)
    BY <1>2 DEF HelpersGone, Tearing, TeardownStages
  <2>2. /\ stage \in {"terminating", "hangingUp", "out"} /\ q \in RuntimeStates
        /\ Kept(t, stage, dialog) \in CallOrNone
    BY <1>1, TeardownTypes, KeptTypes DEF StageAfterHelpers, StageAfterProcess
  <2>3. q.sending <=> (rt.sending /\ stage = "terminating")
    BY <1>1, HelpersGoneLeave
  <2> HIDE DEF stage, q
  <2>4. QED
    BY <2>1, <2>2, <2>3, ResumeMutesByes
<1>3. CASE ProcessGone(t)
  <2> DEFINE stage == StageAfterProcess(t, HasPeer(dialog))
             q == AfterProcess(rt, stage)
  <2>1. /\ Tearing(t)
        /\ TeardownStops(t, job[t], stage, q, ses, Kept(t, stage, dialog), pc)
    BY <1>3 DEF ProcessGone, Tearing, TeardownStages
  <2>2. /\ stage \in {"terminating", "hangingUp", "out"} /\ q \in RuntimeStates
        /\ Kept(t, stage, dialog) \in CallOrNone
    BY <1>1, TeardownTypes, KeptTypes DEF StageAfterProcess
  <2>3. ~q.sending
    BY <1>1, ProcessGoneLeaves
  <2> HIDE DEF stage, q
  <2>4. QED
    BY <2>1, <2>2, <2>3, ResumeMutesByes
<1>4. CASE ByeAnswered(t) \/ ByeUnanswered(t)
  <2>1. /\ pc[t] = "hangingUp" /\ Tearing(t)
        /\ TeardownStops(t, job[t], "out", Forgotten(rt), ses, dialog, pc)
    BY <1>4 DEF ByeAnswered, ByeUnanswered, ByeReturns, Tearing, TeardownStages
  <2>2. ~rt.sending
    BY <2>1 DEF Before, PatientInv, TeardownInOrder, SendingNeedsAudio
  <2>3. Forgotten(rt) \in RuntimeStates /\ ~Forgotten(rt).sending
    BY <1>1, <2>2, RuntimeTypes DEF Forgotten, RuntimeStates
  <2>4. QED
    BY <1>1, <2>1, <2>3, ResumeMutesByes
<1>5. QED
  BY <1>2, <1>3, <1>4 DEF TeardownStep

\* A step in which every task either stays or goes to where no BYE is sent.
LEMMA NobodyBeginsBye ==
  ASSUME \A x \in Tasks : Byeing(pc'[x]) => pc'[x] = pc[x] PROVE MutedByes
BY DEF MutedByes

LEMMA EndMutesByes ==
  ASSUME Before, NEW t \in Lockers, EndLocked(t) PROVE MutedByes
<1>1. /\ TypeOK /\ t \in Tasks /\ t # Supervisor /\ "end" \in Jobs
      /\ rt \in RuntimeStates /\ ses \in SessionStates /\ dialog \in CallOrNone
  BY TasksAssumption DEF Before, IInv, TypeOK, Tasks, Lockers, Jobs
<1>2. CASE ses.state = "idle"
  <2> DEFINE o == [rt |-> rt, ses |-> NothingToEnd(ses), at |-> "out"]
  <2>1. Stops(t, "end", o, dialog, TimerCancelled(pc))
    BY <1>2 DEF EndLocked
  <2>2. o \in Outcomes
    BY <1>1, SessionTypes DEF Outcomes, Stages
  <2>3. TimerCancelled(pc) \in [Tasks -> Stages] /\ TimersOnly(TimerCancelled(pc))
    BY <1>1, TimersOnlyCancelled
  <2> HIDE DEF o
  <2>4. /\ pc'[t] = o.at
        /\ \A x \in Tasks \ {t} : pc'[x] = TimerCancelled(pc)[x]
    BY <1>1, <2>1, <2>2, <2>3, StopsExactly
  <2>5. pc'[t] = "out"
    BY <2>4 DEF o
  <2>6. QED
    BY <2>3, <2>4, <2>5, NobodyBeginsBye DEF TimersOnly, Byeing
<1>3. CASE ses.state # "idle"
  <2>1. Teardown(t, "end", Muted(rt), EndBegun(ses), dialog, TimerCancelled(pc))
    BY <1>3 DEF EndLocked
  <2>2. Muted(rt) \in RuntimeStates /\ EndBegun(ses) \in SessionStates
    BY <1>1, RuntimeTypes, SessionTypes
  <2>3. JobFits(t, "end") /\ "end" # "none"
    BY DEF JobFits
  <2>4. QED
    BY <1>1, <2>1, <2>2, <2>3, CallMutesByes
<1>4. QED
  BY <1>2, <1>3

LEMMA UserStepMutesByes ==
  ASSUME Before, NEW c \in Commands, Queues(c) \/ UserStep(c) PROVE MutedByes
<1>1. /\ TypeOK /\ c \in Tasks /\ c \in Lockers /\ c # Supervisor /\ c \notin Timers
      /\ rt \in RuntimeStates /\ ses \in SessionStates /\ dialog \in CallOrNone
      /\ pc \in [Tasks -> Stages] /\ "start" \in Jobs
  BY TasksAssumption DEF Before, IInv, TypeOK, Tasks, Lockers, Jobs
<1>2. ASSUME NEW d \in Devices, Start(c, d) PROVE MutedByes
  <2> DEFINE o == Started(rt, ses, d)
  <2>1. Stops(c, "start", o, dialog, pc) /\ o \in Outcomes
    BY <1>1, <1>2, StartedIsOutcome DEF Start
  <2>2. o.at \in {"out", "preparing"}
    BY DEF Started
  <2> HIDE DEF o
  <2>3. /\ pc'[c] = o.at
        /\ \A x \in Tasks \ {c} : pc'[x] = pc[x]
    BY <1>1, <2>1, StopsExactly
  <2>4. QED
    BY <2>2, <2>3, NobodyBeginsBye DEF Byeing
<1>3. ASSUME NEW d \in Devices, SwitchDevice(c, d) PROVE MutedByes
  <2>1. Teardown(c, d, Muted(rt), EndBegun(ses), dialog, TimerCancelled(pc))
    BY <1>3 DEF SwitchDevice
  <2>2. Muted(rt) \in RuntimeStates /\ EndBegun(ses) \in SessionStates /\ d \in Jobs
    BY <1>1, RuntimeTypes, SessionTypes DEF Jobs
  <2>3. JobFits(c, d)
    BY <1>1, JobsAssumption DEF JobFits
  <2>4. QED
    BY <1>1, <2>1, <2>2, <2>3, CallMutesByes
<1>4. ASSUME NEW d \in Devices, StartShared(c, d) PROVE MutedByes
  <2>1. pc' = [pc EXCEPT ![c] = "out"]
    BY <1>4 DEF StartShared
  <2>2. QED
    BY <1>1, <2>1, NobodyBeginsBye DEF Byeing
<1>5. CASE Queues(c)
  <2>1. pc' = [pc EXCEPT ![c] = "queued"]
    BY <1>5 DEF Queues
  <2>2. QED
    BY <1>1, <2>1, NobodyBeginsBye DEF Byeing
<1>6. QED
  BY <1>1, <1>2, <1>3, <1>4, <1>5, EndMutesByes DEF UserStep, End

LEMMA StartStepMutesByes ==
  ASSUME Before, NEW c \in Commands, StartStep(c) PROVE MutedByes
<1>1. /\ TypeOK /\ c \in Tasks /\ c # Supervisor /\ JobFits(c, "start")
      /\ rt \in RuntimeStates /\ ses \in SessionStates /\ dialog \in CallOrNone
      /\ leg[c] \in CallOrNone /\ pc \in [Tasks -> Stages] /\ "start" \in Jobs
  BY TasksAssumption DEF Before, IInv, TypeOK, Tasks, Lockers, Jobs, JobFits
<1>2. CASE PrepareFails(c)
  <2> DEFINE o == [rt |-> rt, ses |-> StartFailed(ses), at |-> "out"]
  <2>1. Stops(c, "start", o, dialog, pc)
    BY <1>2 DEF PrepareFails
  <2>2. o \in Outcomes
    BY <1>1, SessionTypes DEF Outcomes, Stages
  <2> HIDE DEF o
  <2>3. /\ pc'[c] = o.at
        /\ \A x \in Tasks \ {c} : pc'[x] = pc[x]
    BY <1>1, <2>1, <2>2, StopsExactly
  <2>4. pc'[c] = "out"
    BY <2>3 DEF o
  <2>5. QED
    BY <2>3, <2>4, NobodyBeginsBye DEF Byeing
<1>3. ASSUME NEW r \in RuntimeStates, NEW d \in CallOrNone,
             Teardown(c, "start", r, ses, d, pc)
      PROVE  MutedByes
  BY <1>1, <1>3, CallMutesByes
<1>4. CASE InviteRefused(c)
  BY <1>1, <1>3, <1>4, RuntimeTypes DEF InviteRefused
<1>5. CASE AnswerUnusable(c)
  BY <1>1, <1>3, <1>5, RuntimeTypes DEF AnswerUnusable
<1>6. CASE AckRefused(c) \/ InviteFails(c) \/ SpawnFails(c)
  BY <1>1, <1>3, <1>6 DEF AckRefused, InviteFails, SpawnFails
<1>7. CASE Invite(c) \/ InviteAnswered(c) \/ InviteAccepted(c)
  <2>1. pc' \in {[pc EXCEPT ![c] = "inviting"], [pc EXCEPT ![c] = "acknowledging"],
                 [pc EXCEPT ![c] = "spawning"]}
    BY <1>7 DEF Invite, InviteAnswered, InviteAccepted
  <2>2. QED
    BY <1>1, <2>1, NobodyBeginsBye DEF Byeing
<1>8. ASSUME NEW w \in Watchdogs, Spawn(c, w) PROVE MutedByes
  <2>1. pc' = [pc EXCEPT ![c] = "out", ![w] = "waiting"] /\ w \in Tasks
    BY <1>8 DEF Spawn, Tasks
  <2>2. QED
    BY <1>1, <2>1, NobodyBeginsBye DEF Byeing
<1>9. QED
  BY <1>2, <1>4, <1>5, <1>6, <1>7, <1>8 DEF StartStep

\* The watchdogs, the reader and the supervisor.
LEMMA OthersMuteByes ==
  ASSUME Before,
         \/ \E w \in Watchdogs : WatchdogStep(w)
         \/ \E n \in Calls : ReaderStep(n)
         \/ SupervisorStep
  PROVE  MutedByes
<1>1. /\ TypeOK /\ Reader \in Tasks /\ Supervisor \in Tasks /\ Reader # Supervisor
      /\ rt \in RuntimeStates /\ ses \in SessionStates /\ dialog \in CallOrNone
      /\ NoCall \in CallOrNone /\ pc \in [Tasks -> Stages] /\ "none" \in Jobs
      /\ JobFits(Reader, "none") /\ JobFits(Supervisor, "none")
  BY TasksAssumption, NoCallTypes
     DEF Before, IInv, TypeOK, Tasks, Lockers, Jobs, JobFits
<1>2. ASSUME NEW w \in Watchdogs, FirstVideo(w) PROVE MutedByes
  <2>1. pc' = [pc EXCEPT ![w] = "watching"] /\ w \in Tasks
    BY <1>2 DEF FirstVideo, Tasks
  <2>2. QED
    BY <1>1, <2>1, NobodyBeginsBye DEF Byeing
<1>3. ASSUME NEW w \in Watchdogs, WatchdogFails(w) PROVE MutedByes
  <2>1. Teardown(w, "none", rt, Delivered(ses, RuntimeError(ses)), dialog, pc)
    BY <1>3 DEF WatchdogFails
  <2>2. Delivered(ses, RuntimeError(ses)) \in SessionStates
    BY <1>1, SessionTypes DEF Delivered
  <2>3. w \in Tasks /\ w # Supervisor /\ JobFits(w, "none")
    BY TasksAssumption DEF Tasks, JobFits, Lockers
  <2>4. QED
    BY <1>1, <2>1, <2>2, <2>3, CallMutesByes
<1>4. ASSUME NEW n \in Calls, RemoteEnded(n) PROVE MutedByes
  <2>1. Teardown(Reader, "none", rt, ses, NoCall, pc)
    BY <1>4 DEF RemoteEnded
  <2>2. QED
    BY <1>1, <2>1, CallMutesByes
<1>5. ASSUME NEW n \in Calls, ReadAnswer(n) \/ ByeIgnored(n) PROVE MutedByes
  BY <1>5, NobodyBeginsBye DEF ReadAnswer, ByeIgnored
<1>6. CASE SupervisorCloses
  <2>1. pc[Supervisor] = "out" /\ Teardown(Supervisor, "none", rt, ses, dialog, pc)
    BY <1>6 DEF SupervisorCloses
  <2>2. QED
    BY <1>1, <2>1, CallMutesByes
<1>7. CASE SupervisorByeReturns
  <2>1. pc' = [pc EXCEPT ![Supervisor] = "closing"]
    BY <1>7 DEF SupervisorByeReturns
  <2>2. QED
    BY <1>1, <2>1, NobodyBeginsBye DEF Byeing
<1>8. CASE SipCloses
  <2>1. pc' = [pc EXCEPT ![Supervisor] = "closed", ![Reader] = "out"]
    BY <1>8 DEF SipCloses
  <2>2. QED
    BY <1>1, <2>1, NobodyBeginsBye DEF Byeing
<1>9. QED
  BY <1>2, <1>3, <1>4, <1>5, <1>6, <1>7, <1>8
     DEF WatchdogStep, ReaderStep, SupervisorStep

LEMMA StepMutesByes == ASSUME Before, [Next]_vars PROVE MutedByes
<1>1. TypeOK /\ pc \in [Tasks -> Stages]
  BY DEF Before, IInv, TypeOK
<1>2. CASE ViewerJoins
  <2>1. pc' = TimerCancelled(pc)
    BY <1>2 DEF ViewerJoins
  <2>2. QED
    BY <1>1, <2>1, TimersOnlyCancelled, NobodyBeginsBye DEF TimersOnly, Byeing
<1>3. ASSUME NEW t \in Timers, ViewerLeaves(t) \/ TimerFires(t) PROVE MutedByes
  <2>1. pc' \in {pc, [pc EXCEPT ![t] = "armed"], [pc EXCEPT ![t] = "fired"]}
    BY <1>3 DEF ViewerLeaves, TimerFires
  <2>2. QED
    BY <1>1, <2>1, NobodyBeginsBye DEF Byeing
<1>4. ASSUME NEW t \in Timers, TimerEnds(t) PROVE MutedByes
  BY <1>4, EndMutesByes DEF TimerEnds, Lockers
<1>5. ASSUME pc' = pc PROVE MutedByes
  BY <1>5, NobodyBeginsBye
<1>6. CASE \/ ViewerGivesUp \/ FFmpegExits \/ LinkLost \/ UNCHANGED vars
           \/ \E on \in BOOLEAN : SetMicrophone(on)
           \/ \E n \in Calls : GatewayStep(n)
  BY <1>5, <1>6 DEF ViewerGivesUp, FFmpegExits, LinkLost, vars, SetMicrophone,
     GatewayStep, GatewayPicksUp, GatewayHangsUp
<1>7. CASE \/ \E w \in Watchdogs : WatchdogStep(w)
           \/ \E n \in Calls : ReaderStep(n)
           \/ SupervisorStep
  BY <1>7, OthersMuteByes
<1>8. QED
  BY <1>2, <1>3, <1>4, <1>6, <1>7, TeardownStepMutesByes, UserStepMutesByes,
     StartStepMutesByes DEF Next, ViewerStep, TimerStep

\* A task that starts to say BYE has silenced the microphone before: what is
\* said after one has hung up is never sent, whoever hangs up.
THEOREM MutedBeforeBye == ASSUME ~EarlyHangUp PROVE Spec => MutedAtBye
<1>1. Before /\ [Next]_vars
        => [\A t \in Tasks : pc'[t] \in {"hangingUp", "sipBye"} /\ pc'[t] # pc[t]
              => ~rt'.sending]_vars
  BY StepMutesByes DEF MutedByes, Byeing
<1>2. QED
  BY <1>1, PatientAlways, PTL DEF Spec, MutedAtBye

=============================================================================
