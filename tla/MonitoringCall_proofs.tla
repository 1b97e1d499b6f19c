----------------------- MODULE MonitoringCall_proofs -----------------------
(***************************************************************************)
(* Theorems about MonitoringCall, for any number of commands, timers,       *)
(* watchdogs, devices and calls.                                            *)
(***************************************************************************)
EXTENDS MonitoringCall, TLAPS

(* What a stretch of code leaves behind for Stops. *)
Outcomes == [rt : RuntimeStates, ses : SessionStates, at : Stages]

LEMMA NoCallTypes == NoCall \in CallOrNone /\ \A n \in Calls : n \in CallOrNone
BY TasksAssumption DEF NoCall, CallOrNone, Calls

\* Every operation of the runtime yields a runtime state.
LEMMA RuntimeTypes ==
  ASSUME NEW r \in RuntimeStates
  PROVE  /\ Muted(r) \in RuntimeStates
         /\ Preparing(r) \in RuntimeStates
         /\ AudioBound(r) \in RuntimeStates
         /\ \A n \in CallOrNone : Negotiated(r, n) \in RuntimeStates
         /\ \A n \in CallOrNone, w \in Watchdogs : Spawned(r, n, w) \in RuntimeStates
         /\ \A on \in BOOLEAN : WithMicrophone(r, on) \in RuntimeStates
         /\ Ending(r) \in RuntimeStates
         /\ ProcessTaken(r) \in RuntimeStates
         /\ AudioClosed(r) \in RuntimeStates
         /\ Forgotten(r) \in RuntimeStates
<1> USE NoCallTypes DEF RuntimeStates
<1>1. \A on \in BOOLEAN : WithMicrophone(r, on) \in RuntimeStates
  BY DEF WithMicrophone
<1>2. Muted(r) \in RuntimeStates
  BY <1>1 DEF Muted
<1>3. Preparing(r) \in RuntimeStates
  BY DEF Preparing
<1>4. AudioBound(r) \in RuntimeStates
  BY DEF AudioBound
<1>5. \A n \in CallOrNone : Negotiated(r, n) \in RuntimeStates
  BY DEF Negotiated
<1>6. \A n \in CallOrNone, w \in Watchdogs : Spawned(r, n, w) \in RuntimeStates
  BY DEF Spawned
<1>7. Ending(r) \in RuntimeStates
  BY <1>2 DEF Ending
<1>8. ProcessTaken(r) \in RuntimeStates
  BY DEF ProcessTaken
<1>9. AudioClosed(r) \in RuntimeStates
  BY DEF AudioClosed
<1>10. Forgotten(r) \in RuntimeStates
  BY DEF Forgotten
<1>11. QED
  BY <1>1, <1>2, <1>3, <1>4, <1>5, <1>6, <1>7, <1>8, <1>9, <1>10

\* So does every stretch of a teardown.
LEMMA TeardownTypes ==
  ASSUME NEW r \in RuntimeStates, NEW stage
  PROVE  /\ AfterProcess(r, stage) \in RuntimeStates
         /\ AfterHelpers(r, stage) \in RuntimeStates
         /\ TornDown(r, stage) \in RuntimeStates
<1>1. \A q \in RuntimeStates : AfterProcess(q, stage) \in RuntimeStates
  BY RuntimeTypes DEF AfterProcess
<1>2. \A q \in RuntimeStates : AfterHelpers(q, stage) \in RuntimeStates
  BY <1>1, RuntimeTypes DEF AfterHelpers
<1>3. TornDown(r, stage) \in RuntimeStates
  <2>1. CASE r.ending
    BY <2>1 DEF TornDown
  <2>2. CASE ~r.ending /\ stage = "cancelling"
    BY <2>2, RuntimeTypes DEF TornDown
  <2>3. CASE ~r.ending /\ stage # "cancelling"
    BY <2>3, <1>2, RuntimeTypes DEF TornDown
  <2>4. QED
    BY <2>1, <2>2, <2>3
<1>4. QED
  BY <1>1, <1>2, <1>3

\* Every operation of the session yields a session state.
LEMMA SessionTypes ==
  ASSUME NEW s \in SessionStates
  PROVE  /\ \A d \in Devices : Connecting(s, d) \in SessionStates
         /\ StartFailed(s) \in SessionStates
         /\ NothingToEnd(s) \in SessionStates
         /\ EndBegun(s) \in SessionStates
         /\ EndFinished(s) \in SessionStates
         /\ StreamsRunning(s) \in SessionStates
         /\ RuntimeError(s) \in SessionStates
         /\ CallEnded(s) \in SessionStates
BY DEF SessionStates, Connecting, StartFailed, NothingToEnd, EndBegun,
       EndFinished, StreamsRunning, RuntimeError, CallEnded, CleanupCancelled

-----------------------------------------------------------------------------
(* How a task comes to rest.                                                *)

ControlTypes ==
  /\ rt \in RuntimeStates
  /\ ses \in SessionStates
  /\ dialog \in CallOrNone
  /\ pc \in [Tasks -> Stages]
  /\ job \in [Tasks -> Jobs]
  /\ leg \in [Tasks -> CallOrNone]

\* a task is left where it was, is cancelled, or loses the event it waits on
Shed(x, before, after) ==
  \/ after = before
  \/ after = "out" /\ (x \in Watchdogs \/ before = "armed")
  \/ after = "deaf" /\ before = "waiting"

OthersFrom(t, pcs) ==
  \A x \in Tasks \ {t} : job'[x] = job[x] /\ Shed(x, pcs[x], pc'[x])

Suspended(t, j, q, s) ==
  /\ pc'[t] \in TeardownStages
  /\ job'[t] = j /\ rt' = q /\ ses' = s

ReturnedFromStart(t, q, s) ==
  /\ pc'[t] = "out" /\ job'[t] = "none"
  /\ rt' = q /\ ses' = StartFailed(s)

ReturnedFromEnd(t, q, s) ==
  /\ pc'[t] = "out" /\ job'[t] = "none"
  /\ rt' = q /\ ses' = EndFinished(s)

BeganStart(t, q, s, d) ==
  \/ /\ AlreadyActive(Muted(q))
     /\ pc'[t] = "out" /\ job'[t] = "none"
     /\ rt' = Muted(q) /\ ses' = StartFailed(Connecting(s, d))
  \/ /\ ~AlreadyActive(Muted(q))
     /\ pc'[t] = "preparing" /\ job'[t] = "start"
     /\ rt' = Preparing(Muted(q)) /\ ses' = Connecting(s, d)

ReturnedToCaller(t, q, s) ==
  /\ pc'[t] \in {"out", "sipBye", "closing"}
  /\ pc'[t] = "out" <=> t # Supervisor
  /\ job'[t] = "none" /\ rt' = q /\ ses' = s

Returned(t, j, q, s) ==
  \/ j = "start" /\ ReturnedFromStart(t, q, s)
  \/ j = "end" /\ ReturnedFromEnd(t, q, s)
  \/ j \in Devices /\ BeganStart(t, q, EndFinished(s), j)
  \/ j = "none" /\ ReturnedToCaller(t, q, s)

Rested(t, j, q, s) ==
  \/ Suspended(t, j, q, s)
  \/ Returned(t, j, q, s)
  \/ Returned(t, j, q, CallEnded(s))

\* Stops ends in the outcome it is given and disturbs no other task.
LEMMA StopsRests ==
  ASSUME TypeOK,
         NEW t \in Tasks, NEW j \in Jobs, NEW o \in Outcomes,
         NEW d \in CallOrNone, NEW pcs \in [Tasks -> Stages],
         Stops(t, j, o, d, pcs)
  PROVE  /\ ControlTypes'
         /\ \A x \in Tasks \ {t} : job'[x] = job[x] /\ pc'[x] = pcs[x]
         /\ pc'[t] = o.at /\ job'[t] = JobAt(j, o.at)
         /\ rt' = o.rt /\ ses' = o.ses
<1>1. rt' \in RuntimeStates /\ ses' \in SessionStates /\ o.at \in Stages
  BY DEF Stops, Outcomes
<1>2. pc' \in [Tasks -> Stages]
  BY <1>1 DEF Stops
<1>3. JobAt(j, o.at) \in Jobs
  BY DEF JobAt, Jobs
<1>4. job' \in [Tasks -> Jobs]
  BY <1>3 DEF Stops, TypeOK
<1>5. dialog' \in CallOrNone
  BY NoCallTypes DEF Stops
<1>6. leg' \in [Tasks -> CallOrNone]
  BY NoCallTypes DEF Stops, TypeOK
<1>7. \A x \in Tasks \ {t} : job'[x] = job[x] /\ pc'[x] = pcs[x]
  BY DEF Stops, TypeOK
<1>8. pc'[t] = o.at /\ job'[t] = JobAt(j, o.at)
  BY DEF Stops, TypeOK
<1>9. QED
  BY <1>1, <1>2, <1>4, <1>5, <1>6, <1>7, <1>8 DEF Stops, ControlTypes

\* Starting on a runtime yields an outcome.
LEMMA StartedIsOutcome ==
  ASSUME NEW r \in RuntimeStates, NEW s \in SessionStates, NEW d \in Devices
  PROVE  Started(r, s, d) \in Outcomes
<1>1. {"out", "preparing"} \subseteq Stages
  BY DEF Stages
<1>2. QED
  BY <1>1, RuntimeTypes, SessionTypes DEF Started, Outcomes

LEMMA ReturnIsOutcome ==
  ASSUME NEW t, NEW j \in Jobs, NEW r \in RuntimeStates,
         NEW s \in SessionStates, NEW d
  PROVE  TeardownReturned(t, j, r, s, d) \in Outcomes
<1>1. {"out", "sipBye", "closing"} \subseteq Stages
  BY DEF Stages
<1>2. CASE j = "start"
  BY <1>1, <1>2, JobsAssumption, SessionTypes DEF TeardownReturned, Outcomes
<1>3. CASE j = "end"
  BY <1>1, <1>3, JobsAssumption, SessionTypes DEF TeardownReturned, Outcomes
<1>4. CASE j \in Devices
  BY <1>4, JobsAssumption, SessionTypes, StartedIsOutcome DEF TeardownReturned
<1>5. CASE j = "none"
  BY <1>1, <1>5, JobsAssumption DEF TeardownReturned, Outcomes, ClosingStage
<1>6. QED
  BY <1>2, <1>3, <1>4, <1>5 DEF Jobs

\* Where a task stands when it has returned from a teardown.
LEMMA ReturnRests ==
  ASSUME TypeOK,
         NEW t \in Tasks, NEW j \in Jobs, NEW q \in RuntimeStates,
         NEW s \in SessionStates, NEW e, NEW d \in CallOrNone,
         NEW pcs \in [Tasks -> Stages],
         Stops(t, j, TeardownReturned(t, j, q, s, e), d, pcs)
  PROVE  /\ ControlTypes'
         /\ \A x \in Tasks \ {t} : job'[x] = job[x] /\ pc'[x] = pcs[x]
         /\ Returned(t, j, q, s)
<1> DEFINE o == TeardownReturned(t, j, q, s, e)
<1>1. o \in Outcomes
  BY ReturnIsOutcome
<1>2. /\ ControlTypes'
      /\ \A x \in Tasks \ {t} : job'[x] = job[x] /\ pc'[x] = pcs[x]
      /\ pc'[t] = o.at /\ job'[t] = JobAt(j, o.at)
      /\ rt' = o.rt /\ ses' = o.ses
  BY <1>1, StopsRests
<1>3. CASE j = "start"
  <2>1. o = [rt |-> q, ses |-> StartFailed(s), at |-> "out"]
    BY <1>3, JobsAssumption DEF TeardownReturned
  <2>2. QED
    BY <1>2, <1>3, <2>1 DEF JobAt, Returned, ReturnedFromStart
<1>4. CASE j = "end"
  <2>1. o = [rt |-> q, ses |-> EndFinished(s), at |-> "out"]
    BY <1>4, JobsAssumption DEF TeardownReturned
  <2>2. QED
    BY <1>2, <1>4, <2>1 DEF JobAt, Returned, ReturnedFromEnd
<1>5. CASE j \in Devices
  <2>1. o = Started(q, EndFinished(s), j)
    BY <1>5, JobsAssumption DEF TeardownReturned
  <2>2. BeganStart(t, q, EndFinished(s), j)
    BY <1>2, <2>1 DEF Started, BeganStart, JobAt
  <2>3. QED
    BY <1>2, <1>5, <2>2 DEF Returned
<1>6. CASE j = "none"
  <2>1. o = [rt |-> q, ses |-> s,
             at |-> IF t = Supervisor THEN ClosingStage(e) ELSE "out"]
    BY <1>6, JobsAssumption DEF TeardownReturned
  <2>2. ReturnedToCaller(t, q, s)
    BY <1>2, <1>6, <2>1 DEF JobAt, ReturnedToCaller, ClosingStage
  <2>3. QED
    BY <1>2, <1>6, <2>2 DEF Returned
<1>7. QED
  BY <1>3, <1>4, <1>5, <1>6 DEF Jobs

\* A stretch of a teardown suspends again or returns to its caller.
LEMMA TeardownStopsRests ==
  ASSUME TypeOK,
         NEW t \in Tasks, NEW j \in Jobs, NEW q \in RuntimeStates,
         NEW s \in SessionStates, NEW d \in CallOrNone,
         NEW stage \in TeardownStages \cup {"out"},
         NEW pcs \in [Tasks -> Stages],
         TeardownStops(t, j, stage, q, s, d, pcs)
  PROVE  /\ ControlTypes'
         /\ OthersFrom(t, pcs)
         /\ Rested(t, j, q, s)
<1>1. CASE stage = "out"
  <2> DEFINE s1 == Delivered(s, CallEnded(s))
             quiet == Deafened(pcs)
  <2>1. s1 \in SessionStates /\ s1 \in {s, CallEnded(s)}
    BY SessionTypes DEF Delivered
  <2>2. quiet \in [Tasks -> Stages]
    BY DEF Deafened, Stages
  <2>3. Stops(t, j, TeardownReturned(t, j, q, s1, d), d, quiet)
    BY <1>1 DEF TeardownStops
  <2> HIDE DEF s1, quiet
  <2>4. /\ ControlTypes'
        /\ \A x \in Tasks \ {t} : job'[x] = job[x] /\ pc'[x] = quiet[x]
        /\ Returned(t, j, q, s1)
    BY <2>1, <2>2, <2>3, ReturnRests
  <2>5. \A x \in Tasks : Shed(x, pcs[x], quiet[x])
    BY DEF quiet, Deafened, Shed
  <2>6. QED
    BY <2>1, <2>4, <2>5 DEF OthersFrom, Rested
<1>2. CASE stage # "out"
  <2> DEFINE o == [rt |-> q, ses |-> s, at |-> stage]
  <2>1. o \in Outcomes
    BY <1>2 DEF Outcomes, Stages
  <2>2. Stops(t, j, o, d, pcs)
    BY <1>2 DEF TeardownStops
  <2>3. /\ ControlTypes'
        /\ \A x \in Tasks \ {t} : job'[x] = job[x] /\ pc'[x] = pcs[x]
        /\ pc'[t] = o.at /\ job'[t] = JobAt(j, o.at)
        /\ rt' = o.rt /\ ses' = o.ses
    BY <2>1, <2>2, StopsRests
  <2>4. Suspended(t, j, q, s)
    BY <1>2, <2>3 DEF Suspended, JobAt, TeardownStages
  <2>5. QED
    BY <2>3, <2>4 DEF OthersFrom, Shed, Rested
<1>3. QED
  BY <1>1, <1>2

\* The stages a teardown can stop at.
LEMMA StagesOfTeardown ==
  ASSUME NEW r, NEW t, NEW hasPeer
  PROVE  /\ StageAfterProcess(t, hasPeer) \in TeardownStages \cup {"out"}
         /\ StageAfterHelpers(r, t, hasPeer) \in TeardownStages \cup {"out"}
         /\ StageOfTeardown(r, t, hasPeer) \in TeardownStages \cup {"out"}
BY DEF StageAfterProcess, StageAfterHelpers, StageOfTeardown, TeardownStages

LEMMA KeptTypes ==
  ASSUME NEW t, NEW stage, NEW d \in CallOrNone
  PROVE  Kept(t, stage, d) \in CallOrNone
BY NoCallTypes DEF Kept

\* A task that calls _teardown: q is what the call itself does to the runtime.
LEMMA TeardownRests ==
  ASSUME TypeOK,
         NEW t \in Tasks, NEW j \in Jobs, NEW r \in RuntimeStates,
         NEW s \in SessionStates, NEW d \in CallOrNone,
         NEW pcs \in [Tasks -> Stages],
         Teardown(t, j, r, s, d, pcs)
  PROVE  LET q == TornDown(r, StageOfTeardown(r, t, HasPeer(d)))
         IN /\ ControlTypes'
            /\ OthersFrom(t, pcs)
            /\ Rested(t, j, q, s)
<1> DEFINE stage == StageOfTeardown(r, t, HasPeer(d))
           q == TornDown(r, stage)
<1>1. CASE r.ending
  <2>1. q = r
    BY <1>1 DEF TornDown
  <2>2. Stops(t, j, TeardownReturned(t, j, r, s, d), d, pcs)
    BY <1>1 DEF Teardown
  <2>3. /\ ControlTypes'
        /\ \A x \in Tasks \ {t} : job'[x] = job[x] /\ pc'[x] = pcs[x]
        /\ Returned(t, j, r, s)
    BY <2>2, ReturnRests
  <2>4. QED
    BY <2>1, <2>3 DEF OthersFrom, Shed, Rested
<1>2. CASE ~r.ending
  <2> DEFINE left == MonitorCancelled(pcs, t, r)
  <2>1. TeardownStops(t, j, stage, q, s, Kept(t, stage, d), left)
    BY <1>2 DEF Teardown
  <2>2. left \in [Tasks -> Stages]
    BY DEF MonitorCancelled, Stages
  <2>3. \A x \in Tasks : left[x] = pcs[x] \/ (left[x] = "out" /\ x \in Watchdogs)
    BY TasksAssumption DEF MonitorCancelled, RuntimeStates
  <2>4. q \in RuntimeStates /\ Kept(t, stage, d) \in CallOrNone
    BY TeardownTypes, KeptTypes
  <2>5. stage \in TeardownStages \cup {"out"}
    BY StagesOfTeardown
  <2> HIDE DEF left, q, stage
  <2>6. /\ ControlTypes'
        /\ OthersFrom(t, left)
        /\ Rested(t, j, q, s)
    BY <2>1, <2>2, <2>4, <2>5, TeardownStopsRests
  <2>7. OthersFrom(t, pcs)
    BY <2>3, <2>6 DEF OthersFrom, Shed
  <2>8. QED
    BY <2>6, <2>7 DEF q, stage
<1>3. QED
  BY <1>1, <1>2

-----------------------------------------------------------------------------
(* The invariant of the session lock.                                       *)

Lockers == Commands \cup Timers

LockHeld(t) == pc[t] \notin Unlocked

\* t is about to place a call, now or when it has ended the one before
WillPlace(t) ==
  pc[t] = "preparing" \/ (pc[t] \in TeardownStages /\ job[t] \in Devices)

\* t will report the end or the failure of what it is doing to the session
WillReport(t) == pc[t] \in TeardownStages /\ job[t] # "none"

Quiet(r) == ~r.microphone /\ ~r.sending

LockExclusive == \A t, u \in Lockers : LockHeld(t) /\ LockHeld(u) => t = u

RoomForCall == \A t \in Lockers : WillPlace(t) => placed < MaxCalls

MutedUnderLock == ~LockFree => Quiet(rt)

EndingIsReported == ses.state = "ending" => \E t \in Lockers : WillReport(t)

LockInv ==
  /\ LockExclusive
  /\ RoomForCall
  /\ MutedUnderLock
  /\ EndingIsReported
  /\ MicrophoneOnlyWhileStreaming

IInv == TypeOK /\ LockInv

LEMMA InvInit == Init => IInv
<1> SUFFICES ASSUME Init PROVE IInv
  OBVIOUS
<1>1. rt \in RuntimeStates /\ Quiet(rt)
  BY NoCallTypes DEF Init, NewRuntime, RuntimeStates, Quiet
<1>2. ses \in SessionStates /\ MicrophoneOnlyWhileStreaming /\ ses.state # "ending"
  BY SessionAssumption DEF Init, NewSession, SessionStates, MicrophoneOnlyWhileStreaming
<1>3. TypeOK
  BY <1>1, <1>2, NoCallTypes, SessionAssumption
     DEF Init, TypeOK, Stages, Jobs, NoCall
<1>4. \A t \in Tasks : pc[t] = "out"
  BY DEF Init
<1>5. LockExclusive /\ RoomForCall
  BY <1>4 DEF LockExclusive, RoomForCall, LockHeld, WillPlace, Lockers, Tasks,
              TeardownStages, Unlocked
<1>6. QED
  BY <1>1, <1>2, <1>3, <1>5 DEF IInv, LockInv, MutedUnderLock, EndingIsReported

\* Nothing but WithMicrophone switches a microphone on.
LEMMA StaysQuiet ==
  ASSUME NEW r \in RuntimeStates, Quiet(r)
  PROVE  /\ Quiet(Muted(r))
         /\ Quiet(Preparing(r))
         /\ Quiet(Forgotten(r))
         /\ Quiet(AudioBound(r))
         /\ \A n \in CallOrNone : Quiet(Negotiated(r, n))
         /\ \A stage : /\ Quiet(AfterProcess(r, stage))
                       /\ Quiet(AfterHelpers(r, stage))
                       /\ Quiet(TornDown(r, stage))
<1>1. \A q \in RuntimeStates : Quiet(q) =>
        /\ Quiet(Muted(q))
        /\ Quiet(Ending(q))
        /\ Quiet(Preparing(q))
        /\ Quiet(Forgotten(q))
        /\ Quiet(AudioBound(q))
        /\ Quiet(AudioClosed(q))
        /\ Quiet(ProcessTaken(q))
        /\ \A n \in CallOrNone : Quiet(Negotiated(q, n))
  BY DEF Quiet, RuntimeStates, Muted, WithMicrophone, Preparing, Forgotten,
         AudioBound, AudioClosed, ProcessTaken, Ending, Negotiated
<1>2. \A stage : \A q \in RuntimeStates : Quiet(q) => Quiet(AfterProcess(q, stage))
  BY <1>1, RuntimeTypes DEF AfterProcess
<1>3. \A stage : \A q \in RuntimeStates : Quiet(q) => Quiet(AfterHelpers(q, stage))
  BY <1>1, <1>2, RuntimeTypes DEF AfterHelpers
<1>4. \A stage : Quiet(TornDown(r, stage))
  BY <1>1, <1>3, RuntimeTypes DEF TornDown
<1>5. QED
  BY <1>1, <1>2, <1>3, <1>4

LEMMA MutedIsQuiet ==
  ASSUME NEW r \in RuntimeStates
  PROVE  Quiet(Muted(r))
BY DEF Quiet, Muted, WithMicrophone, RuntimeStates

\* A task that came to rest, having left runtime q and session s, keeps LockInv.
LEMMA RestKeepsLock ==
  ASSUME IInv,
         NEW t \in Tasks, NEW j \in Jobs, NEW q \in RuntimeStates,
         NEW s \in SessionStates,
         OthersFrom(t, pc), Rested(t, j, q, s), placed' = placed,
         ControlTypes',
         t \in Lockers => LockHeld(t) \/ LockFree,
         t \in Lockers /\ j \in Devices => placed < MaxCalls,
         t \in Lockers \/ Quiet(rt) => Quiet(q),
         s.microphone => s.state = "streaming",
         s.state = "ending" =>
           \/ t \in Lockers /\ j # "none"
           \/ \E u \in Lockers \ {t} : WillReport(u)
  PROVE  LockInv'
<1> USE DEF Lockers
<1>1. \A u \in Lockers \ {t} : /\ LockHeld(u)' => LockHeld(u)
                               /\ WillPlace(u)' => WillPlace(u)
                               /\ WillReport(u) => WillReport(u)'
  <2> SUFFICES ASSUME NEW u \in Lockers \ {t}
               PROVE  /\ LockHeld(u)' => LockHeld(u)
                      /\ WillPlace(u)' => WillPlace(u)
                      /\ WillReport(u) => WillReport(u)'
    OBVIOUS
  <2>1. u \in Tasks /\ u \notin Watchdogs
    BY TasksAssumption DEF Tasks
  <2>2. job'[u] = job[u] /\ Shed(u, pc[u], pc'[u])
    BY <2>1 DEF OthersFrom
  <2>3. QED
    BY <2>1, <2>2 DEF Shed, LockHeld, WillPlace, WillReport, TeardownStages, Unlocked
<1>2. LockExclusive'
  <2>1. LockExclusive /\ (t \in Lockers /\ LockFree => \A u \in Lockers : ~LockHeld(u))
    BY DEF IInv, LockInv, LockFree, LockHeld, Unlocked
  <2>2. QED
    BY <1>1, <2>1 DEF LockExclusive
<1>3. RoomForCall'
  <2>1. ASSUME t \in Lockers, WillPlace(t)' PROVE placed < MaxCalls
    BY <2>1, JobsAssumption
       DEF WillPlace, Rested, Suspended, Returned, ReturnedFromStart,
           ReturnedFromEnd, BeganStart, ReturnedToCaller, TeardownStages
  <2>2. QED
    BY <1>1, <2>1 DEF RoomForCall, IInv, LockInv
<1>4. Quiet(rt) \/ t \in Lockers => Quiet(rt')
  <2>1. Quiet(q) => Quiet(Muted(q)) /\ Quiet(Preparing(Muted(q)))
    BY StaysQuiet, RuntimeTypes
  <2>2. QED
    BY <2>1 DEF Rested, Suspended, Returned, ReturnedFromStart,
                ReturnedFromEnd, BeganStart, ReturnedToCaller
<1>5. MutedUnderLock'
  <2>1. ASSUME ~LockFree', t \notin Lockers PROVE ~LockFree
    BY <1>1, <2>1 DEF LockFree, LockHeld, Unlocked
  <2>2. QED
    BY <1>4, <2>1 DEF MutedUnderLock, IInv, LockInv
<1>6. EndingIsReported'
  <2>1. ASSUME ses'.state = "ending", j # "none"
        PROVE  s.state = "ending" /\ Suspended(t, j, q, s)
    BY <2>1 DEF Rested, Suspended, Returned, ReturnedFromStart, CallEnded,
           ReturnedFromEnd, BeganStart, StartFailed, EndFinished, Connecting,
           SessionStates
  <2>2. ASSUME ses'.state = "ending", j = "none"
        PROVE  s.state = "ending"
    BY <2>2, JobsAssumption
       DEF Rested, Suspended, Returned, CallEnded, ReturnedToCaller,
           EndFinished, SessionStates
  <2>3. QED
    BY <1>1, <2>1, <2>2 DEF EndingIsReported, Suspended, WillReport
<1>7. MicrophoneOnlyWhileStreaming'
  BY DEF MicrophoneOnlyWhileStreaming, Rested, Suspended, Returned,
         ReturnedFromStart, ReturnedFromEnd, BeganStart, ReturnedToCaller,
         StartFailed, EndFinished, Connecting, CallEnded, SessionStates
<1>8. QED
  BY <1>2, <1>3, <1>5, <1>6, <1>7 DEF LockInv

-----------------------------------------------------------------------------
(* Every action keeps the invariant.                                        *)

OutsideTypes ==
  /\ link \in {"up", "lost", "closed"}
  /\ placed \in CallOrNone
  /\ phone \in [Calls -> {"none", "ringing", "up", "down"}]
  /\ answered \subseteq Calls
  /\ byes \subseteq Calls
  /\ answering \in 0 .. MaxViewers

LEMMA TypesSplit == TypeOK <=> ControlTypes /\ OutsideTypes
BY DEF TypeOK, ControlTypes, OutsideTypes

LEMMA OutsideKept ==
  ASSUME IInv, ControlTypes', LockInv', UNCHANGED outsideVars
  PROVE  IInv'
BY TypesSplit DEF IInv, outsideVars, OutsideTypes, TypeOK, ControlTypes

\* A cancelled clean-up timer is all that TimerCancelled changes.
LEMMA TimersShed ==
  ASSUME TypeOK
  PROVE  /\ TimerCancelled(pc) \in [Tasks -> Stages]
         /\ \A t \in Tasks : OthersFrom(t, TimerCancelled(pc)) => OthersFrom(t, pc)
<1>1. TimerCancelled(pc) \in [Tasks -> Stages]
  BY DEF TimerCancelled, Stages, TypeOK
<1>2. \A x \in Tasks : \/ TimerCancelled(pc)[x] = pc[x]
                       \/ pc[x] = "armed" /\ TimerCancelled(pc)[x] = "out"
  BY DEF TimerCancelled
<1>3. QED
  BY <1>1, <1>2 DEF OthersFrom, Shed

\* A task inside a teardown goes on.
LEMMA ResumeKeeps ==
  ASSUME IInv,
         NEW t \in Tasks, pc[t] \in TeardownStages,
         NEW stage \in TeardownStages \cup {"out"},
         NEW q \in RuntimeStates, Quiet(rt) => Quiet(q),
         NEW d \in CallOrNone,
         TeardownStops(t, job[t], stage, q, ses, d, pc),
         placed' = placed
  PROVE  ControlTypes' /\ LockInv'
<1>1. /\ job[t] \in Jobs /\ ses \in SessionStates
      /\ pc \in [Tasks -> Stages] /\ TypeOK
  BY DEF IInv, TypeOK
<1>2. /\ ControlTypes' /\ OthersFrom(t, pc)
      /\ Rested(t, job[t], q, ses)
  BY <1>1, TeardownStopsRests
<1>3. t \in Lockers => LockHeld(t) /\ ~LockFree
  BY DEF LockHeld, LockFree, TeardownStages, Lockers, Unlocked
<1>4. t \in Lockers /\ job[t] \in Devices => placed < MaxCalls
  BY DEF IInv, LockInv, RoomForCall, WillPlace
<1>5. t \in Lockers \/ Quiet(rt) => Quiet(q)
  BY <1>3 DEF IInv, LockInv, MutedUnderLock
<1>6. ses.microphone => ses.state = "streaming"
  BY DEF IInv, LockInv, MicrophoneOnlyWhileStreaming
<1>7. ses.state = "ending" =>
        \/ t \in Lockers /\ job[t] # "none"
        \/ \E u \in Lockers \ {t} : WillReport(u)
  BY DEF IInv, LockInv, EndingIsReported, WillReport
<1>8. QED
  BY <1>1, <1>2, <1>3, <1>4, <1>5, <1>6, <1>7, RestKeepsLock

\* A task that calls _teardown, from session s and with the timers in pcs.
LEMMA TeardownKeeps ==
  ASSUME IInv,
         NEW t \in Tasks, NEW j \in Jobs, NEW r \in RuntimeStates,
         NEW s \in SessionStates, NEW d \in CallOrNone,
         NEW pcs \in {pc, TimerCancelled(pc)},
         Teardown(t, j, r, s, d, pcs),
         placed' = placed,
         t \in Lockers => LockHeld(t) \/ LockFree,
         t \in Lockers /\ j \in Devices => placed < MaxCalls,
         t \in Lockers \/ Quiet(rt) => Quiet(r),
         s.microphone => s.state = "streaming",
         s.state = "ending" =>
           \/ t \in Lockers /\ j # "none"
           \/ \E u \in Lockers \ {t} : WillReport(u)
  PROVE  ControlTypes' /\ LockInv'
<1> DEFINE q == TornDown(r, StageOfTeardown(r, t, HasPeer(d)))
<1>1. TypeOK /\ pcs \in [Tasks -> Stages]
  BY TimersShed DEF IInv, TypeOK
<1>2. ControlTypes' /\ OthersFrom(t, pcs) /\ Rested(t, j, q, s)
  BY <1>1, TeardownRests
<1>3. OthersFrom(t, pc)
  BY <1>1, <1>2, TimersShed
<1>4. q \in RuntimeStates /\ (Quiet(r) => Quiet(q))
  BY TeardownTypes, StaysQuiet
<1> HIDE DEF q
<1>5. QED
  BY <1>2, <1>3, <1>4, RestKeepsLock

LEMMA HelpersGoneKeeps ==
  ASSUME IInv, NEW t \in Tasks, HelpersGone(t) PROVE IInv'
<1> DEFINE stage == StageAfterHelpers(rt, t, HasPeer(dialog))
           q == AfterHelpers(rt, stage)
<1>1. /\ pc[t] \in TeardownStages /\ UNCHANGED outsideVars
      /\ TeardownStops(t, job[t], stage, q, ses, Kept(t, stage, dialog), pc)
  BY DEF HelpersGone, TeardownStages
<1>2. rt \in RuntimeStates /\ Kept(t, stage, dialog) \in CallOrNone
  BY KeptTypes DEF IInv, TypeOK
<1>3. q \in RuntimeStates /\ (Quiet(rt) => Quiet(q))
  BY <1>2, TeardownTypes, StaysQuiet
<1>4. stage \in TeardownStages \cup {"out"}
  BY StagesOfTeardown
<1> HIDE DEF stage, q
<1>5. ControlTypes' /\ LockInv'
  BY <1>1, <1>2, <1>3, <1>4, ResumeKeeps DEF outsideVars
<1>6. QED
  BY <1>1, <1>5, OutsideKept

LEMMA ProcessGoneKeeps ==
  ASSUME IInv, NEW t \in Tasks, ProcessGone(t) PROVE IInv'
<1> DEFINE stage == StageAfterProcess(t, HasPeer(dialog))
           q == AfterProcess(rt, stage)
<1>1. /\ pc[t] \in TeardownStages /\ UNCHANGED outsideVars
      /\ TeardownStops(t, job[t], stage, q, ses, Kept(t, stage, dialog), pc)
  BY DEF ProcessGone, TeardownStages
<1>2. rt \in RuntimeStates /\ Kept(t, stage, dialog) \in CallOrNone
  BY KeptTypes DEF IInv, TypeOK
<1>3. q \in RuntimeStates /\ (Quiet(rt) => Quiet(q))
  BY <1>2, TeardownTypes, StaysQuiet
<1>4. stage \in TeardownStages \cup {"out"}
  BY StagesOfTeardown
<1> HIDE DEF stage, q
<1>5. ControlTypes' /\ LockInv'
  BY <1>1, <1>2, <1>3, <1>4, ResumeKeeps DEF outsideVars
<1>6. QED
  BY <1>1, <1>5, OutsideKept

LEMMA ByeReturnsKeeps ==
  ASSUME IInv, NEW t \in Tasks, ByeAnswered(t) \/ ByeUnanswered(t) PROVE IInv'
<1>1. /\ pc[t] \in TeardownStages
      /\ TeardownStops(t, job[t], "out", Forgotten(rt), ses, dialog, pc)
      /\ UNCHANGED <<link, placed, answered, byes, answering>>
      /\ phone' \in {phone, [phone EXCEPT ![leg[t]] = "down"]}
  BY DEF ByeAnswered, ByeUnanswered, ByeReturns, TeardownStages
<1>2. rt \in RuntimeStates /\ dialog \in CallOrNone
  BY DEF IInv, TypeOK
<1>3. Forgotten(rt) \in RuntimeStates /\ (Quiet(rt) => Quiet(Forgotten(rt)))
  BY <1>2, RuntimeTypes, StaysQuiet
<1>4. ControlTypes' /\ LockInv'
  BY <1>1, <1>2, <1>3, ResumeKeeps
<1>5. OutsideTypes'
  BY <1>1 DEF IInv, TypeOK, OutsideTypes
<1>6. QED
  BY <1>4, <1>5, TypesSplit DEF IInv, TypeOK, ControlTypes, OutsideTypes

-----------------------------------------------------------------------------
(* The user's commands *)

\* An action that keeps the session's state and no locker enters or moves.
LEMMA LockersKept ==
  ASSUME IInv, ControlTypes',
         \A u \in Lockers : /\ LockHeld(u)' => LockHeld(u)
                            /\ WillPlace(u)' => WillPlace(u)
                            /\ WillReport(u) => WillReport(u)',
         placed' = placed,
         Quiet(rt) => Quiet(rt'),
         ses'.state = "ending" => ses.state = "ending",
         ses'.microphone => ses'.state = "streaming"
  PROVE  LockInv'
<1>1. LockExclusive'
  BY DEF IInv, LockInv, LockExclusive
<1>2. RoomForCall'
  BY DEF IInv, LockInv, RoomForCall
<1>3. MutedUnderLock'
  BY DEF IInv, LockInv, MutedUnderLock, LockFree, LockHeld, Lockers, Unlocked
<1>4. EndingIsReported'
  BY DEF IInv, LockInv, EndingIsReported
<1>5. QED
  BY <1>1, <1>2, <1>3, <1>4 DEF LockInv, MicrophoneOnlyWhileStreaming

\* The lock is free: no locker holds it, none will place a call or report.
LEMMA FreeLock ==
  ASSUME LockFree
  PROVE  \A u \in Lockers : ~LockHeld(u) /\ ~WillPlace(u) /\ ~WillReport(u)
BY DEF LockFree, Lockers, LockHeld, WillPlace, WillReport, TeardownStages, Unlocked

LEMMA StartKeeps ==
  ASSUME IInv, NEW c \in Commands, NEW d \in Devices, Start(c, d) PROVE IInv'
<1> DEFINE o == Started(rt, ses, d)
<1>1. /\ LockFree /\ placed < MaxCalls /\ UNCHANGED outsideVars
      /\ Stops(c, "start", o, dialog, pc)
  BY DEF Start, Admitted
<1>2. /\ TypeOK /\ rt \in RuntimeStates /\ ses \in SessionStates /\ c \in Tasks
      /\ dialog \in CallOrNone /\ pc \in [Tasks -> Stages] /\ "start" \in Jobs
  BY DEF IInv, TypeOK, Jobs, Tasks
<1>3. o \in Outcomes
  BY <1>2, StartedIsOutcome
<1> HIDE DEF o
<1>4. /\ ControlTypes'
      /\ \A x \in Tasks \ {c} : job'[x] = job[x] /\ pc'[x] = pc[x]
      /\ pc'[c] = o.at /\ job'[c] = JobAt("start", o.at)
      /\ rt' = o.rt /\ ses' = o.ses
  BY <1>1, <1>2, <1>3, StopsRests
<1>5. /\ o.at \in {"out", "preparing"}
      /\ o.rt \in {Muted(rt), Preparing(Muted(rt))}
      /\ o.ses \in {StartFailed(Connecting(ses, d)), Connecting(ses, d)}
  BY DEF o, Started
<1>6. Quiet(rt')
  BY <1>2, <1>4, <1>5, RuntimeTypes, MutedIsQuiet, StaysQuiet
<1>7. ses'.state # "ending" /\ ~ses'.microphone
  BY <1>2, <1>4, <1>5 DEF StartFailed, Connecting, SessionStates
<1>8. \A u \in Lockers \ {c} : ~LockHeld(u)' /\ ~WillPlace(u)'
  <2>1. \A u \in Lockers \ {c} : u \in Tasks \ {c}
    BY DEF Lockers, Tasks
  <2>2. QED
    BY <1>1, <1>4, <2>1, FreeLock DEF LockHeld, WillPlace, Unlocked
<1>9. LockInv'
  <2>1. LockExclusive'
    BY <1>8 DEF LockExclusive
  <2>2. RoomForCall'
    BY <1>1, <1>8 DEF RoomForCall, outsideVars
  <2>3. QED
    BY <1>6, <1>7, <2>1, <2>2
       DEF LockInv, MutedUnderLock, EndingIsReported, MicrophoneOnlyWhileStreaming
<1>10. QED
  BY <1>1, <1>4, <1>9, OutsideKept

\* _end_locked mutes both flags before it tears down.
LEMMA EndBegunIsMuted ==
  ASSUME NEW s \in SessionStates
  PROVE  /\ EndBegun(s) \in SessionStates
         /\ ~EndBegun(s).microphone
BY SessionTypes DEF EndBegun, CleanupCancelled, SessionStates

LEMMA SwitchDeviceKeeps ==
  ASSUME IInv, NEW c \in Commands, NEW d \in Devices, SwitchDevice(c, d)
  PROVE  IInv'
<1>1. /\ LockFree /\ placed < MaxCalls /\ UNCHANGED outsideVars
      /\ Teardown(c, d, Muted(rt), EndBegun(ses), dialog, TimerCancelled(pc))
  BY DEF SwitchDevice, Admitted
<1>2. /\ rt \in RuntimeStates /\ ses \in SessionStates /\ c \in Tasks
      /\ c \in Lockers /\ dialog \in CallOrNone /\ d \in Jobs /\ d # "none"
  BY JobsAssumption DEF IInv, TypeOK, Jobs, Tasks, Lockers
<1>3. Muted(rt) \in RuntimeStates /\ Quiet(Muted(rt))
  BY <1>2, RuntimeTypes, MutedIsQuiet
<1>4. EndBegun(ses) \in SessionStates /\ ~EndBegun(ses).microphone
  BY <1>2, EndBegunIsMuted
<1>5. ControlTypes' /\ LockInv'
  BY <1>1, <1>2, <1>3, <1>4, TeardownKeeps DEF outsideVars
<1>6. QED
  BY <1>1, <1>5, OutsideKept

LEMMA EndKeeps ==
  ASSUME IInv, NEW t \in Lockers, LockFree, EndLocked(t), UNCHANGED outsideVars
  PROVE  IInv'
<1>1. /\ rt \in RuntimeStates /\ ses \in SessionStates /\ t \in Tasks
      /\ dialog \in CallOrNone /\ "end" \in Jobs /\ TypeOK
      /\ "end" \notin Devices
  BY JobsAssumption DEF IInv, TypeOK, Jobs, Tasks, Lockers
<1>2. CASE ses.state = "idle"
  <2> DEFINE o == [rt |-> rt, ses |-> NothingToEnd(ses), at |-> "out"]
  <2>1. Stops(t, "end", o, dialog, TimerCancelled(pc))
    BY <1>2 DEF EndLocked
  <2>2. o \in Outcomes
    BY <1>1, SessionTypes DEF Outcomes, Stages
  <2>3. TimerCancelled(pc) \in [Tasks -> Stages]
    BY <1>1, TimersShed
  <2> HIDE DEF o
  <2>4. /\ ControlTypes'
        /\ \A x \in Tasks \ {t} : job'[x] = job[x] /\ pc'[x] = TimerCancelled(pc)[x]
        /\ pc'[t] = o.at /\ rt' = o.rt /\ ses' = o.ses
    BY <1>1, <2>1, <2>2, <2>3, StopsRests
  <2>5. \A u \in Lockers : ~LockHeld(u)' /\ ~WillPlace(u)'
    <3>1. \A x \in Tasks : \/ TimerCancelled(pc)[x] = pc[x]
                           \/ TimerCancelled(pc)[x] = "out"
      BY DEF TimerCancelled
    <3>2. \A u \in Lockers : u \in Tasks
      BY DEF Lockers, Tasks
    <3>3. QED
      BY <2>4, <3>1, <3>2, FreeLock
         DEF o, LockHeld, WillPlace, TeardownStages, Unlocked
  <2>6. ses'.state = "idle" /\ ~ses'.microphone
    BY <1>1, <1>2, <2>4 DEF o, NothingToEnd, CleanupCancelled, SessionStates
  <2>7. LockInv'
    BY <2>5, <2>6 DEF LockInv, LockExclusive, RoomForCall, MutedUnderLock,
       EndingIsReported, MicrophoneOnlyWhileStreaming, LockFree, LockHeld, Lockers, Unlocked
  <2>8. QED
    BY <2>4, <2>7, OutsideKept
<1>3. CASE ses.state # "idle"
  <2>1. Teardown(t, "end", Muted(rt), EndBegun(ses), dialog, TimerCancelled(pc))
    BY <1>3 DEF EndLocked
  <2>2. Muted(rt) \in RuntimeStates /\ Quiet(Muted(rt))
    BY <1>1, RuntimeTypes, MutedIsQuiet
  <2>3. EndBegun(ses) \in SessionStates /\ ~EndBegun(ses).microphone
    BY <1>1, EndBegunIsMuted
  <2>4. ControlTypes' /\ LockInv'
    BY <1>1, <2>1, <2>2, <2>3, TeardownKeeps DEF outsideVars
  <2>5. QED
    BY <2>4, OutsideKept
<1>4. QED
  BY <1>2, <1>3

\* A start that fails: it tears down from runtime r, with dialog d set.
LEMMA StartFailsKeeps ==
  ASSUME IInv, NEW c \in Commands,
         pc[c] \in {"preparing", "inviting", "acknowledging", "spawning"},
         NEW r \in RuntimeStates, Quiet(rt) => Quiet(r), NEW d \in CallOrNone,
         Teardown(c, "start", r, ses, d, pc), placed' = placed
  PROVE  ControlTypes' /\ LockInv'
<1>1. /\ c \in Tasks /\ c \in Lockers /\ LockHeld(c) /\ ~LockFree
      /\ "start" \in Jobs /\ "start" \notin Devices
  BY JobsAssumption DEF Tasks, Lockers, LockHeld, LockFree, Jobs, Unlocked
<1>2. /\ ses \in SessionStates /\ Quiet(r)
      /\ (ses.microphone => ses.state = "streaming")
  BY <1>1 DEF IInv, TypeOK, LockInv, MutedUnderLock, MicrophoneOnlyWhileStreaming
<1>3. QED
  BY <1>1, <1>2, TeardownKeeps

LEMMA PrepareFailsKeeps ==
  ASSUME IInv, NEW c \in Commands, PrepareFails(c) PROVE IInv'
<1> DEFINE s == StartFailed(ses)
           o == [rt |-> rt, ses |-> s, at |-> "out"]
<1>1. /\ c \in Tasks /\ c \in Lockers /\ LockHeld(c) /\ "start" \in Jobs
      /\ "start" \notin Devices /\ TypeOK /\ UNCHANGED outsideVars
      /\ Stops(c, "start", o, dialog, pc)
  BY JobsAssumption DEF PrepareFails, Tasks, Lockers, LockHeld, Jobs, IInv, Unlocked
<1>2. /\ rt \in RuntimeStates /\ ses \in SessionStates /\ dialog \in CallOrNone
      /\ pc \in [Tasks -> Stages]
  BY DEF IInv, TypeOK
<1>3. o \in Outcomes
  BY <1>2, SessionTypes DEF Outcomes, Stages
<1>4. /\ ControlTypes'
      /\ \A x \in Tasks \ {c} : job'[x] = job[x] /\ pc'[x] = pc[x]
      /\ pc'[c] = "out" /\ job'[c] = "none" /\ rt' = rt /\ ses' = s
  BY <1>1, <1>2, <1>3, StopsRests DEF JobAt
<1>5. OthersFrom(c, pc) /\ Rested(c, "start", rt, ses)
  BY <1>4 DEF OthersFrom, Shed, Rested, Returned, ReturnedFromStart
<1>6. Quiet(rt) /\ (ses.microphone => ses.state = "streaming")
  BY <1>1 DEF IInv, LockInv, MutedUnderLock, LockFree, LockHeld, Lockers,
              MicrophoneOnlyWhileStreaming, Unlocked
<1>7. ses.state = "ending" => c \in Lockers /\ "start" # "none"
  BY <1>1
<1>8. LockInv'
  BY <1>1, <1>2, <1>4, <1>5, <1>6, <1>7, RestKeepsLock DEF outsideVars
<1>9. QED
  BY <1>1, <1>4, <1>8, OutsideKept

LEMMA InviteRefusedKeeps ==
  ASSUME IInv, NEW c \in Commands, InviteRefused(c) PROVE IInv'
<1>1. /\ pc[c] = "preparing" /\ UNCHANGED outsideVars
      /\ Teardown(c, "start", AudioBound(rt), ses, dialog, pc)
  BY DEF InviteRefused
<1>2. rt \in RuntimeStates /\ dialog \in CallOrNone
  BY DEF IInv, TypeOK
<1>3. AudioBound(rt) \in RuntimeStates /\ (Quiet(rt) => Quiet(AudioBound(rt)))
  BY <1>2, RuntimeTypes, StaysQuiet
<1>4. ControlTypes' /\ LockInv'
  BY <1>1, <1>2, <1>3, StartFailsKeeps DEF outsideVars
<1>5. QED
  BY <1>1, <1>4, OutsideKept

LEMMA AnswerUnusableKeeps ==
  ASSUME IInv, NEW c \in Commands, AnswerUnusable(c) PROVE IInv'
<1>1. PICK r \in {rt, Negotiated(rt, leg[c])} :
        Teardown(c, "start", r, ses, dialog, pc)
  BY DEF AnswerUnusable
<1>2. pc[c] = "acknowledging" /\ UNCHANGED outsideVars
  BY DEF AnswerUnusable
<1>3. rt \in RuntimeStates /\ leg[c] \in CallOrNone /\ dialog \in CallOrNone
  BY DEF IInv, TypeOK, Tasks
<1>4. r \in RuntimeStates /\ (Quiet(rt) => Quiet(r))
  BY <1>3, RuntimeTypes, StaysQuiet
<1>5. ControlTypes' /\ LockInv'
  BY <1>1, <1>2, <1>3, <1>4, StartFailsKeeps DEF outsideVars
<1>6. QED
  BY <1>2, <1>5, OutsideKept

LEMMA AckRefusedKeeps ==
  ASSUME IInv, NEW c \in Commands, AckRefused(c) PROVE IInv'
<1>1. /\ pc[c] = "inviting" /\ UNCHANGED outsideVars
      /\ Teardown(c, "start", rt, ses, leg[c], pc)
  BY DEF AckRefused
<1>2. rt \in RuntimeStates /\ leg[c] \in CallOrNone
  BY DEF IInv, TypeOK, Tasks
<1>3. ControlTypes' /\ LockInv'
  BY <1>1, <1>2, StartFailsKeeps DEF outsideVars
<1>4. QED
  BY <1>1, <1>3, OutsideKept

LEMMA InviteFailsKeeps ==
  ASSUME IInv, NEW c \in Commands, InviteFails(c) PROVE IInv'
<1>1. /\ pc[c] = "inviting"
      /\ Teardown(c, "start", rt, ses, dialog, pc)
      /\ phone' \in {phone, [phone EXCEPT ![leg[c]] =
                               IF @ = "ringing" THEN "down" ELSE @]}
      /\ UNCHANGED <<link, placed, answered, byes, answering>>
  BY DEF InviteFails
<1>2. rt \in RuntimeStates /\ dialog \in CallOrNone
  BY DEF IInv, TypeOK
<1>3. ControlTypes' /\ LockInv'
  BY <1>1, <1>2, StartFailsKeeps
<1>4. OutsideTypes'
  BY <1>1 DEF IInv, TypeOK, OutsideTypes
<1>5. QED
  BY <1>3, <1>4, TypesSplit DEF IInv, TypeOK, ControlTypes, OutsideTypes

LEMMA SpawnFailsKeeps ==
  ASSUME IInv, NEW c \in Commands, SpawnFails(c) PROVE IInv'
<1>1. /\ pc[c] = "spawning" /\ UNCHANGED outsideVars
      /\ Teardown(c, "start", rt, ses, dialog, pc)
  BY DEF SpawnFails
<1>2. rt \in RuntimeStates /\ dialog \in CallOrNone
  BY DEF IInv, TypeOK
<1>3. ControlTypes' /\ LockInv'
  BY <1>1, <1>2, StartFailsKeeps DEF outsideVars
<1>4. QED
  BY <1>1, <1>3, OutsideKept

LEMMA InviteKeeps ==
  ASSUME IInv, NEW c \in Commands, Invite(c) PROVE IInv'
<1>1. /\ pc[c] = "preparing" /\ placed' = placed + 1 /\ rt' = AudioBound(rt)
      /\ phone' = [phone EXCEPT ![placed + 1] =
                     IF link = "up" THEN "ringing" ELSE "none"]
      /\ pc' = [pc EXCEPT ![c] = "inviting"]
      /\ leg' = [leg EXCEPT ![c] = placed + 1]
      /\ UNCHANGED <<ses, dialog, link, job, answered, byes, answering>>
  BY DEF Invite
<1>2. c \in Lockers /\ c \in Tasks /\ LockHeld(c) /\ WillPlace(c) /\ ~LockFree
  BY <1>1 DEF Lockers, Tasks, LockHeld, WillPlace, LockFree, Unlocked
<1>3. placed + 1 \in CallOrNone
  BY <1>2, TasksAssumption DEF IInv, LockInv, RoomForCall, TypeOK, CallOrNone
<1>4. rt \in RuntimeStates /\ AudioBound(rt) \in RuntimeStates /\ Quiet(AudioBound(rt))
  BY <1>2, RuntimeTypes, StaysQuiet DEF IInv, TypeOK, LockInv, MutedUnderLock
<1>5. TypeOK'
  BY <1>1, <1>3, <1>4 DEF IInv, TypeOK, Stages
<1>6. \A u \in Lockers \ {c} : ~LockHeld(u) /\ pc'[u] = pc[u]
  BY <1>1, <1>2 DEF IInv, LockInv, LockExclusive, TypeOK, Lockers, Tasks
<1>7. LockExclusive'
  BY <1>6 DEF LockExclusive, LockHeld, Unlocked
<1>8. RoomForCall'
  <2>1. pc'[c] = "inviting"
    BY <1>1, <1>2 DEF IInv, TypeOK
  <2>2. QED
    BY <1>6, <2>1 DEF RoomForCall, WillPlace, LockHeld, TeardownStages, Unlocked
<1>9. EndingIsReported'
  <2>1. ses.state # "ending"
    <3>1. \A u \in Lockers : ~WillReport(u)
      BY <1>1, <1>6 DEF LockHeld, WillReport, TeardownStages, Unlocked
    <3>2. QED
      BY <3>1 DEF IInv, LockInv, EndingIsReported
  <2>2. QED
    BY <1>1, <2>1 DEF EndingIsReported
<1>10. MutedUnderLock' /\ MicrophoneOnlyWhileStreaming'
  BY <1>1, <1>4 DEF MutedUnderLock, IInv, LockInv, MicrophoneOnlyWhileStreaming
<1>11. QED
  BY <1>5, <1>7, <1>8, <1>9, <1>10 DEF IInv, LockInv

\* A start that has its answer goes on.
LEMMA AnsweredStartKeeps ==
  ASSUME IInv, NEW c \in Commands, InviteAnswered(c) \/ InviteAccepted(c) PROVE IInv'
<1>1. /\ pc[c] \in {"inviting", "acknowledging"} /\ dialog' \in {dialog, leg[c]}
      /\ rt' \in {rt, Negotiated(rt, leg[c])}
      /\ \E at \in {"acknowledging", "spawning"} : pc' = [pc EXCEPT ![c] = at]
      /\ UNCHANGED <<ses, link, job, leg, placed, phone, answered, byes, answering>>
  BY DEF InviteAnswered, InviteAccepted, gatewayVars, sipVars
<1>2. /\ c \in Tasks /\ rt \in RuntimeStates /\ leg[c] \in CallOrNone
      /\ pc \in [Tasks -> Stages]
  BY DEF IInv, TypeOK, Tasks
<1>3. rt' \in RuntimeStates /\ (Quiet(rt) => Quiet(rt'))
  BY <1>1, <1>2, RuntimeTypes, StaysQuiet
<1>4. TypeOK'
  BY <1>1, <1>2, <1>3 DEF IInv, TypeOK, Stages
<1>5. \A u \in Lockers : /\ LockHeld(u)' => LockHeld(u)
                         /\ WillPlace(u)' => WillPlace(u)
                         /\ WillReport(u) => WillReport(u)'
  BY <1>1, <1>2 DEF LockHeld, WillPlace, WillReport, TeardownStages, Lockers, Tasks, Unlocked
<1>6. ses' = ses /\ (ses.microphone => ses.state = "streaming")
  BY <1>1 DEF IInv, LockInv, MicrophoneOnlyWhileStreaming
<1>7. LockInv'
  BY <1>1, <1>3, <1>4, <1>5, <1>6, LockersKept, TypesSplit DEF TypeOK, ControlTypes
<1>8. QED
  BY <1>4, <1>7 DEF IInv

LEMMA AnsweringTypes ==
  ASSUME IInv, StartReturns PROVE answering' \in 0 .. MaxViewers
<1>1. answering \in 0 .. MaxViewers /\ ses.viewers \in 0 .. MaxViewers
  BY DEF IInv, TypeOK, SessionStates
<1>2. QED
  BY <1>1, SessionAssumption DEF StartReturns, Room

LEMMA SpawnKeeps ==
  ASSUME IInv, NEW c \in Commands, NEW w \in Watchdogs, Spawn(c, w) PROVE IInv'
<1>1. /\ pc[c] = "spawning" /\ pc[w] = "out"
      /\ rt' = Spawned(rt, leg[c], w)
      /\ pc' = [pc EXCEPT ![c] = "out", ![w] = "waiting"]
      /\ job' = [job EXCEPT ![c] = "none"]
      /\ leg' = [leg EXCEPT ![c] = NoCall]
      /\ StartReturns
      /\ UNCHANGED <<ses, dialog, link, placed, phone, answered, byes>>
  BY DEF Spawn, gatewayVars, sipVars
<1>2. /\ c \in Tasks /\ w \in Tasks /\ rt \in RuntimeStates
      /\ leg[c] \in CallOrNone /\ pc \in [Tasks -> Stages]
      /\ job \in [Tasks -> Jobs] /\ w \notin Lockers /\ Lockers \subseteq Tasks
  BY TasksAssumption DEF IInv, TypeOK, Tasks, Lockers
<1>3. rt' \in RuntimeStates
  BY <1>1, <1>2, RuntimeTypes
<1>4. answering' \in 0 .. MaxViewers
  BY <1>1, AnsweringTypes
<1>5. TypeOK'
  BY <1>1, <1>2, <1>3, <1>4, NoCallTypes DEF IInv, TypeOK, Stages, Jobs
<1>6. \A u \in Lockers : /\ LockHeld(u)' => LockHeld(u)
                         /\ WillPlace(u)' => WillPlace(u)
                         /\ WillReport(u) => WillReport(u)'
  BY <1>1, <1>2 DEF LockHeld, WillPlace, WillReport, TeardownStages, Unlocked
<1>7. Quiet(rt) => Quiet(rt')
  BY <1>1, <1>2 DEF Quiet, Spawned, RuntimeStates
<1>8. ses' = ses /\ placed' = placed /\ (ses.microphone => ses.state = "streaming")
  BY <1>1 DEF IInv, LockInv, MicrophoneOnlyWhileStreaming
<1>9. LockInv'
  BY <1>5, <1>6, <1>7, <1>8, LockersKept, TypesSplit DEF TypeOK, ControlTypes
<1>10. QED
  BY <1>5, <1>9 DEF IInv

LEMMA SetMicrophoneKeeps ==
  ASSUME IInv, NEW on \in BOOLEAN, SetMicrophone(on) PROVE IInv'
<1>1. /\ LockFree /\ (on => ses.state = "streaming")
      /\ rt' = WithMicrophone(rt, on)
      /\ ses' = [ses EXCEPT !.microphone = on]
      /\ UNCHANGED <<dialog, link, placed, pc, job, leg, phone, answered, byes,
                     answering>>
  BY DEF SetMicrophone, sipVars, gatewayVars
<1>2. rt \in RuntimeStates /\ ses \in SessionStates
  BY DEF IInv, TypeOK
<1>3. rt' \in RuntimeStates
  BY <1>1, <1>2, RuntimeTypes
<1>4. ses' \in SessionStates /\ ses'.state = ses.state /\ ses'.microphone = on
  BY <1>1, <1>2 DEF SessionStates
<1>5. TypeOK'
  BY <1>1, <1>3, <1>4 DEF IInv, TypeOK
<1>6. LockFree'
  BY <1>1 DEF LockFree, Unlocked
<1>7. MutedUnderLock' /\ MicrophoneOnlyWhileStreaming'
  BY <1>1, <1>4, <1>6 DEF MutedUnderLock, MicrophoneOnlyWhileStreaming
<1>8. LockExclusive' /\ RoomForCall' /\ EndingIsReported'
  BY <1>1, <1>4 DEF IInv, LockInv, LockExclusive, RoomForCall, EndingIsReported,
                    LockHeld, WillPlace, WillReport, Unlocked
<1>9. QED
  BY <1>5, <1>7, <1>8 DEF IInv, LockInv

\* Nothing of the lock, the runtime or the session's state changes.
LEMMA LockUntouched ==
  ASSUME IInv, TypeOK', UNCHANGED <<ses, pc, job, placed>>,
         Quiet(rt) => Quiet(rt')
  PROVE  IInv'
<1>1. LockExclusive' /\ RoomForCall' /\ EndingIsReported' /\ MutedUnderLock'
  BY DEF IInv, LockInv, LockExclusive, RoomForCall, EndingIsReported,
         MutedUnderLock, LockFree, LockHeld, WillPlace, WillReport, Unlocked
<1>2. MicrophoneOnlyWhileStreaming'
  BY DEF IInv, LockInv, MicrophoneOnlyWhileStreaming
<1>3. QED
  BY <1>1, <1>2 DEF IInv, LockInv

\* A command that moves between places where it does not hold the lock.
LEMMA WaitingKeeps ==
  ASSUME IInv, TypeOK', NEW c \in Commands, NEW at \in {"out", "queued"},
         pc[c] \in {"out", "queued"}, pc' = [pc EXCEPT ![c] = at],
         UNCHANGED <<rt, ses, job, placed>>
  PROVE  IInv'
<1>1. c \in Tasks
  BY DEF Tasks
<1>2. \A u \in Lockers : /\ LockHeld(u)' => LockHeld(u)
                         /\ WillPlace(u)' => WillPlace(u)
                         /\ WillReport(u) => WillReport(u)'
  BY <1>1 DEF IInv, TypeOK, LockHeld, WillPlace, WillReport, TeardownStages,
              Lockers, Tasks, Unlocked
<1>3. (Quiet(rt) => Quiet(rt')) /\ (ses'.microphone => ses'.state = "streaming")
  BY DEF Quiet, IInv, LockInv, MicrophoneOnlyWhileStreaming
<1>4. LockInv'
  BY <1>2, <1>3, LockersKept, TypesSplit DEF TypeOK, ControlTypes
<1>5. QED
  BY <1>4 DEF IInv

LEMMA QueuesKeeps ==
  ASSUME IInv, NEW c \in Commands, Queues(c) PROVE IInv'
<1>1. /\ pc[c] = "out" /\ pc' = [pc EXCEPT ![c] = "queued"]
      /\ UNCHANGED <<rt, ses, dialog, link, placed, job, leg, phone, answered,
                     byes, answering>>
  BY DEF Queues, sipVars, gatewayVars
<1>2. TypeOK'
  BY <1>1 DEF IInv, TypeOK, Stages, Tasks
<1>3. QED
  BY <1>1, <1>2, WaitingKeeps

LEMMA StartSharedKeeps ==
  ASSUME IInv, NEW c \in Commands, NEW d \in Devices, StartShared(c, d) PROVE IInv'
<1>1. /\ StartReturns
      /\ pc[c] \in {"out", "queued"} /\ pc' = [pc EXCEPT ![c] = "out"]
      /\ UNCHANGED <<rt, ses, dialog, link, placed, job, leg, phone,
                     answered, byes>>
  BY DEF StartShared, Admitted, sipVars, gatewayVars
<1>2. answering' \in 0 .. MaxViewers
  BY <1>1, AnsweringTypes
<1>3. TypeOK'
  BY <1>1, <1>2 DEF IInv, TypeOK, Stages, Tasks
<1>4. QED
  BY <1>1, <1>3, WaitingKeeps

-----------------------------------------------------------------------------
(* Viewers and timers *)

LEMMA ViewerJoinsKeeps ==
  ASSUME IInv, ViewerJoins PROVE IInv'
<1>1. /\ answering > 0 /\ ses.viewers < MaxViewers
      /\ answering' = answering - 1
      /\ ses' = ViewerAdded(ses) /\ pc' = TimerCancelled(pc)
      /\ leg' = [x \in Tasks |-> IF pc'[x] = "out" THEN NoCall ELSE leg[x]]
      /\ UNCHANGED <<rt, dialog, link, placed, job, phone, answered, byes>>
  BY DEF ViewerJoins, sipVars, gatewayVars
<1>2. /\ ses \in SessionStates /\ answering \in 0 .. MaxViewers
      /\ leg \in [Tasks -> CallOrNone]
  BY DEF IInv, TypeOK
<1>3. /\ ses' \in SessionStates /\ ses'.state = ses.state
      /\ ses'.microphone = ses.microphone
  <2>1. ses.viewers + 1 \in 0 .. MaxViewers
    BY <1>1, <1>2, SessionAssumption DEF SessionStates
  <2>2. QED
    BY <1>1, <1>2, <2>1 DEF ViewerAdded, CleanupCancelled, SessionStates
<1>4. answering' \in 0 .. MaxViewers
  BY <1>1, <1>2, SessionAssumption
<1>5. leg' \in [Tasks -> CallOrNone]
  BY <1>1, <1>2, NoCallTypes
<1>6. TypeOK'
  BY <1>1, <1>3, <1>4, <1>5, TimersShed DEF IInv, TypeOK
<1>7. \A u \in Lockers : /\ LockHeld(u)' => LockHeld(u)
                         /\ WillPlace(u)' => WillPlace(u)
                         /\ WillReport(u) => WillReport(u)'
  BY <1>1 DEF LockHeld, WillPlace, WillReport, TeardownStages, TimerCancelled,
              Lockers, Tasks, Unlocked
<1>8. Quiet(rt) => Quiet(rt')
  BY <1>1 DEF Quiet
<1>9. ses'.microphone => ses'.state = "streaming"
  BY <1>3 DEF IInv, LockInv, MicrophoneOnlyWhileStreaming
<1>10. LockInv'
  BY <1>1, <1>3, <1>6, <1>7, <1>8, <1>9, LockersKept, TypesSplit DEF TypeOK, ControlTypes
<1>11. QED
  BY <1>6, <1>10 DEF IInv

LEMMA ViewerGivesUpKeeps ==
  ASSUME IInv, ViewerGivesUp PROVE IInv'
<1>1. /\ answering > 0 /\ answering' = answering - 1
      /\ UNCHANGED <<rt, ses, dialog, link, placed, pc, job, leg, phone,
                     answered, byes>>
  BY DEF ViewerGivesUp, sipVars, gatewayVars
<1>2. answering' \in 0 .. MaxViewers
  BY <1>1, SessionAssumption DEF IInv, TypeOK
<1>3. TypeOK'
  BY <1>1, <1>2 DEF IInv, TypeOK
<1>4. QED
  BY <1>1, <1>3, LockUntouched DEF Quiet

LEMMA CurrentCallTypes ==
  ASSUME IInv PROVE CurrentCall \in CallOrNone
<1>1. placed \in CallOrNone
  BY DEF IInv, TypeOK
<1>2. (\E c \in Commands : pc[c] = "preparing") => placed < MaxCalls
  BY DEF IInv, LockInv, RoomForCall, WillPlace, Lockers
<1>3. QED
  BY <1>1, <1>2, TasksAssumption DEF CurrentCall, CallOrNone

LEMMA ViewerLeavesKeeps ==
  ASSUME IInv, NEW t \in Timers, ViewerLeaves(t) PROVE IInv'
<1>1. /\ StartsCleanup(ses) => pc[t] = "out"
      /\ ses' = ViewerRemoved(ses, t)
      /\ IF StartsCleanup(ses)
         THEN /\ pc' = [pc EXCEPT ![t] = "armed"]
              /\ leg' = [leg EXCEPT ![t] = CurrentCall]
         ELSE UNCHANGED <<pc, leg>>
      /\ UNCHANGED <<rt, dialog, link, placed, job, phone, answered, byes,
                     answering>>
  BY DEF ViewerLeaves, sipVars, gatewayVars
<1>2. ses \in SessionStates /\ t \in Tasks
  BY DEF IInv, TypeOK, Tasks
<1>3. /\ ses' \in SessionStates /\ ses'.state = ses.state
      /\ ses'.microphone = ses.microphone
  <2> DEFINE left == IF ses.viewers = 0 THEN 0 ELSE ses.viewers - 1
  <2>1. left \in 0 .. MaxViewers
    BY <1>2, SessionAssumption DEF SessionStates
  <2>2. ses' = [ses EXCEPT !.viewers = left,
                           !.cleanup = IF StartsCleanup(ses) THEN t
                                       ELSE ses.cleanup]
    BY <1>1 DEF ViewerRemoved
  <2> HIDE DEF left
  <2>3. QED
    BY <1>2, <2>1, <2>2 DEF SessionStates
<1>4. leg' \in [Tasks -> CallOrNone] /\ pc' \in [Tasks -> Stages]
  BY <1>1, <1>2, CurrentCallTypes DEF IInv, TypeOK, Stages
<1>5. TypeOK'
  BY <1>1, <1>3, <1>4 DEF IInv, TypeOK
<1>6. \A u \in Lockers : /\ LockHeld(u)' => LockHeld(u)
                         /\ WillPlace(u)' => WillPlace(u)
                         /\ WillReport(u) => WillReport(u)'
  BY <1>1, <1>2 DEF IInv, TypeOK, LockHeld, WillPlace, WillReport,
                    TeardownStages, Lockers, Tasks, Unlocked
<1>7. Quiet(rt) => Quiet(rt')
  BY <1>1 DEF Quiet
<1>8. ses'.microphone => ses'.state = "streaming"
  BY <1>3 DEF IInv, LockInv, MicrophoneOnlyWhileStreaming
<1>9. LockInv'
  BY <1>1, <1>3, <1>5, <1>6, <1>7, <1>8, LockersKept, TypesSplit DEF TypeOK, ControlTypes
<1>10. QED
  BY <1>5, <1>9 DEF IInv

LEMMA TimerFiresKeeps ==
  ASSUME IInv, NEW t \in Timers, TimerFires(t) PROVE IInv'
<1>1. /\ pc[t] = "armed" /\ pc' = [pc EXCEPT ![t] = "fired"]
      /\ UNCHANGED <<rt, ses, dialog, link, placed, job, leg, phone, answered,
                     byes, answering>>
  BY DEF TimerFires, sipVars, gatewayVars
<1>2. t \in Tasks /\ TypeOK'
  BY <1>1 DEF IInv, TypeOK, Tasks, Stages
<1>3. \A u \in Lockers : /\ LockHeld(u)' => LockHeld(u)
                         /\ WillPlace(u)' => WillPlace(u)
                         /\ WillReport(u) => WillReport(u)'
  BY <1>1, <1>2 DEF IInv, TypeOK, LockHeld, WillPlace, WillReport,
                    TeardownStages, Lockers, Tasks, Unlocked
<1>4. (Quiet(rt) => Quiet(rt')) /\ (ses'.microphone => ses'.state = "streaming")
  BY <1>1 DEF Quiet, IInv, LockInv, MicrophoneOnlyWhileStreaming
<1>5. LockInv'
  BY <1>1, <1>2, <1>3, <1>4, LockersKept, TypesSplit DEF TypeOK, ControlTypes
<1>6. QED
  BY <1>2, <1>5 DEF IInv

-----------------------------------------------------------------------------
(* FFmpeg, the watchdog, the reader, the gateway and the supervisor *)

\* A task that never holds the lock tears down from runtime r.
LEMMA OutsiderTearsDown ==
  ASSUME IInv, NEW t \in Watchdogs \cup {Reader, Supervisor},
         NEW s \in {ses, RuntimeError(ses)}, NEW d \in CallOrNone,
         Teardown(t, "none", rt, s, d, pc), placed' = placed
  PROVE  ControlTypes' /\ LockInv'
<1>1. /\ t \in Tasks /\ t \notin Lockers /\ "none" \in Jobs
      /\ rt \in RuntimeStates /\ ses \in SessionStates
  BY TasksAssumption DEF Tasks, Lockers, Jobs, IInv, TypeOK
<1>2. s \in SessionStates
  BY <1>1, SessionTypes
<1>3. s.microphone => s.state = "streaming"
  BY <1>1 DEF RuntimeError, SessionStates, IInv, LockInv,
              MicrophoneOnlyWhileStreaming
<1>4. s.state = "ending" => \E u \in Lockers \ {t} : WillReport(u)
  BY <1>1 DEF RuntimeError, SessionStates, IInv, LockInv, EndingIsReported
<1>5. QED
  BY <1>1, <1>2, <1>3, <1>4, TeardownKeeps

LEMMA WatchdogFailsKeeps ==
  ASSUME IInv, NEW w \in Watchdogs, WatchdogFails(w) PROVE IInv'
<1>1. PICK s \in {ses, RuntimeError(ses)} :
        Teardown(w, "none", rt, s, dialog, pc)
  BY DEF WatchdogFails, Delivered
<1>2. UNCHANGED outsideVars /\ dialog \in CallOrNone
  BY DEF WatchdogFails, IInv, TypeOK
<1>3. ControlTypes' /\ LockInv'
  BY <1>1, <1>2, OutsiderTearsDown DEF outsideVars
<1>4. QED
  BY <1>2, <1>3, OutsideKept

LEMMA SupervisorClosesKeeps ==
  ASSUME IInv, SupervisorCloses PROVE IInv'
<1>1. /\ Teardown(Supervisor, "none", rt, ses, dialog, pc)
      /\ UNCHANGED outsideVars /\ dialog \in CallOrNone
  BY DEF SupervisorCloses, IInv, TypeOK
<1>2. ControlTypes' /\ LockInv'
  BY <1>1, OutsiderTearsDown DEF outsideVars
<1>3. QED
  BY <1>1, <1>2, OutsideKept

LEMMA RemoteEndedKeeps ==
  ASSUME IInv, NEW n \in Calls, RemoteEnded(n) PROVE IInv'
<1>1. /\ Teardown(Reader, "none", rt, ses, NoCall, pc)
      /\ byes' = byes \ {n}
      /\ UNCHANGED <<link, placed, phone, answered, answering>>
  BY DEF RemoteEnded
<1>2. ControlTypes' /\ LockInv'
  BY <1>1, NoCallTypes, OutsiderTearsDown
<1>3. OutsideTypes'
  BY <1>1 DEF IInv, TypeOK, OutsideTypes
<1>4. QED
  BY <1>2, <1>3, TypesSplit DEF IInv, TypeOK, ControlTypes, OutsideTypes

LEMMA TimerEndsKeeps ==
  ASSUME IInv, NEW t \in Timers, TimerEnds(t) PROVE IInv'
BY EndKeeps DEF TimerEnds, Lockers

LEMMA FirstVideoKeeps ==
  ASSUME IInv, NEW w \in Watchdogs, FirstVideo(w) PROVE IInv'
<1>1. /\ pc[w] = "waiting" /\ pc' = [pc EXCEPT ![w] = "watching"]
      /\ ses' \in {ses, StreamsRunning(ses)}
      /\ UNCHANGED <<rt, dialog, link, placed, job, leg, phone, answered, byes,
                     answering>>
  BY DEF FirstVideo, Delivered, sipVars, gatewayVars
<1>2. ses \in SessionStates /\ ses' \in SessionStates /\ w \in Tasks
  BY <1>1, SessionTypes DEF IInv, TypeOK, Tasks
<1>3. TypeOK'
  BY <1>1, <1>2 DEF IInv, TypeOK, Stages
<1>4. /\ ses'.state = "ending" => ses.state = "ending"
      /\ ses'.microphone => ses'.state = "streaming"
  BY <1>1, <1>2 DEF StreamsRunning, SessionStates, IInv, LockInv,
                    MicrophoneOnlyWhileStreaming
<1>5. \A u \in Lockers : /\ LockHeld(u)' => LockHeld(u)
                         /\ WillPlace(u)' => WillPlace(u)
                         /\ WillReport(u) => WillReport(u)'
  BY <1>1, TasksAssumption DEF IInv, TypeOK, LockHeld, WillPlace, WillReport,
                    TeardownStages, Lockers, Tasks, Unlocked
<1>6. Quiet(rt) => Quiet(rt')
  BY <1>1 DEF Quiet
<1>7. LockInv'
  BY <1>1, <1>3, <1>4, <1>5, <1>6, LockersKept, TypesSplit DEF TypeOK, ControlTypes
<1>8. QED
  BY <1>3, <1>7 DEF IInv

LEMMA FFmpegExitsKeeps ==
  ASSUME IInv, FFmpegExits PROVE IInv'
<1>1. /\ rt' = [rt EXCEPT !.exited = TRUE]
      /\ UNCHANGED <<ses, dialog, link, placed, pc, job, leg, phone, answered,
                     byes, answering>>
  BY DEF FFmpegExits, sipVars, gatewayVars
<1>2. rt \in RuntimeStates
  BY DEF IInv, TypeOK
<1>3. rt' \in RuntimeStates /\ (Quiet(rt) => Quiet(rt'))
  BY <1>1, <1>2 DEF RuntimeStates, Quiet
<1>4. TypeOK'
  BY <1>1, <1>3 DEF IInv, TypeOK
<1>5. QED
  BY <1>1, <1>3, <1>4, LockUntouched

LEMMA ReaderAndGatewayKeep ==
  ASSUME IInv, NEW n \in Calls,
         ReadAnswer(n) \/ ByeIgnored(n) \/ GatewayPicksUp(n) \/ GatewayHangsUp(n)
  PROVE  IInv'
<1>1. /\ UNCHANGED <<rt, ses, dialog, link, placed, pc, job, leg, answering>>
      /\ phone' \in {phone, [phone EXCEPT ![n] = "up"], [phone EXCEPT ![n] = "down"]}
      /\ answered' \in {answered, answered \cup {n}}
      /\ byes' \in {byes, byes \ {n}, byes \cup {n}}
  BY DEF ReadAnswer, ByeIgnored, GatewayPicksUp, GatewayHangsUp, sipVars
<1>2. TypeOK'
  BY <1>1 DEF IInv, TypeOK
<1>3. QED
  BY <1>1, <1>2, LockUntouched DEF Quiet

LEMMA LinkLostKeeps ==
  ASSUME IInv, LinkLost PROVE IInv'
<1>1. /\ link' = "lost"
      /\ UNCHANGED <<rt, ses, dialog, placed, pc, job, leg, phone, answered,
                     byes, answering>>
  BY DEF LinkLost, gatewayVars
<1>2. TypeOK'
  BY <1>1 DEF IInv, TypeOK
<1>3. QED
  BY <1>1, <1>2, LockUntouched DEF Quiet

LEMMA SupervisorGoesOn ==
  ASSUME IInv, SupervisorByeReturns \/ SipCloses PROVE IInv'
<1>1. /\ pc' \in {[pc EXCEPT ![Supervisor] = "closing"],
                  [pc EXCEPT ![Supervisor] = "closed", ![Reader] = "out"]}
      /\ rt' \in {rt, [rt EXCEPT !.ending = FALSE]}
      /\ link' \in {link, "closed"}
      /\ leg' \in {leg, [leg EXCEPT ![Supervisor] = NoCall]}
      /\ phone' \in {phone, [phone EXCEPT ![leg[Supervisor]] = "down"]}
      /\ UNCHANGED <<ses, dialog, placed, job, answered, byes, answering>>
  BY DEF SupervisorByeReturns, SipCloses, sipVars, gatewayVars
<1>2. rt \in RuntimeStates
  BY DEF IInv, TypeOK
<1>3. rt' \in RuntimeStates /\ (Quiet(rt) => Quiet(rt'))
  BY <1>1, <1>2 DEF RuntimeStates, Quiet
<1>4. TypeOK'
  BY <1>1, <1>3, NoCallTypes DEF IInv, TypeOK, Stages
<1>5. \A u \in Lockers : pc'[u] = pc[u]
  BY <1>1, TasksAssumption DEF IInv, TypeOK, Lockers, Tasks
<1>6. ses'.microphone => ses'.state = "streaming"
  BY <1>1 DEF IInv, LockInv, MicrophoneOnlyWhileStreaming
<1>7. LockInv'
  BY <1>1, <1>3, <1>4, <1>5, <1>6, LockersKept, TypesSplit
     DEF TypeOK, ControlTypes, LockHeld, WillPlace, WillReport, Unlocked
<1>8. QED
  BY <1>4, <1>7 DEF IInv

-----------------------------------------------------------------------------
(* The theorems                                                             *)

LEMMA InvStep == IInv /\ [Next]_vars => IInv'
<1> SUFFICES ASSUME IInv, [Next]_vars PROVE IInv'
  OBVIOUS
<1>1. CASE UNCHANGED vars
  <2>1. TypeOK'
    BY <1>1 DEF IInv, TypeOK, vars
  <2>2. QED
    BY <1>1, <2>1, LockUntouched DEF vars, Quiet
<1>2. ASSUME NEW t \in Tasks, TeardownStep(t) PROVE IInv'
  BY <1>2, HelpersGoneKeeps, ProcessGoneKeeps, ByeReturnsKeeps DEF TeardownStep
<1>3. ASSUME NEW c \in Commands, UserStep(c) PROVE IInv'
  <2>1. ASSUME End(c) PROVE IInv'
    BY <2>1, EndKeeps DEF End, Admitted, Lockers
  <2>2. QED
    BY <1>3, <2>1, StartKeeps, StartSharedKeeps, SwitchDeviceKeeps DEF UserStep
<1>4. ASSUME NEW c \in Commands, Queues(c) \/ StartStep(c) PROVE IInv'
  BY <1>4, QueuesKeeps, PrepareFailsKeeps, InviteRefusedKeeps, InviteKeeps,
     AnsweredStartKeeps, AckRefusedKeeps, AnswerUnusableKeeps, InviteFailsKeeps,
     SpawnKeeps, SpawnFailsKeeps DEF StartStep
<1>5. ASSUME NEW on \in BOOLEAN, SetMicrophone(on) PROVE IInv'
  BY <1>5, SetMicrophoneKeeps
<1>6. ASSUME ViewerStep PROVE IInv'
  BY <1>6, ViewerJoinsKeeps, ViewerGivesUpKeeps, ViewerLeavesKeeps DEF ViewerStep
<1>7. ASSUME NEW t \in Timers, TimerStep(t) PROVE IInv'
  BY <1>7, TimerFiresKeeps, TimerEndsKeeps DEF TimerStep
<1>8. ASSUME NEW w \in Watchdogs, WatchdogStep(w) PROVE IInv'
  BY <1>8, FirstVideoKeeps, WatchdogFailsKeeps DEF WatchdogStep
<1>9. ASSUME NEW n \in Calls, ReaderStep(n) \/ GatewayStep(n) PROVE IInv'
  BY <1>9, RemoteEndedKeeps, ReaderAndGatewayKeep DEF ReaderStep, GatewayStep
<1>10. ASSUME FFmpegExits \/ LinkLost \/ SupervisorStep PROVE IInv'
  BY <1>10, FFmpegExitsKeeps, LinkLostKeeps, SupervisorClosesKeeps,
     SupervisorGoesOn DEF SupervisorStep
<1>11. QED
  BY <1>1, <1>2, <1>3, <1>4, <1>5, <1>6, <1>7, <1>8, <1>9, <1>10 DEF Next

LEMMA InvAlways == Spec => []IInv
<1>1. QED
  BY InvInit, InvStep, PTL DEF Spec

\* Every variable keeps its type, and no more calls are placed than the bound
\* allows: the lock admits one start at a time.
THEOREM TypeCorrect == Spec => []TypeOK
<1>1. IInv => TypeOK
  BY DEF IInv
<1>2. QED
  BY <1>1, InvAlways, PTL

\* Once end() has disabled capture nothing enables it before end() is over,
\* whatever the gateway, the network, the watchdogs and the supervisor do: the
\* lock is held in every ENDING state, and with it held both flags are off.
THEOREM EndingStaysMuted == Spec => []EndingMuted
<1>1. ASSUME IInv PROVE EndingMuted
  <2>1. ASSUME ses.state = "ending" PROVE ~LockFree
    BY <1>1, <2>1 DEF IInv, LockInv, EndingIsReported, WillReport,
                      TeardownStages, LockFree, Lockers, Unlocked
  <2>2. QED
    BY <1>1, <2>1 DEF EndingMuted, IInv, LockInv, MutedUnderLock, Quiet
<1>2. QED
  BY <1>1, InvAlways, PTL

\* The panel never shows a microphone that is on outside a streaming call.
THEOREM MicrophoneShownOnlyWhileStreaming ==
  Spec => []MicrophoneOnlyWhileStreaming
<1>1. IInv => MicrophoneOnlyWhileStreaming
  BY DEF IInv, LockInv
<1>2. QED
  BY <1>1, InvAlways, PTL
-----------------------------------------------------------------------------
(* What the stretches of a teardown leave of the runtime.                   *)

LEMMA ProcessGoneLeaves ==
  ASSUME NEW r \in RuntimeStates, NEW stage
  PROVE  LET q == AfterProcess(r, stage)
         IN /\ q.process = r.process /\ q.monitor = r.monitor
            /\ ~q.audio /\ ~q.sending
            /\ q.ending <=> (r.ending /\ stage # "out")
            /\ q.negotiated = IF stage = "out" THEN NoCall ELSE r.negotiated
BY DEF AfterProcess, AudioClosed, Forgotten, RuntimeStates

LEMMA HelpersGoneLeave ==
  ASSUME NEW r \in RuntimeStates, NEW stage
  PROVE  LET q == AfterHelpers(r, stage)
         IN /\ q.process = NoCall /\ q.monitor = r.monitor
            /\ q.audio <=> (r.audio /\ stage = "terminating")
            /\ q.sending <=> (r.sending /\ stage = "terminating")
            /\ q.ending <=> (r.ending /\ stage # "out")
            /\ q.negotiated = IF stage = "out" THEN NoCall ELSE r.negotiated
<1> DEFINE p == ProcessTaken(r)
<1>1. /\ p \in RuntimeStates /\ p.process = NoCall /\ p.monitor = r.monitor
      /\ p.audio = r.audio /\ p.sending = r.sending
      /\ p.ending = r.ending /\ p.negotiated = r.negotiated
  BY RuntimeTypes DEF ProcessTaken, RuntimeStates
<1>2. CASE stage = "terminating"
  BY <1>1, <1>2 DEF AfterHelpers
<1>3. CASE stage # "terminating"
  <2> DEFINE q == AfterProcess(p, stage)
  <2>1. AfterHelpers(r, stage) = q
    BY <1>3 DEF AfterHelpers
  <2> HIDE DEF p
  <2>2. /\ q.process = p.process /\ q.monitor = p.monitor
        /\ ~q.audio /\ ~q.sending
        /\ q.ending <=> (p.ending /\ stage # "out")
        /\ q.negotiated = IF stage = "out" THEN NoCall ELSE p.negotiated
    BY <1>1, ProcessGoneLeaves
  <2>3. QED
    BY <1>1, <1>3, <2>1, <2>2
<1>4. QED
  BY <1>2, <1>3

LEMMA TornDownLeaves ==
  ASSUME NEW r \in RuntimeStates, ~r.ending,
         NEW stage \in TeardownStages \cup {"out"}
  PROVE  LET q == TornDown(r, stage)
         IN /\ q.monitor = None /\ ~q.sending
            /\ q.ending <=> (stage # "out")
            /\ q.negotiated = IF stage = "out" THEN NoCall ELSE r.negotiated
            /\ q.process = IF stage = "cancelling" THEN r.process ELSE NoCall
            /\ stage \in {"hangingUp", "out"} => ~q.audio
<1> DEFINE e == Ending(r)
<1>1. /\ e \in RuntimeStates /\ e.ending /\ e.monitor = None /\ ~e.sending
      /\ e.process = r.process /\ e.negotiated = r.negotiated
  <2> DEFINE m == Muted(r)
  <2>1. m.process = r.process /\ m.negotiated = r.negotiated
    BY DEF Muted, WithMicrophone, RuntimeStates
  <2>2. m \in RuntimeStates /\ ~m.sending
    BY RuntimeTypes, MutedIsQuiet DEF Quiet
  <2>3. e \in RuntimeStates /\ e = [m EXCEPT !.ending = TRUE, !.monitor = None]
    BY RuntimeTypes DEF Ending
  <2> HIDE DEF m, e
  <2>4. QED
    BY <2>1, <2>2, <2>3 DEF RuntimeStates
<1>2. CASE stage = "cancelling"
  BY <1>1, <1>2 DEF TornDown, TeardownStages
<1>3. CASE stage # "cancelling"
  <2> DEFINE q == AfterHelpers(e, stage)
  <2>1. TornDown(r, stage) = q
    BY <1>3 DEF TornDown
  <2> HIDE DEF e
  <2>2. /\ q.process = NoCall /\ q.monitor = e.monitor
        /\ q.audio <=> (e.audio /\ stage = "terminating")
        /\ q.sending <=> (e.sending /\ stage = "terminating")
        /\ q.ending <=> (e.ending /\ stage # "out")
        /\ q.negotiated = IF stage = "out" THEN NoCall ELSE e.negotiated
    BY <1>1, HelpersGoneLeave
  <2>3. QED
    BY <1>1, <1>3, <2>1, <2>2 DEF TeardownStages
<1>4. QED
  BY <1>2, <1>3

-----------------------------------------------------------------------------
(* Exactly what becomes of every task.                                      *)

\* while t takes a step, the watchdog m (if any) is cancelled; the others stay
\* where they were, or are a cancelled timer, or lose the event they wait for
OthersShed(t, m) ==
  \A x \in Tasks \ {t} :
    /\ job'[x] = job[x]
    /\ pc'[x] # "out" => leg'[x] = leg[x]
    /\ x = m => pc'[x] = "out"
    /\ x # m => \/ pc'[x] = pc[x]
                \/ pc[x] = "armed" /\ pc'[x] = "out"
                \/ pc[x] = "waiting" /\ pc'[x] = "deaf"

\* the watchdog that t cancels by starting a teardown of runtime r
CancelledBy(t, r) == IF t \in Watchdogs THEN None ELSE r.monitor

\* t stops inside the teardown
SuspendedAt(t, j, stage, q, s, d) ==
  /\ stage \in TeardownStages
  /\ pc'[t] = stage /\ job'[t] = j /\ rt' = q /\ ses' = s
  /\ dialog' = IF stage = "hangingUp" THEN NoCall ELSE d

\* t has left the teardown, or never entered it
Left(t, j, q, s, d) ==
  /\ Returned(t, j, q, s)
  /\ dialog' = IF pc'[t] = "sipBye" THEN NoCall ELSE d

\* what the session hears when a teardown has come to its end
Ended(s) == Delivered(s, CallEnded(s))

\* The stages pcs may differ from pc in a timer that is cancelled.
TimersOnly(pcs) ==
  \A x \in Tasks : pcs[x] = pc[x] \/ (pc[x] = "armed" /\ pcs[x] = "out")

LEMMA TimersOnlyCancelled ==
  ASSUME TypeOK
  PROVE  /\ TimersOnly(pc) /\ TimersOnly(TimerCancelled(pc))
         /\ pc \in [Tasks -> Stages] /\ TimerCancelled(pc) \in [Tasks -> Stages]
BY TimersShed DEF TimersOnly, TimerCancelled, TypeOK

\* Stops leaves every other task where pcs has it, and with its call.
LEMMA StopsExactly ==
  ASSUME TypeOK, NEW t \in Tasks, NEW j \in Jobs, NEW o \in Outcomes,
         NEW d \in CallOrNone, NEW pcs \in [Tasks -> Stages],
         Stops(t, j, o, d, pcs)
  PROVE  /\ pc'[t] = o.at /\ job'[t] = JobAt(j, o.at)
         /\ rt' = o.rt /\ ses' = o.ses
         /\ dialog' = IF o.at \in {"hangingUp", "sipBye"} THEN NoCall ELSE d
         /\ \A x \in Tasks \ {t} : /\ job'[x] = job[x] /\ pc'[x] = pcs[x]
                                   /\ pc'[x] # "out" => leg'[x] = leg[x]
<1>1. \A x \in Tasks \ {t} : pc'[x] # "out" => leg'[x] = leg[x]
  BY DEF Stops
<1>2. dialog' = IF o.at \in {"hangingUp", "sipBye"} THEN NoCall ELSE d
  BY DEF Stops
<1>3. QED
  BY <1>1, <1>2, StopsRests

\* t returns at once from a teardown that another task is in the middle of,
\* or comes to the end of its own.
LEMMA LeavesTeardown ==
  ASSUME TypeOK, NEW t \in Tasks, NEW j \in Jobs, NEW q \in RuntimeStates,
         NEW s \in SessionStates, NEW e, NEW d \in CallOrNone,
         NEW pcs \in [Tasks -> Stages],
         Stops(t, j, TeardownReturned(t, j, q, s, e), d, pcs)
  PROVE  /\ Left(t, j, q, s, d)
         /\ \A x \in Tasks \ {t} : /\ job'[x] = job[x] /\ pc'[x] = pcs[x]
                                   /\ pc'[x] # "out" => leg'[x] = leg[x]
<1> DEFINE o == TeardownReturned(t, j, q, s, e)
<1>1. o \in Outcomes
  BY ReturnIsOutcome
<1>2. Returned(t, j, q, s)
  BY ReturnRests
<1> HIDE DEF o
<1>3. /\ pc'[t] = o.at
      /\ dialog' = IF o.at \in {"hangingUp", "sipBye"} THEN NoCall ELSE d
      /\ \A x \in Tasks \ {t} : /\ job'[x] = job[x] /\ pc'[x] = pcs[x]
                                /\ pc'[x] # "out" => leg'[x] = leg[x]
  BY <1>1, StopsExactly DEF o
<1>4. pc'[t] # "hangingUp"
  BY <1>2 DEF Returned, ReturnedFromStart, ReturnedFromEnd, BeganStart,
              ReturnedToCaller
<1>5. QED
  BY <1>2, <1>3, <1>4 DEF Left

\* A stretch of a teardown, run with the stages pcs.
LEMMA TeardownStopsExactly ==
  ASSUME TypeOK, NEW t \in Tasks, NEW j \in Jobs, NEW q \in RuntimeStates,
         NEW s \in SessionStates, NEW d \in CallOrNone,
         NEW stage \in TeardownStages \cup {"out"},
         NEW pcs \in [Tasks -> Stages],
         TeardownStops(t, j, stage, q, s, d, pcs)
  PROVE  /\ IF stage = "out"
            THEN Left(t, j, q, Ended(s), d)
            ELSE SuspendedAt(t, j, stage, q, s, d)
         /\ \A x \in Tasks \ {t} :
              /\ job'[x] = job[x]
              /\ pc'[x] # "out" => leg'[x] = leg[x]
              /\ pc'[x] = pcs[x] \/ (pcs[x] = "waiting" /\ pc'[x] = "deaf")
<1>1. CASE stage = "out"
  <2> DEFINE s1 == Ended(s)
             quiet == Deafened(pcs)
  <2>1. s1 \in SessionStates
    BY SessionTypes DEF Ended, Delivered
  <2>2. quiet \in [Tasks -> Stages]
    BY DEF Deafened, Stages
  <2>3. Stops(t, j, TeardownReturned(t, j, q, s1, d), d, quiet)
    BY <1>1 DEF TeardownStops, Ended
  <2> HIDE DEF s1, quiet
  <2>4. /\ Left(t, j, q, s1, d)
        /\ \A x \in Tasks \ {t} : /\ job'[x] = job[x] /\ pc'[x] = quiet[x]
                                  /\ pc'[x] # "out" => leg'[x] = leg[x]
    BY <2>1, <2>2, <2>3, LeavesTeardown
  <2>5. \A x \in Tasks : quiet[x] = pcs[x] \/ (pcs[x] = "waiting" /\ quiet[x] = "deaf")
    BY DEF quiet, Deafened
  <2>6. QED
    BY <1>1, <2>4, <2>5 DEF s1
<1>2. CASE stage # "out"
  <2> DEFINE o == [rt |-> q, ses |-> s, at |-> stage]
  <2>1. o \in Outcomes
    BY <1>2 DEF Outcomes, Stages
  <2>2. Stops(t, j, o, d, pcs)
    BY <1>2 DEF TeardownStops
  <2>3. /\ pc'[t] = o.at /\ job'[t] = JobAt(j, o.at) /\ rt' = o.rt /\ ses' = o.ses
        /\ dialog' = IF o.at \in {"hangingUp", "sipBye"} THEN NoCall ELSE d
        /\ \A x \in Tasks \ {t} : /\ job'[x] = job[x] /\ pc'[x] = pcs[x]
                                  /\ pc'[x] # "out" => leg'[x] = leg[x]
    BY <2>1, <2>2, StopsExactly
  <2>4. SuspendedAt(t, j, stage, q, s, d)
    BY <1>2, <2>3 DEF SuspendedAt, JobAt, TeardownStages
  <2>5. QED
    BY <1>2, <2>3, <2>4
<1>3. QED
  BY <1>1, <1>2

\* A task that calls _teardown: it declines, stops inside, or is through.
LEMMA TeardownExactly ==
  ASSUME TypeOK, NEW t \in Tasks, NEW j \in Jobs, NEW r \in RuntimeStates,
         NEW s \in SessionStates, NEW d \in CallOrNone,
         NEW pcs \in {pc, TimerCancelled(pc)},
         Teardown(t, j, r, s, d, pcs)
  PROVE  LET stage == StageOfTeardown(r, t, HasPeer(d))
             q     == TornDown(r, stage)
         IN /\ r.ending => Left(t, j, r, s, d) /\ OthersShed(t, None)
            /\ ~r.ending =>
                 /\ OthersShed(t, CancelledBy(t, r))
                 /\ IF stage = "out"
                    THEN Left(t, j, q, Ended(s), Kept(t, stage, d))
                    ELSE SuspendedAt(t, j, stage, q, s, d)
<1> DEFINE stage == StageOfTeardown(r, t, HasPeer(d))
           q == TornDown(r, stage)
<1>1. pcs \in [Tasks -> Stages] /\ TimersOnly(pcs)
  BY TimersOnlyCancelled
<1>2. CASE r.ending
  <2>1. Stops(t, j, TeardownReturned(t, j, r, s, d), d, pcs)
    BY <1>2 DEF Teardown
  <2>2. /\ Left(t, j, r, s, d)
        /\ \A x \in Tasks \ {t} : /\ job'[x] = job[x] /\ pc'[x] = pcs[x]
                                  /\ pc'[x] # "out" => leg'[x] = leg[x]
    BY <1>1, <2>1, LeavesTeardown
  <2>3. None \notin Tasks
    BY TasksAssumption
  <2>4. QED
    BY <1>1, <1>2, <2>2, <2>3 DEF OthersShed, TimersOnly
<1>3. CASE ~r.ending
  <2> DEFINE left == MonitorCancelled(pcs, t, r)
             k == Kept(t, stage, d)
  <2>1. TeardownStops(t, j, stage, q, s, k, left)
    BY <1>3 DEF Teardown
  <2>2. left \in [Tasks -> Stages]
    BY <1>1 DEF MonitorCancelled, Stages
  <2>3. \A x \in Tasks : /\ x = CancelledBy(t, r) => left[x] = "out"
                         /\ x # CancelledBy(t, r) => left[x] = pcs[x]
    BY TasksAssumption DEF MonitorCancelled, CancelledBy
  <2>4. q \in RuntimeStates /\ k \in CallOrNone /\ stage \in TeardownStages \cup {"out"}
    BY TeardownTypes, KeptTypes, StagesOfTeardown
  <2>5. stage # "out" => k = d
    BY DEF Kept
  <2> HIDE DEF left, q, stage, k
  <2>6. /\ IF stage = "out"
           THEN Left(t, j, q, Ended(s), k)
           ELSE SuspendedAt(t, j, stage, q, s, k)
        /\ \A x \in Tasks \ {t} :
             /\ job'[x] = job[x]
             /\ pc'[x] # "out" => leg'[x] = leg[x]
             /\ pc'[x] = left[x] \/ (left[x] = "waiting" /\ pc'[x] = "deaf")
    BY <2>1, <2>2, <2>4, TeardownStopsExactly
  <2>7. OthersShed(t, CancelledBy(t, r))
    BY <1>1, <2>3, <2>6 DEF OthersShed, TimersOnly
  <2>8. QED
    BY <1>3, <2>5, <2>6, <2>7 DEF q, stage, k
<1>4. QED
  BY <1>2, <1>3

-----------------------------------------------------------------------------
(* Where each kind of task can be, and what for.                            *)

\* task t may be at this stage, doing job j
Fits(t, at, j) ==
  /\ at \in {"queued", "preparing", "inviting", "acknowledging", "spawning"} => t \in Commands
  /\ at \in {"armed", "fired"} => t \in Timers
  /\ at \in {"waiting", "deaf", "watching"} => t \in Watchdogs
  /\ at \in {"sipBye", "closing", "closed"} => t = Supervisor
  /\ t \notin Lockers => j = "none"
  /\ t \in Timers => j \in {"none", "end"}
  /\ t \in Lockers /\ at \in TeardownStages => j # "none"

KindInv == \A t \in Tasks : Fits(t, pc[t], job[t])

\* what a task of this kind calls _teardown for
JobFits(t, j) ==
  /\ t \notin Lockers => j = "none"
  /\ t \in Lockers => j # "none"
  /\ t \in Timers => j = "end"

\* A task that other tasks make way for keeps the kinds if it fits itself.
LEMMA KindKept ==
  ASSUME KindInv, NEW t \in Tasks, OthersFrom(t, pc), Fits(t, pc'[t], job'[t])
  PROVE  KindInv'
<1> SUFFICES ASSUME NEW x \in Tasks \ {t} PROVE Fits(x, pc'[x], job'[x])
  BY DEF KindInv
<1>1. Fits(x, pc[x], job[x]) /\ job'[x] = job[x] /\ Shed(x, pc[x], pc'[x])
  BY DEF KindInv, OthersFrom
<1>2. CASE pc'[x] = pc[x]
  BY <1>1, <1>2
<1>3. CASE pc'[x] = "out"
  BY <1>1, <1>3 DEF Fits, TeardownStages
<1>4. CASE pc'[x] = "deaf" /\ pc[x] = "waiting"
  BY <1>1, <1>4 DEF Fits, TeardownStages
<1>5. QED
  BY <1>1, <1>2, <1>3, <1>4 DEF Shed

\* A task that comes to rest fits.
LEMMA RestFits ==
  ASSUME NEW t \in Tasks, NEW j \in Jobs, JobFits(t, j), NEW q, NEW s,
         Rested(t, j, q, s)
  PROVE  Fits(t, pc'[t], job'[t])
<1>1. Lockers = Commands \cup Timers /\ Commands \cap Timers = {}
  BY TasksAssumption DEF Lockers
<1>2. CASE Suspended(t, j, q, s)
  BY <1>1, <1>2 DEF Fits, JobFits, Suspended, TeardownStages
<1>3. ASSUME NEW s1, Returned(t, j, q, s1) PROVE Fits(t, pc'[t], job'[t])
  <2>1. CASE j = "start"
    BY <1>1, <1>3, <2>1, JobsAssumption
       DEF Fits, JobFits, Returned, ReturnedFromStart, TeardownStages
  <2>2. CASE j = "end"
    BY <1>1, <1>3, <2>2, JobsAssumption
       DEF Fits, JobFits, Returned, ReturnedFromEnd, TeardownStages
  <2>3. CASE j \in Devices
    BY <1>1, <1>3, <2>3, JobsAssumption
       DEF Fits, JobFits, Returned, BeganStart, TeardownStages
  <2>4. CASE j = "none"
    BY <1>1, <1>3, <2>4, JobsAssumption
       DEF Fits, JobFits, Returned, ReturnedToCaller, TeardownStages
  <2>5. QED
    BY <2>1, <2>2, <2>3, <2>4 DEF Jobs
<1>4. QED
  BY <1>2, <1>3 DEF Rested

\* A call of _teardown.
LEMMA TeardownKeepsKind ==
  ASSUME TypeOK, KindInv,
         NEW t \in Tasks, NEW j \in Jobs, JobFits(t, j),
         NEW r \in RuntimeStates, NEW s \in SessionStates, NEW d \in CallOrNone,
         NEW pcs \in {pc, TimerCancelled(pc)},
         Teardown(t, j, r, s, d, pcs)
  PROVE  KindInv'
<1> DEFINE q == TornDown(r, StageOfTeardown(r, t, HasPeer(d)))
<1>1. pcs \in [Tasks -> Stages]
  BY TimersOnlyCancelled
<1>2. OthersFrom(t, pcs) /\ Rested(t, j, q, s)
  BY <1>1, TeardownRests
<1> HIDE DEF q
<1>3. OthersFrom(t, pc)
  BY <1>2, TimersShed
<1>4. QED
  BY <1>2, <1>3, RestFits, KindKept

\* A task inside a teardown goes on.
LEMMA ResumeKeepsKind ==
  ASSUME TypeOK, KindInv, NEW t \in Tasks, pc[t] \in TeardownStages,
         NEW stage \in TeardownStages \cup {"out"}, NEW q \in RuntimeStates,
         NEW d \in CallOrNone,
         TeardownStops(t, job[t], stage, q, ses, d, pc)
  PROVE  KindInv'
<1>1. /\ pc \in [Tasks -> Stages] /\ job[t] \in Jobs /\ ses \in SessionStates
      /\ Fits(t, pc[t], job[t])
  BY DEF TypeOK, KindInv
<1>2. OthersFrom(t, pc) /\ Rested(t, job[t], q, ses)
  BY <1>1, TeardownStopsRests
<1>3. JobFits(t, job[t])
  BY <1>1 DEF JobFits, Fits, Lockers
<1>4. QED
  BY <1>1, <1>2, <1>3, RestFits, KindKept

\* A step that moves one task, by hand.
LEMMA MoveKeepsKind ==
  ASSUME TypeOK, KindInv, NEW t \in Tasks, NEW at,
         pc' = [pc EXCEPT ![t] = at], UNCHANGED job, Fits(t, at, job[t])
  PROVE  KindInv'
BY DEF KindInv, TypeOK

LEMMA TeardownStepKeepsKind ==
  ASSUME TypeOK, KindInv, NEW t \in Tasks, TeardownStep(t) PROVE KindInv'
<1> USE DEF TeardownStages
<1>1. rt \in RuntimeStates /\ dialog \in CallOrNone
  BY DEF TypeOK
<1>2. CASE HelpersGone(t)
  <2> DEFINE stage == StageAfterHelpers(rt, t, HasPeer(dialog))
             q == AfterHelpers(rt, stage)
  <2>1. /\ stage \in TeardownStages \cup {"out"} /\ q \in RuntimeStates
        /\ Kept(t, stage, dialog) \in CallOrNone
    BY <1>1, StagesOfTeardown, TeardownTypes, KeptTypes
  <2>2. /\ pc[t] = "cancelling"
        /\ TeardownStops(t, job[t], stage, q, ses, Kept(t, stage, dialog), pc)
    BY <1>2 DEF HelpersGone
  <2> HIDE DEF stage, q
  <2>3. QED
    BY <2>1, <2>2, ResumeKeepsKind
<1>3. CASE ProcessGone(t)
  <2> DEFINE stage == StageAfterProcess(t, HasPeer(dialog))
             q == AfterProcess(rt, stage)
  <2>1. /\ stage \in TeardownStages \cup {"out"} /\ q \in RuntimeStates
        /\ Kept(t, stage, dialog) \in CallOrNone
    BY <1>1, StagesOfTeardown, TeardownTypes, KeptTypes
  <2>2. /\ pc[t] = "terminating"
        /\ TeardownStops(t, job[t], stage, q, ses, Kept(t, stage, dialog), pc)
    BY <1>3 DEF ProcessGone
  <2> HIDE DEF stage, q
  <2>3. QED
    BY <2>1, <2>2, ResumeKeepsKind
<1>4. CASE ByeAnswered(t) \/ ByeUnanswered(t)
  <2>1. /\ pc[t] = "hangingUp"
        /\ TeardownStops(t, job[t], "out", Forgotten(rt), ses, dialog, pc)
    BY <1>4 DEF ByeAnswered, ByeUnanswered, ByeReturns
  <2>2. Forgotten(rt) \in RuntimeStates
    BY <1>1, RuntimeTypes
  <2>3. QED
    BY <1>1, <2>1, <2>2, ResumeKeepsKind
<1>5. QED
  BY <1>2, <1>3, <1>4 DEF TeardownStep

LEMMA EndKeepsKind ==
  ASSUME TypeOK, KindInv, NEW t \in Lockers, EndLocked(t) PROVE KindInv'
<1>1. /\ t \in Tasks /\ rt \in RuntimeStates /\ ses \in SessionStates
      /\ dialog \in CallOrNone /\ "end" \in Jobs /\ JobFits(t, "end")
  BY DEF TypeOK, Lockers, Tasks, Jobs, JobFits
<1>2. CASE ses.state = "idle"
  <2> DEFINE o == [rt |-> rt, ses |-> NothingToEnd(ses), at |-> "out"]
  <2>1. Stops(t, "end", o, dialog, TimerCancelled(pc))
    BY <1>2 DEF EndLocked
  <2>2. o \in Outcomes /\ TimerCancelled(pc) \in [Tasks -> Stages]
    BY <1>1, SessionTypes, TimersShed DEF Outcomes, Stages
  <2> HIDE DEF o
  <2>3. /\ pc'[t] = o.at /\ job'[t] = JobAt("end", o.at)
        /\ \A x \in Tasks \ {t} : job'[x] = job[x] /\ pc'[x] = TimerCancelled(pc)[x]
    BY <1>1, <2>1, <2>2, StopsRests
  <2>4. OthersFrom(t, pc)
    BY <1>1, <2>3, TimersShed DEF OthersFrom, Shed
  <2>5. Fits(t, pc'[t], job'[t])
    BY <2>3 DEF o, JobAt, Fits, TeardownStages
  <2>6. QED
    BY <1>1, <2>4, <2>5, KindKept
<1>3. CASE ses.state # "idle"
  <2>1. Teardown(t, "end", Muted(rt), EndBegun(ses), dialog, TimerCancelled(pc))
    BY <1>3 DEF EndLocked
  <2>2. Muted(rt) \in RuntimeStates /\ EndBegun(ses) \in SessionStates
    BY <1>1, RuntimeTypes, SessionTypes
  <2>3. QED
    BY <1>1, <2>1, <2>2, TeardownKeepsKind
<1>4. QED
  BY <1>2, <1>3

LEMMA UserStepKeepsKind ==
  ASSUME TypeOK, KindInv, NEW c \in Commands, Queues(c) \/ UserStep(c)
  PROVE  KindInv'
<1>1. /\ c \in Tasks /\ c \in Lockers /\ c \notin Timers
      /\ rt \in RuntimeStates /\ ses \in SessionStates
      /\ dialog \in CallOrNone /\ pc \in [Tasks -> Stages]
  BY TasksAssumption DEF TypeOK, Lockers, Tasks
<1>2. ASSUME NEW d \in Devices, Start(c, d) PROVE KindInv'
  <2> DEFINE o == Started(rt, ses, d)
  <2>1. Stops(c, "start", o, dialog, pc)
    BY <1>2 DEF Start
  <2>2. o \in Outcomes /\ "start" \in Jobs
    BY <1>1, StartedIsOutcome DEF Jobs
  <2> HIDE DEF o
  <2>3. /\ pc'[c] = o.at /\ job'[c] = JobAt("start", o.at)
        /\ \A x \in Tasks \ {c} : job'[x] = job[x] /\ pc'[x] = pc[x]
    BY <1>1, <2>1, <2>2, StopsRests
  <2>4. OthersFrom(c, pc)
    BY <2>3 DEF OthersFrom, Shed
  <2>5. o.at \in {"out", "preparing"}
    BY DEF o, Started
  <2>6. Fits(c, pc'[c], job'[c])
    BY <1>1, <2>3, <2>5 DEF JobAt, Fits, TeardownStages
  <2>7. QED
    BY <1>1, <2>4, <2>6, KindKept
<1>3. ASSUME NEW d \in Devices, StartShared(c, d) PROVE KindInv'
  <2>1. pc' = [pc EXCEPT ![c] = "out"] /\ UNCHANGED job
    BY <1>3 DEF StartShared
  <2>2. Fits(c, "out", job[c])
    BY <1>1 DEF Fits, TeardownStages
  <2>3. QED
    BY <1>1, <2>1, <2>2, MoveKeepsKind
<1>4. ASSUME NEW d \in Devices, SwitchDevice(c, d) PROVE KindInv'
  <2>1. Teardown(c, d, Muted(rt), EndBegun(ses), dialog, TimerCancelled(pc))
    BY <1>4 DEF SwitchDevice
  <2>2. Muted(rt) \in RuntimeStates /\ EndBegun(ses) \in SessionStates
    BY <1>1, RuntimeTypes, SessionTypes
  <2>3. d \in Jobs /\ JobFits(c, d)
    BY <1>1, JobsAssumption DEF Jobs, JobFits
  <2>4. QED
    BY <1>1, <2>1, <2>2, <2>3, TeardownKeepsKind
<1>5. ASSUME End(c) PROVE KindInv'
  BY <1>1, <1>5, EndKeepsKind DEF End
<1>6. ASSUME Queues(c) PROVE KindInv'
  <2>1. pc' = [pc EXCEPT ![c] = "queued"] /\ UNCHANGED job
    BY <1>6 DEF Queues
  <2>2. Fits(c, "queued", job[c])
    BY <1>1 DEF Fits, TeardownStages
  <2>3. QED
    BY <1>1, <2>1, <2>2, MoveKeepsKind
<1>7. QED
  BY <1>2, <1>3, <1>4, <1>5, <1>6 DEF UserStep

LEMMA StartStepKeepsKind ==
  ASSUME TypeOK, KindInv, NEW c \in Commands, StartStep(c) PROVE KindInv'
<1>1. /\ c \in Tasks /\ c \in Lockers /\ c \notin Timers /\ "start" \in Jobs
      /\ rt \in RuntimeStates /\ ses \in SessionStates /\ JobFits(c, "start")
      /\ dialog \in CallOrNone /\ pc \in [Tasks -> Stages] /\ leg[c] \in CallOrNone
  BY TasksAssumption DEF TypeOK, Lockers, Tasks, Jobs, JobFits
<1>2. ASSUME PrepareFails(c) PROVE KindInv'
  <2> DEFINE o == [rt |-> rt, ses |-> StartFailed(ses), at |-> "out"]
  <2>1. Stops(c, "start", o, dialog, pc)
    BY <1>2 DEF PrepareFails
  <2>2. o \in Outcomes
    BY <1>1, SessionTypes DEF Outcomes, Stages
  <2> HIDE DEF o
  <2>3. /\ pc'[c] = o.at /\ job'[c] = JobAt("start", o.at)
        /\ \A x \in Tasks \ {c} : job'[x] = job[x] /\ pc'[x] = pc[x]
    BY <1>1, <2>1, <2>2, StopsRests
  <2>4. OthersFrom(c, pc)
    BY <2>3 DEF OthersFrom, Shed
  <2>5. Fits(c, pc'[c], job'[c])
    BY <1>1, <2>3 DEF o, JobAt, Fits, TeardownStages
  <2>6. QED
    BY <1>1, <2>4, <2>5, KindKept
<1>3. ASSUME NEW r \in RuntimeStates, NEW d \in CallOrNone,
             Teardown(c, "start", r, ses, d, pc)
      PROVE  KindInv'
  BY <1>1, <1>3, TeardownKeepsKind
<1>4. ASSUME InviteRefused(c) PROVE KindInv'
  BY <1>1, <1>3, <1>4, RuntimeTypes DEF InviteRefused
<1>5. ASSUME AnswerUnusable(c) PROVE KindInv'
  BY <1>1, <1>3, <1>5, RuntimeTypes DEF AnswerUnusable
<1>6. ASSUME InviteFails(c) PROVE KindInv'
  BY <1>1, <1>3, <1>6 DEF InviteFails
<1>7. ASSUME SpawnFails(c) PROVE KindInv'
  BY <1>1, <1>3, <1>7 DEF SpawnFails
<1>8. ASSUME NEW at \in {"inviting", "acknowledging", "spawning"},
             pc' = [pc EXCEPT ![c] = at], UNCHANGED job
      PROVE  KindInv'
  <2>1. Fits(c, at, job[c])
    BY <1>1, <1>8 DEF Fits, TeardownStages
  <2>2. QED
    BY <1>1, <1>8, <2>1, MoveKeepsKind
<1>9. ASSUME Invite(c) PROVE KindInv'
  BY <1>8, <1>9 DEF Invite
<1>10. ASSUME InviteAnswered(c) \/ InviteAccepted(c) PROVE KindInv'
  BY <1>8, <1>10 DEF InviteAnswered, InviteAccepted
<1>11. ASSUME NEW w \in Watchdogs, Spawn(c, w) PROVE KindInv'
  <2>1. /\ pc' = [pc EXCEPT ![c] = "out", ![w] = "waiting"]
        /\ job' = [job EXCEPT ![c] = "none"]
    BY <1>11 DEF Spawn
  <2>2. w \in Tasks /\ w # c /\ w \notin Lockers
    BY TasksAssumption DEF Tasks, Lockers
  <2>3. Fits(c, "out", "none") /\ Fits(w, "waiting", job[w])
    BY <1>1, <2>2 DEF KindInv, Fits, TeardownStages
  <2>4. QED
    BY <1>1, <2>1, <2>2, <2>3 DEF KindInv, TypeOK
<1>12. ASSUME AckRefused(c) PROVE KindInv'
  BY <1>1, <1>3, <1>12 DEF AckRefused
<1>13. QED
  BY <1>2, <1>4, <1>5, <1>6, <1>7, <1>9, <1>10, <1>11, <1>12 DEF StartStep

LEMMA OtherStepsKeepKind ==
  ASSUME TypeOK, KindInv PROVE
    /\ ViewerStep => KindInv'
    /\ \A t \in Timers : TimerStep(t) => KindInv'
    /\ \A w \in Watchdogs : WatchdogStep(w) => KindInv'
    /\ \A n \in Calls : ReaderStep(n) => KindInv'
    /\ SupervisorStep => KindInv'
<1>1. /\ rt \in RuntimeStates /\ ses \in SessionStates /\ dialog \in CallOrNone
      /\ pc \in [Tasks -> Stages] /\ "none" \in Jobs
      /\ Reader \in Tasks /\ Supervisor \in Tasks
      /\ Reader \notin Lockers /\ Supervisor \notin Lockers
      /\ \A w \in Watchdogs : w \in Tasks /\ w \notin Lockers
  BY TasksAssumption DEF TypeOK, Tasks, Jobs, Lockers
<1>2. ASSUME UNCHANGED <<pc, job>> PROVE KindInv'
  BY <1>2 DEF KindInv
<1>3. ASSUME NEW t \in Tasks \ Lockers, NEW s \in SessionStates,
             NEW d \in CallOrNone, Teardown(t, "none", rt, s, d, pc)
      PROVE  KindInv'
  BY <1>1, <1>3, TeardownKeepsKind DEF JobFits, Lockers
<1>4. ASSUME ViewerStep PROVE KindInv'
  <2>1. ASSUME ViewerJoins PROVE KindInv'
    <3>1. pc' = TimerCancelled(pc) /\ UNCHANGED job
      BY <2>1 DEF ViewerJoins
    <3>2. \A x \in Tasks : pc'[x] \in {pc[x], "out"}
      BY <3>1 DEF TimerCancelled
    <3>3. QED
      BY <3>1, <3>2 DEF KindInv, Fits, TeardownStages
  <2>2. ASSUME NEW t \in Timers, ViewerLeaves(t) PROVE KindInv'
    <3>1. CASE UNCHANGED <<pc, job>>
      BY <1>2, <3>1
    <3>2. CASE pc' = [pc EXCEPT ![t] = "armed"] /\ UNCHANGED job
      <4>1. t \in Tasks /\ Fits(t, "armed", job[t])
        BY DEF KindInv, Fits, Tasks, TeardownStages
      <4>2. QED
        BY <3>2, <4>1, MoveKeepsKind
    <3>3. QED
      BY <2>2, <3>1, <3>2 DEF ViewerLeaves
  <2>3. QED
    BY <1>2, <1>4, <2>1, <2>2 DEF ViewerStep, ViewerGivesUp
<1>5. ASSUME NEW t \in Timers, TimerStep(t) PROVE KindInv'
  <2>1. t \in Tasks /\ t \in Lockers
    BY DEF Tasks, Lockers
  <2>2. Fits(t, "fired", job[t])
    BY <2>1 DEF KindInv, Fits, TeardownStages
  <2>3. QED
    BY <1>5, <2>1, <2>2, MoveKeepsKind, EndKeepsKind DEF TimerStep, TimerFires, TimerEnds
<1>6. ASSUME NEW w \in Watchdogs, WatchdogStep(w) PROVE KindInv'
  <2>1. CASE FirstVideo(w)
    <3>1. pc' = [pc EXCEPT ![w] = "watching"] /\ UNCHANGED job
      BY <2>1 DEF FirstVideo
    <3>2. Fits(w, "watching", job[w])
      BY <1>1 DEF KindInv, Fits, TeardownStages
    <3>3. QED
      BY <1>1, <3>1, <3>2, MoveKeepsKind
  <2>2. CASE WatchdogFails(w)
    <3>1. PICK s \in {ses, RuntimeError(ses)} : Teardown(w, "none", rt, s, dialog, pc)
      BY <2>2 DEF WatchdogFails, Delivered
    <3>2. s \in SessionStates
      BY <1>1, SessionTypes
    <3>3. QED
      BY <1>1, <1>3, <3>1, <3>2
  <2>3. QED
    BY <1>6, <2>1, <2>2 DEF WatchdogStep
<1>7. ASSUME NEW n \in Calls, ReaderStep(n) PROVE KindInv'
  <2>1. CASE RemoteEnded(n)
    BY <1>1, <1>3, <2>1, NoCallTypes DEF RemoteEnded
  <2>2. QED
    BY <1>2, <1>7, <2>1 DEF ReaderStep, ReadAnswer, ByeIgnored
<1>8. ASSUME SupervisorStep PROVE KindInv'
  <2>1. CASE SupervisorCloses
    BY <1>1, <1>3, <2>1 DEF SupervisorCloses
  <2>2. CASE SupervisorByeReturns
    <3>1. pc' = [pc EXCEPT ![Supervisor] = "closing"] /\ UNCHANGED job
      BY <2>2 DEF SupervisorByeReturns
    <3>2. Fits(Supervisor, "closing", job[Supervisor])
      BY <1>1 DEF KindInv, Fits, TeardownStages, Lockers
    <3>3. QED
      BY <1>1, <3>1, <3>2, MoveKeepsKind
  <2>3. CASE SipCloses
    <3>1. /\ pc' = [pc EXCEPT ![Supervisor] = "closed", ![Reader] = "out"]
          /\ UNCHANGED job
      BY <2>3 DEF SipCloses
    <3>2. Fits(Supervisor, "closed", job[Supervisor]) /\ Fits(Reader, "out", job[Reader])
      BY <1>1 DEF KindInv, Fits, TeardownStages, Lockers
    <3>3. QED
      BY <1>1, <3>1, <3>2 DEF KindInv
  <2>4. QED
    BY <1>8, <2>1, <2>2, <2>3 DEF SupervisorStep
<1>9. QED
  BY <1>4, <1>5, <1>6, <1>7, <1>8

LEMMA KindStep == TypeOK /\ KindInv /\ [Next]_vars => KindInv'
<1> SUFFICES ASSUME TypeOK, KindInv, [Next]_vars PROVE KindInv'
  OBVIOUS
<1>1. ASSUME UNCHANGED <<pc, job>> PROVE KindInv'
  BY <1>1 DEF KindInv
<1>2. CASE UNCHANGED vars
  BY <1>1, <1>2 DEF vars
<1>3. ASSUME NEW c \in Commands, Queues(c) \/ UserStep(c) \/ StartStep(c)
      PROVE  KindInv'
  BY <1>3, UserStepKeepsKind, StartStepKeepsKind
<1>4. ASSUME NEW n \in Calls, GatewayStep(n) PROVE KindInv'
  BY <1>1, <1>4 DEF GatewayStep, GatewayPicksUp, GatewayHangsUp
<1>5. ASSUME FFmpegExits \/ LinkLost \/ (\E on \in BOOLEAN : SetMicrophone(on))
      PROVE  KindInv'
  BY <1>1, <1>5 DEF FFmpegExits, LinkLost, SetMicrophone
<1>6. QED
  BY <1>2, <1>3, <1>4, <1>5, TeardownStepKeepsKind, OtherStepsKeepKind DEF Next

\* What returning from a teardown does to the runtime: a start may follow.
LEMMA ReturnedRuntime ==
  ASSUME NEW t \in Tasks, NEW j \in Jobs, NEW q \in RuntimeStates, NEW s,
         Returned(t, j, q, s)
  PROVE  /\ rt'.process = q.process /\ rt'.negotiated = q.negotiated
         /\ rt'.monitor = q.monitor /\ rt'.audio = q.audio
         /\ rt'.ending => q.ending
         /\ rt'.sending => q.sending
         /\ pc'[t] \in {"out", "preparing", "sipBye", "closing"}
<1> DEFINE m == Muted(q)
           p == Preparing(m)
<1>1. /\ m.process = q.process /\ m.negotiated = q.negotiated
      /\ m.monitor = q.monitor /\ m.audio = q.audio /\ m.ending = q.ending
  BY DEF Muted, WithMicrophone, RuntimeStates
<1>2. m \in RuntimeStates /\ ~m.sending
  BY RuntimeTypes, MutedIsQuiet DEF Quiet
<1> HIDE DEF m
<1>3. /\ p.process = m.process /\ p.negotiated = m.negotiated
      /\ p.monitor = m.monitor /\ p.audio = m.audio /\ ~p.ending
      /\ p.sending = m.sending
  BY <1>2 DEF Preparing, RuntimeStates
<1> HIDE DEF p
<1>4. rt' \in {q, m, p}
  BY DEF Returned, ReturnedFromStart, ReturnedFromEnd, BeganStart,
         ReturnedToCaller, m, p
<1>5. pc'[t] \in {"out", "preparing", "sipBye", "closing"}
  BY DEF Returned, ReturnedFromStart, ReturnedFromEnd, BeganStart, ReturnedToCaller
<1>6. CASE rt' = q
  BY <1>5, <1>6
<1>7. CASE rt' = m
  BY <1>1, <1>2, <1>5, <1>7
<1>8. CASE rt' = p
  BY <1>1, <1>2, <1>3, <1>5, <1>8
<1>9. QED
  BY <1>4, <1>6, <1>7, <1>8

\* The supervisor is the one task that does not return to where it came from.
LEMMA SupervisorReturns ==
  ASSUME NEW t \in Tasks, NEW j \in Jobs, JobFits(t, j), NEW q, NEW s,
         Returned(t, j, q, s), t = Supervisor
  PROVE  pc'[t] \in {"sipBye", "closing"}
<1>1. j = "none"
  BY TasksAssumption DEF JobFits, Lockers
<1>2. QED
  BY <1>1, JobsAssumption DEF Returned, ReturnedToCaller

-----------------------------------------------------------------------------
(* Who will release what is left of a call, even if the gateway hangs up on *)
(* a start in progress.  Then a start can be overtaken by a teardown, find  *)
(* that one still running when it wants its own, and leave the rest to it.  *)

Starting(c) ==
  pc[c] \in {"preparing", "inviting", "acknowledging", "spawning"}

\* before it sends a BYE, a teardown has yet to take dialog and audio leg
LettingGo(t) == pc[t] \in {"cancelling", "terminating"}

SomebodyTears == \E t \in Tasks : Tearing(t)
SomebodyLetsGo == \E t \in Tasks : LettingGo(t)
SomebodyWatches == \E w \in Watchdogs : Supervising(w)
\* a start whose INVITE was answered
SomebodySpawns == \E c \in Commands : pc[c] \in {"acknowledging", "spawning"}

\* only calls that were placed are answered, or waited for
PlacedFirst ==
  /\ \A n \in answered : n <= placed
  /\ \A c \in Commands :
       pc[c] \in {"inviting", "acknowledging", "spawning"} => leg[c] \in 1 .. placed

\* the reader runs its teardown for a dialog that is gone
ReaderHasNoDialog == Tearing(Reader) => dialog = NoCall

\* who waits for an answer has no dialog yet, and the reader, which is to read
\* that answer or has read it, is in no teardown then
InvitesAlone ==
  \A c \in Commands :
    pc[c] = "inviting" =>
      dialog = NoCall /\ (leg[c] \in answered => ~Tearing(Reader))

\* a start has no FFmpeg before its own
StartsAlone == \A c \in Commands : Starting(c) => rt.process = NoCall

\* a watchdog that tears down has ceased to be the monitor
MonitorIsIdle == \A w \in Watchdogs : Tearing(w) => rt.monitor # w

\* _ending is set for a teardown that goes on, and for one that has yet to let
\* go as long as there is something that a start could leave to it
EndingIsOwned ==
  rt.ending =>
    /\ SomebodyTears
    /\ \/ rt.audio
       \/ dialog # NoCall
       \/ \E c \in Commands : pc[c] \in {"preparing", "inviting"}
       => SomebodyLetsGo

\* without FFmpeg, a dialog belongs to an answered start or is being let go
LeftDialogIsTaken ==
  dialog # NoCall /\ rt.process = NoCall => SomebodySpawns \/ SomebodyLetsGo

\* the one teardown can take the dialog while a start relies on the other
TwoLetGo ==
  (\E c \in Commands : pc[c] = "preparing") /\ rt.ending /\ dialog # NoCall
    => \E t, u \in Tasks : t # u /\ LettingGo(t) /\ LettingGo(u)

\* whatever there is of a call, somebody is there to release it
CallIsKept ==
  /\ rt.audio => \/ SomebodyLetsGo \/ SomebodyWatches \/ SomebodySpawns
                 \/ \E c \in Commands : pc[c] = "inviting"
  /\ dialog # NoCall => SomebodyLetsGo \/ SomebodyWatches \/ SomebodySpawns
  /\ rt.negotiated # NoCall => SomebodyTears \/ SomebodyWatches \/ SomebodySpawns

\* where the tasks of a call are
InPlace ==
  /\ link # "closed"
  /\ PlacedFirst /\ ReaderHasNoDialog /\ InvitesAlone /\ StartsAlone /\ MonitorIsIdle

\* who cares for the rest
CaredFor == EndingIsOwned /\ LeftDialogIsTaken /\ TwoLetGo /\ CallIsKept

\* once the supervisor has begun to close, it releases everything itself
KeptInv == pc[Supervisor] = "out" => InPlace /\ CaredFor

\* what a step of t leaves alone: the teardowns and the starts of other tasks
Undisturbed(t) ==
  /\ \A x \in Tasks \ {t} : Tearing(x) \/ Tearing(x)' => pc'[x] = pc[x]
  /\ \A c \in Commands \ {t} : /\ Starting(c) \/ Starting(c)' => pc'[c] = pc[c]
                               /\ Starting(c) => leg'[c] = leg[c]

\* and, if it begins no teardown, the other watchdogs
Unwatched(t) ==
  Undisturbed(t) /\ \A w \in Watchdogs \ {t} : Supervising(w) => Supervising(w)'

\* what holds while the supervisor has nothing to do
Attended == TypeOK /\ LockInv /\ KindInv /\ InPlace /\ CaredFor

LEMMA ShedUndisturbed ==
  ASSUME Attended, NEW t \in Tasks, NEW m \in Watchdogs \cup {None}, OthersShed(t, m),
         \A w \in Watchdogs : w = m => ~Tearing(w)
  PROVE  /\ Undisturbed(t)
         /\ m = None => Unwatched(t)
         /\ t # Supervisor => pc'[Supervisor] = pc[Supervisor]
<1>1. /\ m \notin Commands /\ m # Supervisor
      /\ Commands \subseteq Tasks /\ Watchdogs \subseteq Tasks /\ Supervisor \in Tasks
      /\ Supervisor \notin Timers /\ Supervisor \notin Watchdogs /\ None \notin Tasks
      /\ Commands \cap Timers = {} /\ Watchdogs \cap Timers = {}
  BY TasksAssumption DEF Tasks
<1>2. \A x \in Tasks : Fits(x, pc[x], job[x])
  BY DEF Attended, KindInv
<1>3. \A x \in Tasks \ {t} : Tearing(x) \/ Tearing(x)' => pc'[x] = pc[x]
  <2> SUFFICES ASSUME NEW x \in Tasks \ {t}, Tearing(x) \/ Tearing(x)'
               PROVE  pc'[x] = pc[x]
    OBVIOUS
  <2>1. CASE x = m
    <3>1. x \in Watchdogs /\ pc'[x] = "out"
      BY <1>1, <2>1 DEF OthersShed
    <3>2. QED
      BY <2>1, <3>1 DEF Tearing, TeardownStages
  <2>2. CASE x # m
    BY <2>2 DEF OthersShed, Tearing, TeardownStages
  <2>3. QED
    BY <2>1, <2>2
<1>4. \A c \in Commands \ {t} : /\ Starting(c) \/ Starting(c)' => pc'[c] = pc[c]
                                /\ Starting(c) => leg'[c] = leg[c]
  <2> SUFFICES ASSUME NEW c \in Commands \ {t}
               PROVE  /\ Starting(c) \/ Starting(c)' => pc'[c] = pc[c]
                      /\ Starting(c) => leg'[c] = leg[c]
    OBVIOUS
  <2>1. c \in Tasks \ {t} /\ c # m
    BY <1>1
  <2>2. Starting(c) \/ Starting(c)' => pc'[c] = pc[c]
    BY <2>1 DEF OthersShed, Starting
  <2>3. QED
    BY <2>1, <2>2 DEF OthersShed, Starting
<1>5. Undisturbed(t)
  BY <1>3, <1>4 DEF Undisturbed
<1>6. ASSUME m = None, NEW w \in Watchdogs \ {t}, Supervising(w) PROVE Supervising(w)'
  BY <1>1, <1>6 DEF OthersShed, Supervising
<1>7. t # Supervisor => pc'[Supervisor] = pc[Supervisor]
  BY <1>1, <1>2 DEF OthersShed, Fits
<1>8. QED
  BY <1>5, <1>6, <1>7 DEF Unwatched

\* A start holds the lock: no other start is under way.
LEMMA StartExcludes ==
  ASSUME Attended, NEW c \in Commands, Starting(c)
  PROVE  ~LockFree /\ ~Tearing(c) /\ \A u \in Commands \ {c} : ~Starting(u)
<1>1. \A u \in Commands : Starting(u) => u \in Lockers /\ LockHeld(u)
  BY DEF Starting, Lockers, LockHeld, Unlocked
<1>2. \A u \in Commands \ {c} : ~Starting(u)
  BY <1>1 DEF Attended, LockInv, LockExclusive
<1>3. QED
  BY <1>2 DEF LockFree, Starting, Unlocked, Tearing, TeardownStages

\* t leaves a teardown, or goes on in one, or calls one.
LEMMA StaysInPlace ==
  ASSUME Attended, NEW t \in Tasks, Undisturbed(t),
         link' = link, placed' = placed, answered' = answered,
         pc'[t] \notin {"inviting", "acknowledging", "spawning"},
         pc'[t] = "preparing" => rt'.process = NoCall,
         rt'.process \in {rt.process, NoCall},
         rt'.monitor \in {rt.monitor, None},
         Tearing(t)' => Tearing(t) \/ rt'.monitor = None,
         t = Reader /\ Tearing(t)' => dialog' = NoCall /\ (Tearing(t) \/ dialog # NoCall),
         \/ dialog' \in {dialog, NoCall}
         \/ t \in Commands /\ pc[t] = "inviting" /\ ~Tearing(Reader)
  PROVE  InPlace'
<1>1. /\ Commands \subseteq Tasks /\ Reader \in Tasks /\ Reader \notin Commands
      /\ Watchdogs \subseteq Tasks /\ None \notin Watchdogs
  BY TasksAssumption DEF Tasks
<1>2. \A c \in Commands : Starting(c)' /\ c # t =>
        Starting(c) /\ pc'[c] = pc[c] /\ leg'[c] = leg[c]
  BY <1>1 DEF Undisturbed, Starting
<1>3. PlacedFirst'
  <2>1. \A c \in Commands :
          pc'[c] \in {"inviting", "acknowledging", "spawning"} =>
            pc[c] \in {"inviting", "acknowledging", "spawning"} /\ leg'[c] = leg[c]
    BY <1>2 DEF Starting
  <2>2. QED
    BY <2>1 DEF Attended, InPlace, PlacedFirst
<1>4. ReaderHasNoDialog'
  <2>1. CASE dialog' \in {dialog, NoCall}
    <3>1. t # Reader /\ Tearing(Reader)' => Tearing(Reader)
      BY <1>1 DEF Undisturbed, Tearing
    <3>2. QED
      BY <2>1, <3>1 DEF Attended, InPlace, ReaderHasNoDialog
  <2>2. CASE t \in Commands /\ ~Tearing(Reader)
    BY <1>1, <2>2 DEF ReaderHasNoDialog, Undisturbed, Tearing
  <2>3. QED
    BY <2>1, <2>2
<1>5. InvitesAlone'
  <2> SUFFICES ASSUME NEW c \in Commands, pc'[c] = "inviting"
               PROVE  /\ dialog' = NoCall
                      /\ leg'[c] \in answered => ~Tearing(Reader)'
    BY DEF InvitesAlone
  <2>1. c # t /\ Starting(c) /\ pc[c] = "inviting" /\ leg'[c] = leg[c]
    BY <1>2 DEF Starting
  <2>2. dialog = NoCall /\ (leg[c] \in answered => ~Tearing(Reader))
    BY <2>1 DEF Attended, InPlace, InvitesAlone
  <2>3. Tearing(Reader)' => Tearing(Reader)
    BY <1>1, <2>2 DEF Undisturbed, Tearing
  <2>4. dialog' \in {dialog, NoCall}
    BY <2>1, StartExcludes DEF Starting
  <2>5. QED
    BY <2>1, <2>2, <2>3, <2>4
<1>6. StartsAlone'
  <2> SUFFICES ASSUME NEW c \in Commands, Starting(c)' PROVE rt'.process = NoCall
    BY DEF StartsAlone
  <2>1. CASE c = t
    BY <2>1 DEF Starting
  <2>2. CASE c # t
    BY <1>2, <2>2 DEF Attended, InPlace, StartsAlone
  <2>3. QED
    BY <2>1, <2>2
<1>7. MonitorIsIdle'
  <2> SUFFICES ASSUME NEW w \in Watchdogs, Tearing(w)' PROVE rt'.monitor # w
    BY DEF MonitorIsIdle
  <2>1. Tearing(w) \/ rt'.monitor = None
    BY <1>1 DEF Undisturbed, Tearing
  <2>2. QED
    BY <1>1, <2>1 DEF Attended, InPlace, MonitorIsIdle
<1>8. QED
  BY <1>3, <1>4, <1>5, <1>6, <1>7 DEF Attended, InPlace

\* A teardown, or a start that finds nothing, leaves nothing behind.
LEMMA NothingToCareFor ==
  ASSUME ~rt'.ending, ~rt'.audio, rt'.negotiated = NoCall, dialog' = NoCall
  PROVE  CaredFor'
BY DEF CaredFor, EndingIsOwned, LeftDialogIsTaken, TwoLetGo, CallIsKept

\* t has yet to let go of the rest.
LEMMA LettingGoCares ==
  ASSUME NEW t \in Tasks, LettingGo(t)',
         rt'.ending /\ dialog' # NoCall /\ (\E c \in Commands : pc'[c] = "preparing") =>
           \E u \in Tasks \ {t} : LettingGo(u)'
  PROVE  CaredFor'
<1>1. SomebodyLetsGo' /\ SomebodyTears'
  BY DEF SomebodyLetsGo, SomebodyTears, LettingGo, Tearing, TeardownStages
<1>2. TwoLetGo'
  BY DEF TwoLetGo
<1>3. QED
  BY <1>1, <1>2 DEF CaredFor, EndingIsOwned, LeftDialogIsTaken, CallIsKept

\* t has let go of everything and says BYE.
LEMMA HangingUpCares ==
  ASSUME NEW t \in Tasks, pc'[t] = "hangingUp", ~rt'.audio, dialog' = NoCall,
         rt'.ending /\ (\E c \in Commands : pc'[c] \in {"preparing", "inviting"})
           => SomebodyLetsGo'
  PROVE  CaredFor'
<1>1. SomebodyTears'
  BY DEF SomebodyTears, Tearing, TeardownStages
<1>2. QED
  BY <1>1 DEF CaredFor, EndingIsOwned, LeftDialogIsTaken, TwoLetGo, CallIsKept

\* t cares for nothing, and there is less to care for.
LEMMA IdleCares ==
  ASSUME Attended, NEW t \in Tasks, Unwatched(t),
         ~LettingGo(t), pc[t] \notin {"inviting", "acknowledging", "spawning"},
         t \in Watchdogs => ~Supervising(t),
         ~rt'.ending, rt'.negotiated = NoCall, rt'.audio => rt.audio,
         rt'.process = rt.process, dialog' \in {dialog, NoCall}
  PROVE  CaredFor'
<1>1. /\ SomebodyLetsGo => SomebodyLetsGo'
      /\ SomebodySpawns => SomebodySpawns'
      /\ SomebodyWatches => SomebodyWatches'
      /\ \A c \in Commands : pc[c] = "inviting" => pc'[c] = "inviting"
  <2>1. SomebodyLetsGo => SomebodyLetsGo'
    BY DEF SomebodyLetsGo, LettingGo, Unwatched, Undisturbed, Tearing, TeardownStages
  <2>2. \A c \in Commands : pc[c] \in {"inviting", "acknowledging", "spawning"} => pc'[c] = pc[c]
    BY DEF Unwatched, Undisturbed, Starting
  <2>3. SomebodyWatches => SomebodyWatches'
    BY DEF SomebodyWatches, Unwatched
  <2>4. QED
    BY <2>1, <2>2, <2>3 DEF SomebodySpawns
<1>2. QED
  BY <1>1 DEF Attended, CaredFor, EndingIsOwned, LeftDialogIsTaken, TwoLetGo, CallIsKept

\* t leaves what it has to the teardown it finds under way.
LEMMA DeclineCares ==
  ASSUME Attended, NEW t \in Tasks, Undisturbed(t),
         rt.ending, rt'.ending, ~Tearing(t), ~Tearing(t)', ~Starting(t)',
         rt'.process = rt.process,
         rt'.audio => rt.audio \/ (t \in Commands /\ pc[t] \in {"preparing", "inviting"}),
         dialog' \in {dialog, NoCall} \/ (t \in Commands /\ pc[t] = "inviting")
  PROVE  CaredFor'
<1>1. /\ \A x \in Tasks : LettingGo(x)' <=> LettingGo(x)
      /\ \A x \in Tasks : Tearing(x)' <=> Tearing(x)
  <2>1. \A x \in Tasks : LettingGo(x) => Tearing(x)
    BY DEF LettingGo, Tearing, TeardownStages
  <2>2. \A x \in Tasks : LettingGo(x)' => Tearing(x)'
    BY DEF LettingGo, Tearing, TeardownStages
  <2>3. \A x \in Tasks : Tearing(x) \/ Tearing(x)' => pc'[x] = pc[x]
    BY DEF Undisturbed
  <2>4. QED
    BY <2>1, <2>2, <2>3 DEF LettingGo, Tearing
<1>2. SomebodyTears' /\ (SomebodyLetsGo' <=> SomebodyLetsGo)
  BY <1>1 DEF SomebodyTears, SomebodyLetsGo, Attended, CaredFor, EndingIsOwned
<1>3. \A c \in Commands : Starting(c)' => c # t /\ pc'[c] = pc[c]
  BY DEF Undisturbed
<1>4. \/ rt'.audio
      \/ dialog' # NoCall
      \/ \E c \in Commands : pc'[c] \in {"preparing", "inviting"}
      => SomebodyLetsGo
  <2> SUFFICES ASSUME \/ rt'.audio \/ dialog' # NoCall
                      \/ \E c \in Commands : pc'[c] \in {"preparing", "inviting"}
               PROVE  SomebodyLetsGo
    OBVIOUS
  <2>1. \A c \in Commands : pc'[c] \in {"preparing", "inviting"} =>
          pc[c] \in {"preparing", "inviting"}
    BY <1>3 DEF Starting
  <2>2. CASE \E c \in Commands : pc'[c] \in {"preparing", "inviting"}
    <3>1. \E c \in Commands : pc[c] \in {"preparing", "inviting"}
      BY <2>1, <2>2
    <3>2. QED
      BY <3>1 DEF Attended, CaredFor, EndingIsOwned
  <2>3. CASE t \in Commands /\ pc[t] \in {"preparing", "inviting"}
    BY <2>3 DEF Attended, CaredFor, EndingIsOwned
  <2>4. CASE rt.audio \/ dialog # NoCall
    BY <2>4 DEF Attended, CaredFor, EndingIsOwned
  <2>5. QED
    BY <2>2, <2>3, <2>4
<1>5. EndingIsOwned'
  BY <1>2, <1>4 DEF EndingIsOwned
<1>6. LeftDialogIsTaken'
  BY <1>2, <1>4 DEF LeftDialogIsTaken
<1>7. TwoLetGo'
  <2> SUFFICES ASSUME NEW c \in Commands, pc'[c] = "preparing", dialog' # NoCall
               PROVE  \E x, u \in Tasks : x # u /\ LettingGo(x)' /\ LettingGo(u)'
    BY DEF TwoLetGo
  <2>1. c # t /\ pc[c] = "preparing"
    BY <1>3 DEF Starting
  <2>2. dialog' = dialog
    BY <2>1, StartExcludes DEF Starting
  <2>3. \E x, u \in Tasks : x # u /\ LettingGo(x) /\ LettingGo(u)
    BY <2>1, <2>2 DEF Attended, CaredFor, TwoLetGo
  <2>4. QED
    BY <1>1, <2>3
<1>8. CallIsKept'
  BY <1>2, <1>4 DEF CallIsKept
<1>9. QED
  BY <1>5, <1>6, <1>7, <1>8 DEF CaredFor

\* Returning from a teardown begins a start only on a runtime that is free.
LEMMA ReturnStarts ==
  ASSUME NEW t \in Tasks, NEW j \in Jobs, NEW q \in RuntimeStates, NEW s,
         Returned(t, j, q, s)
  PROVE  /\ pc'[t] = "preparing" =>
              j \in Devices /\ rt'.process = NoCall /\ rt'.negotiated = NoCall /\ ~rt'.ending
         /\ pc'[t] # "preparing" => (rt'.ending <=> q.ending)
<1> DEFINE m == Muted(q)
           p == Preparing(m)
<1>1. m \in RuntimeStates /\ m.ending = q.ending
  <2>1. m.ending = q.ending
    BY DEF Muted, WithMicrophone, RuntimeStates
  <2>2. QED
    BY <2>1, RuntimeTypes
<1> HIDE DEF m
<1>2. ~p.ending /\ p.process = m.process /\ p.negotiated = m.negotiated
  BY <1>1 DEF Preparing, RuntimeStates
<1> HIDE DEF p
<1>3. CASE pc'[t] = "preparing"
  <2>1. j \in Devices /\ ~AlreadyActive(m) /\ rt' = p
    BY <1>3 DEF Returned, ReturnedFromStart, ReturnedFromEnd, BeganStart,
                ReturnedToCaller, m, p
  <2>2. QED
    BY <1>2, <1>3, <2>1 DEF AlreadyActive
<1>4. CASE pc'[t] # "preparing"
  <2>1. rt' \in {q, m}
    BY <1>4 DEF Returned, ReturnedFromStart, ReturnedFromEnd, BeganStart,
                ReturnedToCaller, m, p
  <2>2. QED
    BY <1>1, <1>4, <2>1
<1>5. QED
  BY <1>3, <1>4

\* A task goes on with its teardown.
LEMMA ResumedExactly ==
  ASSUME Attended, NEW t \in Tasks, Tearing(t),
         NEW stage \in TeardownStages \cup {"out"}, NEW q \in RuntimeStates,
         NEW d \in CallOrNone,
         TeardownStops(t, job[t], stage, q, ses, d, pc)
  PROVE  /\ IF stage = "out"
            THEN Left(t, job[t], q, Ended(ses), d)
            ELSE SuspendedAt(t, job[t], stage, q, ses, d)
         /\ Unwatched(t)
         /\ t # Supervisor => pc'[Supervisor] = pc[Supervisor]
<1>1. /\ TypeOK /\ pc \in [Tasks -> Stages] /\ job[t] \in Jobs /\ ses \in SessionStates
      /\ None \notin Tasks /\ Watchdogs \subseteq Tasks
  BY TasksAssumption DEF Attended, TypeOK, Tasks
<1> DEFINE j == job[t]
<1> HIDE DEF j
<1>2. /\ IF stage = "out"
         THEN Left(t, j, q, Ended(ses), d)
         ELSE SuspendedAt(t, j, stage, q, ses, d)
      /\ \A x \in Tasks \ {t} :
           /\ job'[x] = job[x]
           /\ pc'[x] # "out" => leg'[x] = leg[x]
           /\ pc'[x] = pc[x] \/ (pc[x] = "waiting" /\ pc'[x] = "deaf")
  <2>1. j \in Jobs /\ TeardownStops(t, j, stage, q, ses, d, pc)
    BY <1>1 DEF j
  <2>2. QED
    BY <1>1, <2>1, TeardownStopsExactly
<1>3. OthersShed(t, None)
  BY <1>1, <1>2 DEF OthersShed
<1>4. Unwatched(t) /\ (t # Supervisor => pc'[Supervisor] = pc[Supervisor])
  BY <1>1, <1>3, ShedUndisturbed
<1>5. QED
  BY <1>2, <1>4 DEF j

LEMMA StretchAttends ==
  ASSUME Attended, pc[Supervisor] = "out", UNCHANGED outsideVars,
         NEW t \in Tasks, LettingGo(t),
         NEW stage \in {"terminating", "hangingUp", "out"},
         NEW q \in RuntimeStates, NEW d \in CallOrNone,
         TeardownStops(t, job[t], stage, q, ses, d, pc),
         q.process \in {rt.process, NoCall}, q.monitor = rt.monitor,
         q.ending <=> (rt.ending /\ stage # "out"),
         stage # "terminating" => ~q.audio,
         stage = "out" => q.negotiated = NoCall /\ (t # Reader => d = NoCall),
         stage # "out" => d = dialog,
         stage = "hangingUp" => dialog # NoCall,
         t = Reader => d \in {dialog, NoCall}
  PROVE  pc'[Supervisor] = "out" /\ InPlace' /\ CaredFor'
<1>1. /\ Tearing(t) /\ t # Supervisor /\ stage \in TeardownStages \cup {"out"}
      /\ job[t] \in Jobs /\ Commands \subseteq Tasks /\ Reader \in Tasks
      /\ UNCHANGED <<link, placed, answered>>
  BY DEF LettingGo, Tearing, TeardownStages, Attended, TypeOK, Tasks, outsideVars
<1>2. /\ IF stage = "out"
         THEN Left(t, job[t], q, Ended(ses), d)
         ELSE SuspendedAt(t, job[t], stage, q, ses, d)
      /\ Unwatched(t) /\ Undisturbed(t)
      /\ pc'[Supervisor] = "out"
  BY <1>1, ResumedExactly DEF Unwatched
<1>3. t = Reader => dialog = NoCall
  BY <1>1 DEF Attended, InPlace, ReaderHasNoDialog
<1>4. \A u \in Tasks \ {t} : LettingGo(u) => LettingGo(u)'
  BY <1>2 DEF Undisturbed, LettingGo, Tearing, TeardownStages
<1>5. CASE stage = "out"
  <2>1. Returned(t, job[t], q, Ended(ses)) /\ dialog' = NoCall
    BY <1>1, <1>2, <1>3, <1>5 DEF Left
  <2>2. /\ rt'.process = q.process /\ rt'.negotiated = NoCall /\ rt'.monitor = q.monitor
        /\ ~rt'.audio /\ ~rt'.ending
        /\ pc'[t] \in {"out", "preparing", "sipBye", "closing"}
        /\ pc'[t] = "preparing" => rt'.process = NoCall
    BY <1>1, <1>5, <2>1, ReturnedRuntime, ReturnStarts
  <2>3. ~Tearing(t)'
    BY <2>2 DEF Tearing, TeardownStages
  <2>4. InPlace'
    <3>1. /\ link' = link /\ placed' = placed /\ answered' = answered
          /\ pc'[t] \notin {"inviting", "acknowledging", "spawning"}
          /\ rt'.process \in {rt.process, NoCall}
          /\ rt'.monitor \in {rt.monitor, None}
          /\ dialog' \in {dialog, NoCall}
      BY <1>1, <2>1, <2>2
    <3>2. QED
      BY <1>2, <2>2, <2>3, <3>1, StaysInPlace
  <2>5. QED
    BY <1>2, <2>1, <2>2, <2>4, NothingToCareFor
<1>6. CASE stage # "out"
  <2>1. /\ pc'[t] = stage /\ rt' = q
        /\ dialog' = IF stage = "hangingUp" THEN NoCall ELSE dialog
    BY <1>2, <1>6 DEF SuspendedAt
  <2>2. InPlace'
    BY <1>1, <1>2, <1>3, <1>6, <2>1, StaysInPlace
  <2>3. ASSUME rt'.ending, dialog # NoCall, NEW c \in Commands, pc'[c] = "preparing"
        PROVE  \E u \in Tasks \ {t} : LettingGo(u)'
    <3>1. c # t
      BY <1>6, <2>1, <2>3
    <3>2. pc[c] = "preparing"
      BY <1>1, <1>2, <2>3, <3>1 DEF Undisturbed, Starting
    <3>3. rt.ending
      BY <1>6, <2>1, <2>3
    <3>4. \E x, u \in Tasks : x # u /\ LettingGo(x) /\ LettingGo(u)
      BY <2>3, <3>2, <3>3 DEF Attended, CaredFor, TwoLetGo
    <3>5. QED
      BY <1>4, <3>4
  <2>4. CASE stage = "terminating"
    <3>1. LettingGo(t)' /\ dialog' = dialog
      BY <2>1, <2>4 DEF LettingGo
    <3>2. CaredFor'
      BY <2>3, <3>1, LettingGoCares
    <3>3. QED
      BY <1>2, <2>2, <3>2
  <2>5. CASE stage = "hangingUp"
    <3>1. pc'[t] = "hangingUp" /\ dialog' = NoCall /\ ~rt'.audio /\ dialog # NoCall
      BY <2>1, <2>5
    <3>2. ASSUME rt'.ending, NEW c \in Commands, pc'[c] \in {"preparing", "inviting"}
          PROVE  SomebodyLetsGo'
      <4>1. c # t
        BY <3>1, <3>2
      <4>2. pc'[c] = pc[c]
        BY <1>1, <1>2, <3>2, <4>1 DEF Undisturbed, Starting
      <4>3. pc[c] # "inviting"
        BY <3>1 DEF Attended, InPlace, InvitesAlone
      <4>4. QED
        BY <2>3, <3>1, <3>2, <4>2, <4>3 DEF SomebodyLetsGo
    <3>3. CaredFor'
      BY <3>1, <3>2, HangingUpCares
    <3>4. QED
      BY <1>2, <2>2, <3>3
  <2>6. QED
    BY <1>6, <2>4, <2>5
<1>7. QED
  BY <1>5, <1>6

LEMMA TeardownStepAttends ==
  ASSUME Attended, pc[Supervisor] = "out", NEW t \in Tasks, TeardownStep(t)
  PROVE  pc'[Supervisor] = "out" /\ InPlace' /\ CaredFor'
<1>1. rt \in RuntimeStates /\ dialog \in CallOrNone
  BY DEF Attended, TypeOK
<1>2. CASE HelpersGone(t)
  <2> DEFINE stage == StageAfterHelpers(rt, t, HasPeer(dialog))
             q == AfterHelpers(rt, stage)
             d == Kept(t, stage, dialog)
  <2>1. /\ LettingGo(t) /\ UNCHANGED outsideVars
        /\ TeardownStops(t, job[t], stage, q, ses, d, pc)
    BY <1>2 DEF HelpersGone, LettingGo
  <2>2. /\ q.process = NoCall /\ q.monitor = rt.monitor
        /\ q.ending <=> (rt.ending /\ stage # "out")
        /\ stage # "terminating" => ~q.audio
        /\ stage = "out" => q.negotiated = NoCall
    BY <1>1, HelpersGoneLeave
  <2>3. q \in RuntimeStates /\ d \in CallOrNone
    BY <1>1, TeardownTypes, KeptTypes
  <2>4. /\ stage \in {"terminating", "hangingUp", "out"}
        /\ stage = "hangingUp" => dialog # NoCall
        /\ stage # "out" => d = dialog
        /\ stage = "out" /\ t # Reader => d = NoCall
        /\ t = Reader => d = dialog
    BY DEF StageAfterHelpers, StageAfterProcess, HasPeer, Kept, SendsBye
  <2> HIDE DEF stage, q, d
  <2>5. QED
    BY <2>1, <2>2, <2>3, <2>4, StretchAttends
<1>3. CASE ProcessGone(t)
  <2> DEFINE stage == StageAfterProcess(t, HasPeer(dialog))
             q == AfterProcess(rt, stage)
             d == Kept(t, stage, dialog)
  <2>1. /\ LettingGo(t) /\ UNCHANGED outsideVars
        /\ TeardownStops(t, job[t], stage, q, ses, d, pc)
    BY <1>3 DEF ProcessGone, LettingGo
  <2>2. /\ q.process = rt.process /\ q.monitor = rt.monitor /\ ~q.audio
        /\ q.ending <=> (rt.ending /\ stage # "out")
        /\ stage = "out" => q.negotiated = NoCall
    BY <1>1, ProcessGoneLeaves
  <2>3. q \in RuntimeStates /\ d \in CallOrNone
    BY <1>1, TeardownTypes, KeptTypes
  <2>4. /\ stage \in {"terminating", "hangingUp", "out"}
        /\ stage = "hangingUp" => dialog # NoCall
        /\ stage # "out" => d = dialog
        /\ stage = "out" /\ t # Reader => d = NoCall
        /\ t = Reader => d = dialog
    BY DEF StageAfterProcess, HasPeer, Kept, SendsBye
  <2> HIDE DEF stage, q, d
  <2>5. QED
    BY <2>1, <2>2, <2>3, <2>4, StretchAttends
<1>4. CASE ByeReturns(t)
  <2> DEFINE q == Forgotten(rt)
  <2>1. /\ pc[t] = "hangingUp" /\ UNCHANGED <<link, placed, answered>>
        /\ TeardownStops(t, job[t], "out", q, ses, dialog, pc)
    BY <1>4 DEF ByeReturns
  <2>2. q \in RuntimeStates
    BY <1>1, RuntimeTypes
  <2>3. /\ q.process = rt.process /\ q.monitor = rt.monitor /\ q.audio = rt.audio
        /\ q.negotiated = NoCall /\ ~q.ending
    BY <1>1 DEF Forgotten, RuntimeStates
  <2> HIDE DEF q
  <2>4. Tearing(t) /\ t # Supervisor /\ job[t] \in Jobs
    BY <2>1 DEF Tearing, TeardownStages, Attended, TypeOK
  <2>5. /\ Left(t, job[t], q, Ended(ses), dialog) /\ Unwatched(t)
        /\ pc'[Supervisor] = "out"
    BY <1>1, <2>1, <2>2, <2>4, ResumedExactly
  <2>6. Returned(t, job[t], q, Ended(ses)) /\ dialog' \in {dialog, NoCall}
    BY <2>5 DEF Left
  <2>7. /\ rt'.process = rt.process /\ rt'.negotiated = NoCall
        /\ rt'.monitor = rt.monitor /\ rt'.audio = rt.audio /\ ~rt'.ending
        /\ pc'[t] \in {"out", "preparing", "sipBye", "closing"}
        /\ pc'[t] = "preparing" => rt'.process = NoCall
    BY <2>2, <2>3, <2>4, <2>6, ReturnedRuntime, ReturnStarts
  <2>8. ~Tearing(t)' /\ pc'[t] \notin {"inviting", "acknowledging", "spawning"} /\ Undisturbed(t)
    BY <2>5, <2>7 DEF Tearing, TeardownStages, Unwatched
  <2>9. InPlace'
    BY <2>1, <2>6, <2>7, <2>8, StaysInPlace
  <2>10. ~LettingGo(t) /\ ~Supervising(t) /\ pc[t] \notin {"inviting", "acknowledging", "spawning"}
    BY <2>1 DEF LettingGo, Supervising
  <2>11. CaredFor'
    BY <2>5, <2>6, <2>7, <2>10, IdleCares
  <2>12. QED
    BY <2>5, <2>9, <2>11
<1>5. QED
  BY <1>2, <1>3, <1>4 DEF TeardownStep, ByeAnswered, ByeUnanswered

\* r and d are the runtime and the dialog as they are, but for what a start of t
\* has added to them; no start of another task is under way if t has the lock
Brings(t, r, d) ==
  /\ r.process = rt.process /\ r.monitor = rt.monitor /\ r.ending = rt.ending
  /\ \/ r.audio => rt.audio
     \/ t \in Commands /\ pc[t] \in {"preparing", "inviting"}
  /\ \/ d \in {dialog, NoCall}
     \/ t \in Commands /\ pc[t] = "inviting" /\ ~Tearing(Reader)
  /\ t = Reader => d = NoCall /\ dialog # NoCall
  /\ t \in Lockers => \A c \in Commands \ {t} : ~Starting(c)

\* t calls _teardown with the runtime at r and the dialog at d: it declines, or
\* takes over what there is.
LEMMA CallAttends ==
  ASSUME Attended, pc[Supervisor] = "out", UNCHANGED <<link, placed, answered>>,
         NEW t \in Tasks, t # Supervisor, ~Tearing(t),
         NEW j \in Jobs, JobFits(t, j), j \in Devices => pc[t] \in {"out", "queued"},
         NEW r \in RuntimeStates, NEW s \in SessionStates, NEW d \in CallOrNone,
         NEW pcs \in {pc, TimerCancelled(pc)}, Teardown(t, j, r, s, d, pcs),
         Brings(t, r, d)
  PROVE  pc'[Supervisor] = "out" /\ InPlace' /\ CaredFor'
<1> DEFINE stage == StageOfTeardown(r, t, HasPeer(d))
           q == TornDown(r, stage)
           m == CancelledBy(t, r)
<1> USE DEF Brings
<1>1. /\ TypeOK /\ Commands \subseteq Tasks /\ Reader \in Tasks
      /\ Commands \subseteq Lockers /\ Watchdogs \subseteq Tasks /\ None \notin Watchdogs
  BY TasksAssumption DEF Attended, Tasks, Lockers
<1>2. /\ r.ending => Left(t, j, r, s, d) /\ OthersShed(t, None)
      /\ ~r.ending =>
           /\ OthersShed(t, m)
           /\ IF stage = "out"
              THEN Left(t, j, q, Ended(s), Kept(t, stage, d))
              ELSE SuspendedAt(t, j, stage, q, s, d)
  BY <1>1, TeardownExactly
<1>3. /\ stage \in TeardownStages \cup {"out"} /\ q \in RuntimeStates
      /\ stage = "hangingUp" => d # NoCall /\ t # Reader
      /\ stage = "out" => Kept(t, stage, d) = NoCall
  <2>1. stage \in TeardownStages \cup {"out"} /\ q \in RuntimeStates
    BY StagesOfTeardown, TeardownTypes
  <2>2. stage = "hangingUp" => d # NoCall /\ t # Reader
    BY DEF StageOfTeardown, StageAfterHelpers, StageAfterProcess, HasPeer, SendsBye
  <2>3. stage = "out" => Kept(t, stage, d) = NoCall
    BY DEF Kept, SendsBye
  <2>4. QED
    BY <2>1, <2>2, <2>3
<1>4. ~r.ending =>
        /\ q.monitor = None
        /\ q.ending <=> (stage # "out")
        /\ q.negotiated = IF stage = "out" THEN NoCall ELSE r.negotiated
        /\ q.process = IF stage = "cancelling" THEN r.process ELSE NoCall
        /\ stage \in {"hangingUp", "out"} => ~q.audio
  BY <1>3, TornDownLeaves
<1>5. m \in Watchdogs \cup {None} /\ \A w \in Watchdogs : w = m => ~Tearing(w)
  <2>1. r.monitor \in Watchdogs \cup {None}
    BY DEF RuntimeStates
  <2>2. QED
    BY <1>1, <2>1 DEF CancelledBy, Attended, InPlace, MonitorIsIdle
<1> HIDE DEF stage, q, m
<1>6. CASE r.ending
  <2>1. OthersShed(t, None) /\ Left(t, j, r, s, d)
    BY <1>2, <1>6
  <2>2. Unwatched(t) /\ Undisturbed(t) /\ pc'[Supervisor] = "out"
    BY <1>1, <2>1, ShedUndisturbed DEF Unwatched
  <2>3. Returned(t, j, r, s) /\ dialog' \in {d, NoCall}
    BY <2>1 DEF Left
  <2>4. /\ rt'.process = rt.process /\ rt'.negotiated = r.negotiated
        /\ rt'.monitor = rt.monitor /\ rt'.audio = r.audio
        /\ pc'[t] \in {"out", "preparing", "sipBye", "closing"}
    BY <2>3, ReturnedRuntime
  <2>5. /\ pc'[t] = "preparing" =>
             /\ pc[t] \in {"out", "queued"}
             /\ rt'.process = NoCall /\ rt'.negotiated = NoCall /\ ~rt'.ending
        /\ pc'[t] # "preparing" => rt'.ending
    BY <1>6, <2>3, ReturnStarts
  <2>6. ~Tearing(t)' /\ pc'[t] \notin {"inviting", "acknowledging", "spawning"}
    BY <2>4 DEF Tearing, TeardownStages
  <2>7. \/ dialog' \in {dialog, NoCall}
        \/ t \in Commands /\ pc[t] = "inviting" /\ ~Tearing(Reader)
    BY <2>3
  <2>8. InPlace'
    BY <2>2, <2>4, <2>5, <2>6, <2>7, StaysInPlace
  <2>9. CaredFor'
    <3>1. CASE pc'[t] = "preparing"
      <4>1. ~LettingGo(t) /\ ~Supervising(t) /\ pc[t] \notin {"inviting", "acknowledging", "spawning"}
        BY <2>5, <3>1 DEF LettingGo, Supervising
      <4>2. dialog' \in {dialog, NoCall} /\ (rt'.audio => rt.audio)
        BY <2>4, <2>5, <2>7, <3>1
      <4>3. QED
        BY <2>2, <2>4, <2>5, <3>1, <4>1, <4>2, IdleCares
    <3>2. CASE pc'[t] # "preparing"
      <4>1. ~Starting(t)' /\ rt'.ending /\ rt.ending
        BY <1>6, <2>5, <2>6, <3>2 DEF Starting
      <4>2. /\ rt'.audio => rt.audio \/ (t \in Commands /\ pc[t] \in {"preparing", "inviting"})
            /\ dialog' \in {dialog, NoCall} \/ (t \in Commands /\ pc[t] = "inviting")
        BY <2>4, <2>7
      <4>3. QED
        BY <2>2, <2>4, <2>6, <4>1, <4>2, DeclineCares
    <3>3. QED
      BY <3>1, <3>2
  <2>10. QED
    BY <2>2, <2>8, <2>9
<1>7. CASE ~r.ending
  <2>1. Undisturbed(t) /\ pc'[Supervisor] = "out"
    BY <1>2, <1>5, <1>7, ShedUndisturbed
  <2>2. CASE stage = "out"
    <3>1. Returned(t, j, q, Ended(s)) /\ dialog' = NoCall
      BY <1>2, <1>3, <1>7, <2>2 DEF Left
    <3>2. /\ rt'.process = NoCall /\ rt'.negotiated = NoCall /\ rt'.monitor = None
          /\ ~rt'.audio /\ ~rt'.ending
          /\ pc'[t] \in {"out", "preparing", "sipBye", "closing"}
      BY <1>3, <1>4, <1>7, <2>2, <3>1, ReturnedRuntime
    <3>3. ~Tearing(t)' /\ pc'[t] \notin {"inviting", "acknowledging", "spawning"}
      BY <3>2 DEF Tearing, TeardownStages
    <3>4. InPlace'
      BY <2>1, <3>1, <3>2, <3>3, StaysInPlace
    <3>5. QED
      BY <2>1, <3>1, <3>2, <3>4, NothingToCareFor
  <2>3. CASE stage # "out"
    <3>1. /\ stage \in TeardownStages /\ pc'[t] = stage /\ rt' = q
          /\ dialog' = IF stage = "hangingUp" THEN NoCall ELSE d
      BY <1>2, <1>7, <2>3 DEF SuspendedAt
    <3>2. InPlace'
      <4>1. /\ pc'[t] \notin {"preparing", "inviting", "acknowledging", "spawning"}
            /\ rt'.process \in {rt.process, NoCall} /\ rt'.monitor = None
            /\ t = Reader => dialog' = NoCall /\ dialog # NoCall
        BY <1>4, <1>7, <3>1 DEF TeardownStages
      <4>2. \/ dialog' \in {dialog, NoCall}
            \/ t \in Commands /\ pc[t] = "inviting" /\ ~Tearing(Reader)
        BY <3>1
      <4>3. QED
        BY <2>1, <4>1, <4>2, StaysInPlace
    <3>3. ASSUME d # NoCall, NEW c \in Commands, pc'[c] \in {"preparing", "inviting"}
          PROVE  \E u \in Tasks \ {t} : LettingGo(u)'
      <4>1. c # t
        BY <3>1, <3>3 DEF TeardownStages
      <4>2. Starting(c) /\ pc[c] = pc'[c]
        BY <2>1, <3>3, <4>1 DEF Undisturbed, Starting
      <4>3. t \notin Commands /\ d = dialog /\ t # Reader
        BY <1>1, <3>3, <4>1, <4>2
      <4>4. rt.process = NoCall /\ pc[c] = "preparing"
        BY <3>3, <4>2, <4>3 DEF Attended, InPlace, StartsAlone, InvitesAlone
      <4>5. ~SomebodySpawns
        BY <4>2, <4>4, StartExcludes DEF SomebodySpawns, Starting
      <4>6. SomebodyLetsGo
        BY <3>3, <4>3, <4>4, <4>5 DEF Attended, CaredFor, LeftDialogIsTaken
      <4>7. PICK u \in Tasks : LettingGo(u)
        BY <4>6 DEF SomebodyLetsGo
      <4>8. u # t /\ Tearing(u)
        BY <4>7 DEF LettingGo, Tearing, TeardownStages
      <4>9. LettingGo(u)'
        BY <2>1, <4>7, <4>8 DEF Undisturbed, LettingGo
      <4>10. QED
        BY <4>8, <4>9
    <3>4. CASE stage = "hangingUp"
      <4>1. pc'[t] = "hangingUp" /\ ~rt'.audio /\ dialog' = NoCall /\ d # NoCall
        BY <1>3, <1>4, <1>7, <3>1, <3>4
      <4>2. (\E c \in Commands : pc'[c] \in {"preparing", "inviting"}) => SomebodyLetsGo'
        BY <3>3, <4>1 DEF SomebodyLetsGo
      <4>3. CaredFor'
        BY <4>1, <4>2, HangingUpCares
      <4>4. QED
        BY <2>1, <3>2, <4>3
    <3>5. CASE stage # "hangingUp"
      <4>1. LettingGo(t)' /\ dialog' = d
        BY <3>1, <3>5 DEF LettingGo, TeardownStages
      <4>2. CaredFor'
        BY <3>3, <4>1, LettingGoCares
      <4>3. QED
        BY <2>1, <3>2, <4>2
    <3>6. QED
      BY <3>4, <3>5
  <2>4. QED
    BY <2>2, <2>3
<1>8. QED
  BY <1>6, <1>7

\* The lock is free: no start is under way.
LEMMA FreeMeansNoStart ==
  ASSUME LockFree, NEW c \in Commands PROVE ~Starting(c)
BY DEF LockFree, Starting, Unlocked

\* A user or a clean-up ends the call, or ends it to begin another.
LEMMA EndingAttends ==
  ASSUME Attended, pc[Supervisor] = "out", UNCHANGED outsideVars,
         LockFree, NEW t \in Lockers, pc[t] \in {"out", "queued", "fired"},
         NEW j \in Jobs, JobFits(t, j), j \in Devices => t \in Commands,
         Teardown(t, j, Muted(rt), EndBegun(ses), dialog, TimerCancelled(pc))
  PROVE  pc'[Supervisor] = "out" /\ InPlace' /\ CaredFor'
<1>1. /\ t \in Tasks /\ t # Reader /\ t # Supervisor
      /\ rt \in RuntimeStates /\ ses \in SessionStates /\ dialog \in CallOrNone
  BY TasksAssumption DEF Lockers, Tasks, Attended, TypeOK
<1>2. ~Tearing(t) /\ (j \in Devices => pc[t] \in {"out", "queued"})
  <2>1. Fits(t, pc[t], job[t]) /\ (t \in Commands => t \notin Timers)
    BY <1>1, TasksAssumption DEF Attended, KindInv
  <2>2. QED
    BY <2>1 DEF Fits, Tearing, TeardownStages
<1>3. \A c \in Commands : ~Starting(c)
  BY FreeMeansNoStart
<1> DEFINE r == Muted(rt)
           s == EndBegun(ses)
<1>4. /\ r \in RuntimeStates /\ s \in SessionStates
      /\ r.process = rt.process /\ r.monitor = rt.monitor /\ r.ending = rt.ending
      /\ r.audio = rt.audio
  <2>1. /\ r.process = rt.process /\ r.monitor = rt.monitor /\ r.ending = rt.ending
        /\ r.audio = rt.audio
    BY <1>1 DEF Muted, WithMicrophone, RuntimeStates
  <2>2. QED
    BY <1>1, <2>1, RuntimeTypes, SessionTypes
<1>5. UNCHANGED <<link, placed, answered>>
  BY DEF outsideVars
<1>6. Teardown(t, j, r, s, dialog, TimerCancelled(pc))
  OBVIOUS
<1> HIDE DEF r, s
<1>7. QED
  BY <1>1, <1>2, <1>3, <1>4, <1>5, <1>6, CallAttends DEF Brings

\* A start fails after it has reserved its sockets.
LEMMA StartFailsAttends ==
  ASSUME Attended, pc[Supervisor] = "out", UNCHANGED <<link, placed, answered>>,
         NEW c \in Commands, Starting(c),
         NEW r \in RuntimeStates, NEW d \in CallOrNone,
         Teardown(c, "start", r, ses, d, pc),
         r.process = rt.process, r.monitor = rt.monitor, r.ending = rt.ending,
         \/ r.audio => rt.audio
         \/ c \in Commands /\ pc[c] \in {"preparing", "inviting"},
         \/ d \in {dialog, NoCall}
         \/ c \in Commands /\ pc[c] = "inviting" /\ ~Tearing(Reader)
  PROVE  pc'[Supervisor] = "out" /\ InPlace' /\ CaredFor'
<1> DEFINE j == "start"
<1>1. /\ c \in Tasks /\ c # Reader /\ c # Supervisor /\ ses \in SessionStates
      /\ j \in Jobs /\ JobFits(c, j) /\ j \notin Devices
  BY TasksAssumption, JobsAssumption
     DEF Lockers, Tasks, Attended, TypeOK, Jobs, JobFits
<1>2. ~Tearing(c) /\ \A u \in Commands \ {c} : ~Starting(u)
  BY StartExcludes
<1>3. Teardown(c, j, r, ses, d, pc)
  OBVIOUS
<1>4. Brings(c, r, d)
  BY <1>1, <1>2 DEF Brings
<1> HIDE DEF j
<1>5. QED
  BY <1>1, <1>2, <1>3, <1>4, CallAttends

LEMMA FailuresAttend ==
  ASSUME Attended, pc[Supervisor] = "out", NEW c \in Commands,
         \/ InviteRefused(c) \/ AckRefused(c) \/ AnswerUnusable(c)
         \/ InviteFails(c) \/ SpawnFails(c)
  PROVE  pc'[Supervisor] = "out" /\ InPlace' /\ CaredFor'
<1>1. /\ rt \in RuntimeStates /\ dialog \in CallOrNone /\ leg[c] \in CallOrNone
  BY DEF Attended, TypeOK, Tasks
<1>2. CASE InviteRefused(c)
  <2> DEFINE r == AudioBound(rt)
  <2>1. r \in RuntimeStates
    BY <1>1, RuntimeTypes
  <2>2. r.process = rt.process /\ r.monitor = rt.monitor /\ r.ending = rt.ending
    BY <1>1 DEF AudioBound, RuntimeStates
  <2>3. /\ pc[c] = "preparing" /\ UNCHANGED <<link, placed, answered>>
        /\ Teardown(c, "start", r, ses, dialog, pc)
    BY <1>2 DEF InviteRefused, outsideVars
  <2> HIDE DEF r
  <2>4. QED
    BY <1>1, <2>1, <2>2, <2>3, StartFailsAttends DEF Starting
<1>3. CASE AnswerUnusable(c)
  <2>1. PICK r \in {rt, Negotiated(rt, leg[c])} :
          Teardown(c, "start", r, ses, dialog, pc)
    BY <1>3 DEF AnswerUnusable
  <2>2. r \in RuntimeStates
    BY <1>1, RuntimeTypes
  <2>3. /\ r.process = rt.process /\ r.monitor = rt.monitor /\ r.ending = rt.ending
        /\ r.audio = rt.audio
    BY <1>1 DEF Negotiated, RuntimeStates
  <2>4. Starting(c) /\ UNCHANGED <<link, placed, answered>>
    BY <1>3 DEF AnswerUnusable, outsideVars, Starting
  <2>5. QED
    BY <1>1, <2>1, <2>2, <2>3, <2>4, StartFailsAttends
<1>4. CASE InviteFails(c)
  BY <1>1, <1>4, StartFailsAttends DEF InviteFails, Starting
<1>5. CASE SpawnFails(c)
  BY <1>1, <1>5, StartFailsAttends DEF SpawnFails, Starting, outsideVars
<1>6. CASE AckRefused(c)
  BY <1>6 DEF AckRefused, Attended, InPlace
<1>7. QED
  BY <1>2, <1>3, <1>4, <1>5, <1>6

\* A watchdog gives up, or the reader reads the BYE of the call.
LEMMA NoticedEndAttends ==
  ASSUME Attended, pc[Supervisor] = "out"
  PROVE  /\ \A w \in Watchdogs : WatchdogFails(w) =>
              pc'[Supervisor] = "out" /\ InPlace' /\ CaredFor'
         /\ \A n \in Calls : RemoteEnded(n) =>
              pc'[Supervisor] = "out" /\ InPlace' /\ CaredFor'
<1>1. /\ rt \in RuntimeStates /\ ses \in SessionStates /\ dialog \in CallOrNone
      /\ "none" \in Jobs /\ "none" \notin Devices /\ Reader \in Tasks /\ Watchdogs \subseteq Tasks
      /\ \A w \in Watchdogs \cup {Reader} :
           w \notin Lockers /\ w # Supervisor /\ w \notin Commands /\ JobFits(w, "none")
      /\ Reader \notin Watchdogs /\ NoCall \in CallOrNone
  BY TasksAssumption, JobsAssumption, NoCallTypes
     DEF Attended, TypeOK, Tasks, Jobs, Lockers, JobFits
<1>2. ASSUME NEW w \in Watchdogs, WatchdogFails(w)
      PROVE  pc'[Supervisor] = "out" /\ InPlace' /\ CaredFor'
  <2>1. PICK s \in {ses, RuntimeError(ses)} : Teardown(w, "none", rt, s, dialog, pc)
    BY <1>2 DEF WatchdogFails, Delivered
  <2>2. s \in SessionStates
    BY <1>1, SessionTypes
  <2>3. ~Tearing(w) /\ UNCHANGED <<link, placed, answered>>
    BY <1>2 DEF WatchdogFails, Tearing, TeardownStages, outsideVars
  <2>4. QED
    BY <1>1, <2>1, <2>2, <2>3, CallAttends DEF Brings
<1>3. ASSUME NEW n \in Calls, RemoteEnded(n)
      PROVE  pc'[Supervisor] = "out" /\ InPlace' /\ CaredFor'
  <2>1. /\ Teardown(Reader, "none", rt, ses, NoCall, pc)
        /\ UNCHANGED <<link, placed, answered>> /\ dialog # NoCall
    BY <1>3 DEF RemoteEnded, Calls, NoCall
  <2>2. ~Tearing(Reader)
    BY <1>3 DEF RemoteEnded, Reading, Tearing, TeardownStages
  <2>3. QED
    BY <1>1, <2>1, <2>2, CallAttends DEF Brings
<1>4. QED
  BY <1>2, <1>3

\* nobody begins or ends a teardown, nobody gets on with a start, and every
\* watchdog goes on; a start may fail before it has asked for the call
Unmoved ==
  /\ \A x \in Tasks : Tearing(x) \/ Tearing(x)' => pc'[x] = pc[x]
  /\ \A c \in Commands : /\ Starting(c)' => pc'[c] = pc[c] /\ leg'[c] = leg[c]
                         /\ pc[c] \in {"inviting", "acknowledging", "spawning"} => pc'[c] = pc[c]
  /\ \A w \in Watchdogs : Supervising(w) => Supervising(w)'

\* what a step leaves alone that does nothing to the call
CallUnchanged ==
  /\ dialog' = dialog
  /\ rt'.process = rt.process /\ rt'.negotiated = rt.negotiated
  /\ rt'.audio = rt.audio /\ rt'.ending = rt.ending /\ rt'.monitor = rt.monitor

\* the answers that have been read: an awaited one is read only by a free reader
AnswersRead ==
  \/ answered' = answered
  \/ ~Tearing(Reader) /\ \E n \in 1 .. placed : answered' = answered \cup {n}

LEMMA StillAttends ==
  ASSUME Attended, Unmoved, CallUnchanged, AnswersRead, placed' = placed,
         link' # "closed"
  PROVE  InPlace' /\ CaredFor'
<1>1. Reader \in Tasks /\ Commands \subseteq Tasks /\ Watchdogs \subseteq Tasks
  BY DEF Tasks
<1>2. \A x \in Tasks : /\ Tearing(x)' <=> Tearing(x)
                       /\ LettingGo(x)' <=> LettingGo(x)
  <2>1. \A x \in Tasks : LettingGo(x) => Tearing(x)
    BY DEF LettingGo, Tearing, TeardownStages
  <2>2. \A x \in Tasks : LettingGo(x)' => Tearing(x)'
    BY DEF LettingGo, Tearing, TeardownStages
  <2>3. QED
    BY <2>1, <2>2 DEF Unmoved, LettingGo, Tearing
<1>3. \A c \in Commands : Starting(c)' => Starting(c) /\ pc'[c] = pc[c] /\ leg'[c] = leg[c]
  BY DEF Unmoved, Starting
<1>4. InPlace'
  <2>1. PlacedFirst'
    <3>1. \A n \in answered' : n <= placed
      BY DEF Attended, InPlace, PlacedFirst, AnswersRead
    <3>2. \A c \in Commands :
            pc'[c] \in {"inviting", "acknowledging", "spawning"} =>
              pc[c] \in {"inviting", "acknowledging", "spawning"} /\ leg'[c] = leg[c]
      BY <1>3 DEF Starting
    <3>3. QED
      BY <3>1, <3>2 DEF Attended, InPlace, PlacedFirst
  <2>2. ReaderHasNoDialog'
    BY <1>1, <1>2 DEF Attended, InPlace, ReaderHasNoDialog, CallUnchanged
  <2>3. InvitesAlone'
    <3> SUFFICES ASSUME NEW c \in Commands, pc'[c] = "inviting"
                 PROVE  /\ dialog' = NoCall
                        /\ leg'[c] \in answered' => ~Tearing(Reader)'
      BY DEF InvitesAlone
    <3>1. pc[c] = "inviting" /\ leg'[c] = leg[c]
      BY <1>3 DEF Starting
    <3>2. dialog = NoCall /\ (leg[c] \in answered => ~Tearing(Reader))
      BY <3>1 DEF Attended, InPlace, InvitesAlone
    <3>3. QED
      BY <1>1, <1>2, <3>1, <3>2 DEF AnswersRead, CallUnchanged
  <2>4. StartsAlone' /\ MonitorIsIdle'
    BY <1>1, <1>2, <1>3
       DEF Attended, InPlace, StartsAlone, MonitorIsIdle, CallUnchanged
  <2>5. QED
    BY <2>1, <2>2, <2>3, <2>4 DEF InPlace
<1>5. /\ SomebodyTears' <=> SomebodyTears
      /\ SomebodyLetsGo' <=> SomebodyLetsGo
      /\ SomebodySpawns => SomebodySpawns'
      /\ SomebodyWatches => SomebodyWatches'
  BY <1>2 DEF SomebodyTears, SomebodyLetsGo, SomebodySpawns, SomebodyWatches, Unmoved
<1>6. \A c \in Commands :
        /\ pc'[c] \in {"preparing", "inviting"} => pc[c] = pc'[c]
        /\ pc[c] = "inviting" => pc'[c] = "inviting"
  BY DEF Unmoved, Starting
<1>7. EndingIsOwned' /\ LeftDialogIsTaken' /\ CallIsKept'
  <2>1. CaredFor
    BY DEF Attended
  <2>2. EndingIsOwned'
    <3>1. (\E c \in Commands : pc'[c] \in {"preparing", "inviting"}) =>
            \E c \in Commands : pc[c] \in {"preparing", "inviting"}
      BY <1>6
    <3>2. QED
      BY <1>5, <2>1, <3>1 DEF CaredFor, EndingIsOwned, CallUnchanged
  <2>3. LeftDialogIsTaken'
    BY <1>5, <2>1 DEF CaredFor, LeftDialogIsTaken, CallUnchanged
  <2>4. CallIsKept'
    BY <1>5, <1>6, <2>1 DEF CaredFor, CallIsKept, CallUnchanged
  <2>5. QED
    BY <2>2, <2>3, <2>4
<1>8. TwoLetGo'
  <2> SUFFICES ASSUME NEW c \in Commands, pc'[c] = "preparing", rt'.ending,
                      dialog' # NoCall
               PROVE  \E x, u \in Tasks : x # u /\ LettingGo(x)' /\ LettingGo(u)'
    BY DEF TwoLetGo
  <2>1. pc[c] = "preparing" /\ rt.ending /\ dialog # NoCall
    BY <1>6 DEF CallUnchanged
  <2>2. \E x, u \in Tasks : x # u /\ LettingGo(x) /\ LettingGo(u)
    BY <2>1 DEF Attended, CaredFor, TwoLetGo
  <2>3. QED
    BY <1>2, <2>2
<1>9. QED
  BY <1>4, <1>7, <1>8 DEF CaredFor

\* A step that changes no stage moves nobody.
LEMMA StillUnmoved ==
  ASSUME UNCHANGED <<pc, leg>> PROVE Unmoved
BY DEF Unmoved, Tearing, Starting, Supervising

\* Nor does the step of one task that has no part in the call and gets none.
LEMMA BystanderUnmoved ==
  ASSUME TypeOK, NEW t \in Tasks, ~Tearing(t), ~Tearing(t)',
         pc[t] \notin {"inviting", "acknowledging", "spawning"}, ~Starting(t)',
         Supervising(t) => Supervising(t)',
         \A x \in Tasks \ {t} :
           /\ pc'[x] = pc[x] \/ (pc[x] = "armed" /\ pc'[x] = "out")
           /\ pc'[x] # "out" => leg'[x] = leg[x]
  PROVE  Unmoved /\ (t # Supervisor /\ pc[Supervisor] = "out" => pc'[Supervisor] = "out")
<1>1. Commands \subseteq Tasks /\ Watchdogs \subseteq Tasks /\ Supervisor \in Tasks
  BY DEF Tasks
<1>2. \A x \in Tasks : Tearing(x) \/ Tearing(x)' => pc'[x] = pc[x]
  BY DEF Tearing, TeardownStages
<1>3. \A c \in Commands : /\ Starting(c)' => pc'[c] = pc[c] /\ leg'[c] = leg[c]
                          /\ pc[c] \in {"inviting", "acknowledging", "spawning"} => pc'[c] = pc[c]
  BY <1>1 DEF Starting
<1>4. \A w \in Watchdogs : Supervising(w) => Supervising(w)'
  BY <1>1 DEF Supervising
<1>5. QED
  BY <1>1, <1>2, <1>3, <1>4 DEF Unmoved

\* end finds nothing to end, or ends the call.
LEMMA EndAttends ==
  ASSUME Attended, pc[Supervisor] = "out", UNCHANGED outsideVars,
         LockFree, NEW t \in Lockers, pc[t] \in {"out", "queued", "fired"},
         EndLocked(t)
  PROVE  pc'[Supervisor] = "out" /\ InPlace' /\ CaredFor'
<1>1. /\ TypeOK /\ t \in Tasks /\ t # Supervisor /\ rt \in RuntimeStates
      /\ ses \in SessionStates /\ dialog \in CallOrNone
      /\ "end" \in Jobs /\ "end" \notin Devices /\ JobFits(t, "end") /\ link # "closed"
  BY TasksAssumption, JobsAssumption
     DEF Attended, InPlace, TypeOK, Lockers, Tasks, Jobs, JobFits
<1>2. CASE ses.state = "idle"
  <2> DEFINE o == [rt |-> rt, ses |-> NothingToEnd(ses), at |-> "out"]
  <2>1. Stops(t, "end", o, dialog, TimerCancelled(pc))
    BY <1>2 DEF EndLocked
  <2>2. o \in Outcomes
    BY <1>1, SessionTypes DEF Outcomes, Stages
  <2>3. o.rt = rt /\ o.at = "out"
    OBVIOUS
  <2> HIDE DEF o
  <2>4. /\ pc'[t] = "out" /\ rt' = rt /\ dialog' = dialog
        /\ \A x \in Tasks \ {t} :
             /\ pc'[x] = pc[x] \/ (pc[x] = "armed" /\ pc'[x] = "out")
             /\ pc'[x] # "out" => leg'[x] = leg[x]
    BY <1>1, <2>1, <2>2, <2>3, StopsExactly, TimersOnlyCancelled DEF TimersOnly
  <2>5. /\ ~Tearing(t) /\ ~Tearing(t)' /\ ~Supervising(t) /\ ~Starting(t)'
        /\ pc[t] \notin {"inviting", "acknowledging", "spawning"}
    BY <2>4 DEF Tearing, TeardownStages, Supervising, Starting
  <2>6. Unmoved /\ pc'[Supervisor] = "out"
    BY <1>1, <2>4, <2>5, BystanderUnmoved
  <2>7. CallUnchanged /\ AnswersRead /\ placed' = placed /\ link' # "closed"
    BY <1>1, <2>4 DEF CallUnchanged, AnswersRead, outsideVars
  <2>8. QED
    BY <2>6, <2>7, StillAttends
<1>3. CASE ses.state # "idle"
  BY <1>1, <1>3, EndingAttends DEF EndLocked
<1>4. QED
  BY <1>2, <1>3

\* A start begins, or finds that there is a call already.
LEMMA StartAttends ==
  ASSUME Attended, pc[Supervisor] = "out", NEW c \in Commands, NEW d \in Devices,
         Start(c, d)
  PROVE  pc'[Supervisor] = "out" /\ InPlace' /\ CaredFor'
<1>1. /\ TypeOK /\ c \in Tasks /\ c # Supervisor /\ c # Reader /\ c \notin Watchdogs
      /\ rt \in RuntimeStates /\ ses \in SessionStates /\ dialog \in CallOrNone
      /\ pc \in [Tasks -> Stages] /\ "start" \in Jobs /\ link # "closed"
  BY TasksAssumption DEF Attended, InPlace, TypeOK, Tasks, Jobs
<1>2. /\ pc[c] \in {"out", "queued"} /\ UNCHANGED outsideVars
      /\ Stops(c, "start", Started(rt, ses, d), dialog, pc)
  BY DEF Start, Admitted
<1>3. /\ ~Tearing(c) /\ ~Supervising(c) /\ ~LettingGo(c)
      /\ pc[c] \notin {"inviting", "acknowledging", "spawning"}
  BY <1>2 DEF Tearing, TeardownStages, Supervising, LettingGo
<1> DEFINE o == Started(rt, ses, d)
           m == Muted(rt)
           p == Preparing(m)
<1>4. o \in Outcomes
  BY <1>1, StartedIsOutcome
<1>5. /\ m \in RuntimeStates
      /\ m.process = rt.process /\ m.negotiated = rt.negotiated
      /\ m.audio = rt.audio /\ m.ending = rt.ending /\ m.monitor = rt.monitor
  <2>1. /\ m.process = rt.process /\ m.negotiated = rt.negotiated
        /\ m.audio = rt.audio /\ m.ending = rt.ending /\ m.monitor = rt.monitor
    BY <1>1 DEF Muted, WithMicrophone, RuntimeStates
  <2>2. QED
    BY <1>1, <2>1, RuntimeTypes
<1>6. \/ o.rt = m /\ o.at = "out"
      \/ ~AlreadyActive(m) /\ o.rt = p /\ o.at = "preparing"
  BY DEF Started
<1> HIDE DEF m, o
<1>7. /\ p.process = m.process /\ p.negotiated = m.negotiated
      /\ p.audio = m.audio /\ ~p.ending /\ p.monitor = m.monitor
  BY <1>5 DEF Preparing, RuntimeStates
<1> HIDE DEF p
<1>8. /\ pc'[c] = o.at /\ rt' = o.rt
      /\ dialog' = IF o.at \in {"hangingUp", "sipBye"} THEN NoCall ELSE dialog
      /\ \A x \in Tasks \ {c} : /\ job'[x] = job[x] /\ pc'[x] = pc[x]
                                /\ pc'[x] # "out" => leg'[x] = leg[x]
  BY <1>1, <1>2, <1>4, StopsExactly DEF o
<1>9. dialog' = dialog
  BY <1>6, <1>8
<1>10. CASE o.at = "out"
  <2>1. Unmoved /\ pc'[Supervisor] = "out"
    <3>1. ~Tearing(c)' /\ ~Starting(c)'
      BY <1>8, <1>10 DEF Tearing, TeardownStages, Starting
    <3>2. QED
      BY <1>1, <1>3, <1>8, <3>1, BystanderUnmoved
  <2>2. CallUnchanged /\ AnswersRead /\ placed' = placed /\ link' # "closed"
    BY <1>1, <1>2, <1>5, <1>6, <1>8, <1>9, <1>10
       DEF CallUnchanged, AnswersRead, outsideVars
  <2>3. QED
    BY <2>1, <2>2, StillAttends
<1>11. CASE o.at = "preparing"
  <2>1. /\ pc'[c] = "preparing"
        /\ rt'.process = NoCall /\ rt'.process = rt.process
        /\ rt'.negotiated = NoCall /\ rt'.audio = rt.audio /\ ~rt'.ending
        /\ rt'.monitor = rt.monitor
    BY <1>5, <1>6, <1>7, <1>8, <1>11 DEF AlreadyActive
  <2>2. OthersShed(c, None) /\ None \notin Watchdogs
    BY <1>1, <1>8, TasksAssumption DEF OthersShed, Tasks
  <2>3. Unwatched(c) /\ Undisturbed(c) /\ pc'[Supervisor] = "out"
    BY <1>1, <2>2, ShedUndisturbed DEF Unwatched
  <2>4. ~Tearing(c)' /\ UNCHANGED <<link, placed, answered>>
    BY <1>2, <2>1 DEF Tearing, TeardownStages, outsideVars
  <2>5. InPlace'
    BY <1>1, <1>9, <2>1, <2>3, <2>4, StaysInPlace
  <2>6. CaredFor'
    BY <1>1, <1>3, <1>9, <2>1, <2>3, IdleCares
  <2>7. QED
    BY <2>3, <2>5, <2>6
<1>12. QED
  BY <1>6, <1>10, <1>11

LEMMA UserStepAttends ==
  ASSUME Attended, pc[Supervisor] = "out", NEW c \in Commands,
         Queues(c) \/ UserStep(c)
  PROVE  pc'[Supervisor] = "out" /\ InPlace' /\ CaredFor'
<1>1. /\ TypeOK /\ c \in Tasks /\ c \in Lockers /\ c # Supervisor
      /\ pc \in [Tasks -> Stages] /\ link # "closed"
  BY TasksAssumption DEF Attended, InPlace, TypeOK, Tasks, Lockers
<1>2. ASSUME NEW at \in {"out", "queued"}, pc' = [pc EXCEPT ![c] = at],
             pc[c] \in {"out", "queued"},
             UNCHANGED <<rt, dialog, link, placed, answered, leg>>
      PROVE  pc'[Supervisor] = "out" /\ InPlace' /\ CaredFor'
  <2>1. /\ pc'[c] \in {"out", "queued"}
        /\ \A x \in Tasks \ {c} : pc'[x] = pc[x] /\ leg'[x] = leg[x]
    BY <1>1, <1>2
  <2>2. /\ ~Tearing(c) /\ ~Tearing(c)' /\ ~Supervising(c) /\ ~Starting(c)'
        /\ pc[c] \notin {"inviting", "acknowledging", "spawning"}
    BY <1>2, <2>1 DEF Tearing, TeardownStages, Supervising, Starting
  <2>3. Unmoved /\ pc'[Supervisor] = "out"
    BY <1>1, <2>1, <2>2, BystanderUnmoved
  <2>4. CallUnchanged /\ AnswersRead /\ placed' = placed /\ link' # "closed"
    BY <1>1, <1>2 DEF CallUnchanged, AnswersRead
  <2>5. QED
    BY <2>3, <2>4, StillAttends
<1>3. CASE Queues(c)
  BY <1>2, <1>3 DEF Queues, sipVars, gatewayVars
<1>4. ASSUME NEW d \in Devices, StartShared(c, d)
      PROVE  pc'[Supervisor] = "out" /\ InPlace' /\ CaredFor'
  BY <1>2, <1>4 DEF StartShared, Admitted, sipVars, gatewayVars
<1>5. ASSUME NEW d \in Devices, SwitchDevice(c, d)
      PROVE  pc'[Supervisor] = "out" /\ InPlace' /\ CaredFor'
  <2>1. d \in Jobs /\ JobFits(c, d)
    BY <1>1, JobsAssumption, TasksAssumption DEF Jobs, JobFits, Lockers
  <2>2. /\ LockFree /\ pc[c] \in {"out", "queued", "fired"} /\ UNCHANGED outsideVars
        /\ Teardown(c, d, Muted(rt), EndBegun(ses), dialog, TimerCancelled(pc))
    BY <1>5 DEF SwitchDevice, Admitted
  <2>3. QED
    BY <1>1, <2>1, <2>2, EndingAttends
<1>6. CASE End(c)
  <2>1. /\ LockFree /\ pc[c] \in {"out", "queued", "fired"} /\ EndLocked(c)
        /\ UNCHANGED outsideVars
    BY <1>6 DEF End, Admitted
  <2>2. QED
    BY <1>1, <2>1, EndAttends
<1>7. QED
  BY <1>3, <1>4, <1>5, <1>6, StartAttends DEF UserStep

\* A start is asked for, answered, or under way; or it fails.
LEMMA StartStepAttends ==
  ASSUME Attended, pc[Supervisor] = "out", NEW c \in Commands, StartStep(c)
  PROVE  pc'[Supervisor] = "out" /\ InPlace' /\ CaredFor'
<1>1. /\ TypeOK /\ Commands \subseteq Tasks /\ c \in Tasks /\ c # Supervisor
      /\ Watchdogs \subseteq Tasks /\ Reader \in Tasks /\ c # Reader
      /\ Supervisor \notin Watchdogs /\ c \notin Watchdogs
      /\ Reader \notin Watchdogs /\ Supervisor \in Tasks
      /\ rt \in RuntimeStates /\ ses \in SessionStates /\ dialog \in CallOrNone
      /\ pc \in [Tasks -> Stages] /\ leg \in [Tasks -> CallOrNone]
      /\ placed \in Nat /\ "start" \in Jobs /\ link # "closed"
      /\ Watchdogs \cap Commands = {}
  BY TasksAssumption DEF Attended, InPlace, TypeOK, Tasks, Jobs, CallOrNone
<1>2. CASE PrepareFails(c)
  <2> DEFINE o == [rt |-> rt, ses |-> StartFailed(ses), at |-> "out"]
  <2>1. pc[c] = "preparing" /\ UNCHANGED outsideVars /\ Stops(c, "start", o, dialog, pc)
    BY <1>2 DEF PrepareFails
  <2>2. o \in Outcomes
    BY <1>1, SessionTypes DEF Outcomes, Stages
  <2>3. o.rt = rt /\ o.at = "out"
    OBVIOUS
  <2> HIDE DEF o
  <2>4. /\ pc'[c] = "out" /\ rt' = rt /\ dialog' = dialog
        /\ \A x \in Tasks \ {c} : /\ pc'[x] = pc[x]
                                  /\ pc'[x] # "out" => leg'[x] = leg[x]
    BY <1>1, <2>1, <2>2, <2>3, StopsExactly
  <2>5. /\ ~Tearing(c) /\ ~Tearing(c)' /\ ~Supervising(c) /\ ~Starting(c)'
        /\ pc[c] \notin {"inviting", "acknowledging", "spawning"}
    BY <2>1, <2>4 DEF Tearing, TeardownStages, Supervising, Starting
  <2>6. Unmoved /\ pc'[Supervisor] = "out"
    BY <1>1, <2>4, <2>5, BystanderUnmoved
  <2>7. CallUnchanged /\ AnswersRead /\ placed' = placed /\ link' # "closed"
    BY <1>1, <2>1, <2>4 DEF CallUnchanged, AnswersRead, outsideVars
  <2>8. QED
    BY <2>6, <2>7, StillAttends
<1>3. CASE Invite(c)
  <2>1. /\ pc[c] = "preparing" /\ dialog = NoCall /\ dialog' = NoCall
        /\ placed' = placed + 1 /\ link' = link /\ answered' = answered
        /\ pc' = [pc EXCEPT ![c] = "inviting"]
        /\ leg' = [leg EXCEPT ![c] = placed + 1]
        /\ rt' = AudioBound(rt)
    BY <1>3 DEF Invite
  <2>2. /\ rt'.process = rt.process /\ rt'.negotiated = rt.negotiated
        /\ rt'.ending = rt.ending /\ rt'.monitor = rt.monitor
    BY <1>1, <2>1 DEF AudioBound, RuntimeStates
  <2>3. /\ pc'[c] = "inviting" /\ leg'[c] = placed + 1
        /\ \A x \in Tasks \ {c} : pc'[x] = pc[x] /\ leg'[x] = leg[x]
    BY <1>1, <2>1
  <2>4. \A x \in Tasks : /\ Tearing(x)' <=> Tearing(x)
                         /\ LettingGo(x)' <=> LettingGo(x)
                         /\ Supervising(x)' <=> Supervising(x)
    BY <2>1, <2>3 DEF Tearing, TeardownStages, LettingGo, Supervising
  <2>5. Starting(c) /\ ~SomebodySpawns /\ \A u \in Commands \ {c} : ~Starting(u)
    BY <2>1, StartExcludes DEF Starting, SomebodySpawns
  <2>6. /\ SomebodyTears' <=> SomebodyTears
        /\ SomebodyLetsGo' <=> SomebodyLetsGo
        /\ SomebodyWatches' <=> SomebodyWatches
    BY <1>1, <2>4 DEF SomebodyTears, SomebodyLetsGo, SomebodyWatches
  <2>7. InPlace'
    <3>1. PlacedFirst' /\ placed + 1 \notin answered
      BY <1>1, <2>1, <2>3, <2>5
         DEF Attended, InPlace, PlacedFirst, TypeOK, Calls, Starting
    <3>2. ReaderHasNoDialog' /\ MonitorIsIdle'
      BY <1>1, <2>1, <2>2, <2>4
         DEF Attended, InPlace, ReaderHasNoDialog, MonitorIsIdle
    <3>3. InvitesAlone'
      BY <1>1, <2>1, <2>3, <2>5, <3>1 DEF InvitesAlone, Starting
    <3>4. StartsAlone'
      BY <2>2, <2>5 DEF Attended, InPlace, StartsAlone
    <3>5. QED
      BY <1>1, <2>1, <3>1, <3>2, <3>3, <3>4 DEF InPlace
  <2>8. CaredFor'
    <3>1. CaredFor
      BY DEF Attended
    <3>2. EndingIsOwned'
      BY <2>1, <2>2, <2>6, <3>1 DEF CaredFor, EndingIsOwned
    <3>3. LeftDialogIsTaken' /\ TwoLetGo'
      BY <2>1 DEF LeftDialogIsTaken, TwoLetGo
    <3>4. CallIsKept'
      BY <2>1, <2>2, <2>3, <2>5, <2>6, <3>1 DEF CaredFor, CallIsKept
    <3>5. QED
      BY <3>2, <3>3, <3>4 DEF CaredFor
  <2>9. QED
    BY <1>1, <2>3, <2>7, <2>8
<1>4. CASE InviteAnswered(c) \/ InviteAccepted(c)
  <2>1. /\ \/ pc[c] = "inviting" /\ leg[c] \in answered
           \/ pc[c] = "acknowledging" /\ rt.audio /\ dialog' = dialog
        /\ placed' = placed /\ link' = link /\ answered' = answered /\ leg' = leg
        /\ \E at \in {"acknowledging", "spawning"} : pc' = [pc EXCEPT ![c] = at]
        /\ rt' \in {rt, Negotiated(rt, leg[c])}
    BY <1>4 DEF InviteAnswered, InviteAccepted, sipVars, gatewayVars
  <2>2. /\ rt'.process = rt.process /\ rt'.audio = rt.audio
        /\ rt'.ending = rt.ending /\ rt'.monitor = rt.monitor
    BY <1>1, <2>1 DEF Negotiated, RuntimeStates
  <2>3. /\ pc'[c] \in {"acknowledging", "spawning"}
        /\ \A x \in Tasks \ {c} : pc'[x] = pc[x]
    BY <1>1, <2>1
  <2>4. \A x \in Tasks : /\ Tearing(x)' <=> Tearing(x)
                         /\ LettingGo(x)' <=> LettingGo(x)
    BY <2>1, <2>3 DEF Tearing, TeardownStages, LettingGo
  <2>5. Starting(c) /\ \A u \in Commands \ {c} : ~Starting(u)
    BY <2>1, StartExcludes DEF Starting
  <2>6. /\ SomebodyTears' <=> SomebodyTears
        /\ SomebodyLetsGo' <=> SomebodyLetsGo
        /\ SomebodySpawns'
    BY <2>3, <2>4 DEF SomebodyTears, SomebodyLetsGo, SomebodySpawns
  <2>7. \A u \in Commands : pc'[u] \notin {"preparing", "inviting"}
    BY <1>1, <2>3, <2>5 DEF Starting
  <2>8. InPlace'
    <3>1. PlacedFirst'
      BY <1>1, <2>1, <2>3, <2>5 DEF Attended, InPlace, PlacedFirst, Starting
    <3>2. ReaderHasNoDialog' /\ MonitorIsIdle'
      BY <1>1, <2>1, <2>2, <2>4
         DEF Attended, InPlace, InvitesAlone, ReaderHasNoDialog, MonitorIsIdle
    <3>3. InvitesAlone'
      BY <2>7 DEF InvitesAlone
    <3>4. StartsAlone'
      BY <2>2, <2>5 DEF Attended, InPlace, StartsAlone
    <3>5. QED
      BY <1>1, <2>1, <3>1, <3>2, <3>3, <3>4 DEF InPlace
  <2>9. CaredFor'
    <3>1. rt.ending => SomebodyTears /\ SomebodyLetsGo
      BY <2>1 DEF Attended, CaredFor, EndingIsOwned
    <3>2. EndingIsOwned'
      BY <2>2, <2>6, <3>1 DEF EndingIsOwned
    <3>3. LeftDialogIsTaken' /\ TwoLetGo' /\ CallIsKept'
      BY <2>6, <2>7 DEF LeftDialogIsTaken, TwoLetGo, CallIsKept
    <3>4. QED
      BY <3>2, <3>3 DEF CaredFor
  <2>10. QED
    BY <1>1, <2>3, <2>8, <2>9
<1>5. ASSUME NEW w \in Watchdogs, Spawn(c, w)
      PROVE  pc'[Supervisor] = "out" /\ InPlace' /\ CaredFor'
  <2>1. /\ pc[c] = "spawning" /\ pc[w] = "out" /\ dialog' = dialog
        /\ placed' = placed /\ link' = link /\ answered' = answered
        /\ pc' = [pc EXCEPT ![c] = "out", ![w] = "waiting"]
        /\ leg' = [leg EXCEPT ![c] = NoCall]
        /\ rt' = Spawned(rt, leg[c], w)
    BY <1>5 DEF Spawn, sipVars, gatewayVars
  <2>2. /\ rt'.process = leg[c] /\ rt'.audio = rt.audio /\ rt'.monitor = w
        /\ rt'.ending = rt.ending /\ rt'.negotiated = rt.negotiated
    BY <1>1, <2>1 DEF Spawned, RuntimeStates
  <2>3. /\ pc'[c] = "out" /\ pc'[w] = "waiting" /\ w # c
        /\ \A x \in Tasks \ {c, w} : pc'[x] = pc[x] /\ leg'[x] = leg[x]
    BY <1>1, <2>1
  <2>4. \A x \in Tasks : /\ Tearing(x)' <=> Tearing(x)
                         /\ LettingGo(x)' <=> LettingGo(x)
    BY <2>1, <2>3 DEF Tearing, TeardownStages, LettingGo
  <2>5. Starting(c) /\ \A u \in Commands \ {c} : ~Starting(u)
    BY <2>1, StartExcludes DEF Starting
  <2>6. \A u \in Commands : ~Starting(u)'
    BY <1>1, <2>3, <2>5 DEF Starting
  <2>7. /\ SomebodyTears' <=> SomebodyTears
        /\ SomebodyLetsGo' <=> SomebodyLetsGo
        /\ SomebodyWatches'
    BY <2>3, <2>4 DEF SomebodyTears, SomebodyLetsGo, SomebodyWatches, Supervising
  <2>8. rt'.process # NoCall
    BY <1>1, <2>1, <2>2 DEF Attended, InPlace, PlacedFirst, NoCall
  <2>9. InPlace'
    <3>1. PlacedFirst'
      BY <2>1, <2>6 DEF Attended, InPlace, PlacedFirst, Starting
    <3>2. ReaderHasNoDialog'
      BY <1>1, <2>1, <2>4 DEF Attended, InPlace, ReaderHasNoDialog
    <3>3. MonitorIsIdle'
      BY <2>2, <2>3 DEF MonitorIsIdle, Tearing, TeardownStages
    <3>4. InvitesAlone' /\ StartsAlone'
      BY <2>6 DEF InvitesAlone, StartsAlone, Starting
    <3>5. QED
      BY <1>1, <2>1, <3>1, <3>2, <3>3, <3>4 DEF InPlace
  <2>10. CaredFor'
    <3>1. EndingIsOwned'
      BY <2>1, <2>2, <2>6, <2>7 DEF Attended, CaredFor, EndingIsOwned, Starting
    <3>2. LeftDialogIsTaken' /\ TwoLetGo' /\ CallIsKept'
      BY <2>6, <2>7, <2>8 DEF LeftDialogIsTaken, TwoLetGo, CallIsKept, Starting
    <3>3. QED
      BY <3>1, <3>2 DEF CaredFor
  <2>11. QED
    BY <1>1, <2>3, <2>9, <2>10
<1>6. QED
  BY <1>2, <1>3, <1>4, <1>5, FailuresAttend DEF StartStep

LEMMA OtherStepsAttend ==
  ASSUME Attended, pc[Supervisor] = "out",
         \/ \E on \in BOOLEAN : SetMicrophone(on)
         \/ ViewerStep
         \/ \E t \in Timers : TimerStep(t)
         \/ \E w \in Watchdogs : WatchdogStep(w)
         \/ \E n \in Calls : ReaderStep(n) \/ GatewayStep(n)
         \/ FFmpegExits \/ LinkLost \/ UNCHANGED vars
  PROVE  pc'[Supervisor] = "out" /\ InPlace' /\ CaredFor'
<1>1. /\ TypeOK /\ rt \in RuntimeStates /\ ses \in SessionStates
      /\ pc \in [Tasks -> Stages] /\ leg \in [Tasks -> CallOrNone] /\ link # "closed"
      /\ Timers \subseteq Tasks /\ Timers \subseteq Lockers
      /\ Watchdogs \subseteq Tasks /\ Supervisor \in Tasks
      /\ Supervisor \notin Timers /\ Supervisor \notin Watchdogs /\ Reader \in Tasks
  BY TasksAssumption DEF Attended, InPlace, TypeOK, Tasks, Lockers
<1>2. ASSUME UNCHANGED <<dialog, placed>>, AnswersRead, link' # "closed",
             \/ rt' = rt
             \/ \E on \in BOOLEAN : rt' = WithMicrophone(rt, on)
             \/ rt' = [rt EXCEPT !.exited = TRUE],
             Unmoved
      PROVE  InPlace' /\ CaredFor'
  <2>1. CallUnchanged
    BY <1>1, <1>2 DEF CallUnchanged, WithMicrophone, RuntimeStates
  <2>2. QED
    BY <1>2, <2>1, StillAttends
<1>3. ASSUME UNCHANGED <<pc, leg, dialog, placed>>, AnswersRead, link' # "closed",
             \/ rt' = rt
             \/ \E on \in BOOLEAN : rt' = WithMicrophone(rt, on)
             \/ rt' = [rt EXCEPT !.exited = TRUE]
      PROVE  pc'[Supervisor] = "out" /\ InPlace' /\ CaredFor'
  BY <1>2, <1>3, StillUnmoved
<1>4. ASSUME UNCHANGED <<rt, dialog, placed, answered, link>>, NEW t \in Timers \cup Watchdogs,
             ~Tearing(t), ~Tearing(t)', pc[t] \notin {"inviting", "acknowledging", "spawning"},
             ~Starting(t)', Supervising(t) => Supervising(t)',
             \A x \in Tasks \ {t} :
               /\ pc'[x] = pc[x] \/ (pc[x] = "armed" /\ pc'[x] = "out")
               /\ pc'[x] # "out" => leg'[x] = leg[x]
      PROVE  pc'[Supervisor] = "out" /\ InPlace' /\ CaredFor'
  <2>1. Unmoved /\ pc'[Supervisor] = "out"
    BY <1>1, <1>4, BystanderUnmoved
  <2>2. AnswersRead /\ link' # "closed"
    BY <1>1, <1>4 DEF AnswersRead
  <2>3. QED
    BY <1>2, <1>4, <2>1, <2>2
<1>5. ASSUME NEW on \in BOOLEAN, SetMicrophone(on)
      PROVE  pc'[Supervisor] = "out" /\ InPlace' /\ CaredFor'
  BY <1>1, <1>3, <1>5 DEF SetMicrophone, sipVars, gatewayVars, AnswersRead
<1>6. CASE FFmpegExits \/ LinkLost \/ UNCHANGED vars
  BY <1>1, <1>3, <1>6
     DEF FFmpegExits, LinkLost, vars, sipVars, gatewayVars, AnswersRead
<1>7. ASSUME NEW n \in Calls, GatewayStep(n)
      PROVE  pc'[Supervisor] = "out" /\ InPlace' /\ CaredFor'
  BY <1>1, <1>3, <1>7
     DEF GatewayStep, GatewayPicksUp, GatewayHangsUp, sipVars, AnswersRead
<1>8. ASSUME NEW n \in Calls, ReaderStep(n)
      PROVE  pc'[Supervisor] = "out" /\ InPlace' /\ CaredFor'
  <2>1. CASE ReadAnswer(n)
    <3>1. n \in 1 .. placed
      BY <2>1 DEF ReadAnswer, AwaitsAnswer, Attended, InPlace, PlacedFirst
    <3>2. ~Tearing(Reader)
      BY <2>1 DEF ReadAnswer, Reading, Tearing, TeardownStages
    <3>3. AnswersRead
      BY <2>1, <3>1, <3>2 DEF ReadAnswer, AnswersRead
    <3>4. QED
      BY <1>1, <1>3, <2>1, <3>3 DEF ReadAnswer, sipVars
  <2>2. CASE ByeIgnored(n)
    BY <1>1, <1>3, <2>2 DEF ByeIgnored, sipVars, AnswersRead
  <2>3. QED
    BY <1>8, <2>1, <2>2, NoticedEndAttends DEF ReaderStep
<1>9. CASE ViewerStep
  <2>1. CASE ViewerGivesUp
    BY <1>1, <1>3, <2>1 DEF ViewerGivesUp, sipVars, gatewayVars, AnswersRead
  <2>2. CASE ViewerJoins
    <3>1. /\ UNCHANGED <<rt, dialog, placed, answered, link>>
          /\ pc' = TimerCancelled(pc)
          /\ \A x \in Tasks : pc'[x] # "out" => leg'[x] = leg[x]
      BY <2>2 DEF ViewerJoins, sipVars, gatewayVars
    <3>2. \A x \in Tasks : pc'[x] = pc[x] \/ (pc[x] = "armed" /\ pc'[x] = "out")
      BY <1>1, <3>1, TimersOnlyCancelled DEF TimersOnly
    <3>3. \A x \in Tasks : Tearing(x) \/ Tearing(x)' => pc'[x] = pc[x]
      BY <3>2 DEF Tearing, TeardownStages
    <3>4. \A c \in Commands : /\ Starting(c)' => pc'[c] = pc[c] /\ leg'[c] = leg[c]
                              /\ pc[c] \in {"inviting", "acknowledging", "spawning"} => pc'[c] = pc[c]
      BY <3>1, <3>2 DEF Starting, Tasks
    <3>5. Unmoved
      BY <1>1, <3>2, <3>3, <3>4 DEF Unmoved, Supervising
    <3>6. QED
      BY <1>1, <1>2, <3>1, <3>2, <3>5 DEF AnswersRead
  <2>3. ASSUME NEW t \in Timers, ViewerLeaves(t)
        PROVE  pc'[Supervisor] = "out" /\ InPlace' /\ CaredFor'
    <3>1. UNCHANGED <<rt, dialog, placed, answered, link>>
      BY <2>3 DEF ViewerLeaves, sipVars, gatewayVars
    <3>2. CASE UNCHANGED <<pc, leg>>
      BY <1>1, <1>3, <3>1, <3>2 DEF AnswersRead
    <3>3. CASE StartsCleanup(ses)
      <4>1. /\ pc[t] = "out" /\ pc'[t] = "armed"
            /\ \A x \in Tasks \ {t} : pc'[x] = pc[x] /\ leg'[x] = leg[x]
        BY <1>1, <2>3, <3>3 DEF ViewerLeaves
      <4>2. /\ ~Tearing(t) /\ ~Tearing(t)' /\ ~Supervising(t) /\ ~Starting(t)'
            /\ pc[t] \notin {"inviting", "acknowledging", "spawning"}
        BY <4>1 DEF Tearing, TeardownStages, Supervising, Starting
      <4>3. QED
        BY <1>4, <3>1, <4>1, <4>2
    <3>4. QED
      BY <2>3, <3>2, <3>3 DEF ViewerLeaves
  <2>4. QED
    BY <1>9, <2>1, <2>2, <2>3 DEF ViewerStep
<1>10. ASSUME NEW t \in Timers, TimerStep(t)
       PROVE  pc'[Supervisor] = "out" /\ InPlace' /\ CaredFor'
  <2>1. CASE TimerFires(t)
    <3>1. /\ pc[t] = "armed" /\ pc'[t] = "fired"
          /\ \A x \in Tasks \ {t} : pc'[x] = pc[x] /\ leg'[x] = leg[x]
          /\ UNCHANGED <<rt, dialog, placed, answered, link>>
      BY <1>1, <2>1 DEF TimerFires, sipVars, gatewayVars
    <3>2. /\ ~Tearing(t) /\ ~Tearing(t)' /\ ~Supervising(t) /\ ~Starting(t)'
          /\ pc[t] \notin {"inviting", "acknowledging", "spawning"}
      BY <3>1 DEF Tearing, TeardownStages, Supervising, Starting
    <3>3. QED
      BY <1>4, <3>1, <3>2
  <2>2. CASE TimerEnds(t)
    BY <1>1, <2>2, EndAttends DEF TimerEnds
  <2>3. QED
    BY <1>10, <2>1, <2>2 DEF TimerStep
<1>11. ASSUME NEW w \in Watchdogs, WatchdogStep(w)
       PROVE  pc'[Supervisor] = "out" /\ InPlace' /\ CaredFor'
  <2>1. CASE FirstVideo(w)
    <3>1. /\ pc[w] = "waiting" /\ pc'[w] = "watching"
          /\ \A x \in Tasks \ {w} : pc'[x] = pc[x] /\ leg'[x] = leg[x]
          /\ UNCHANGED <<rt, dialog, placed, answered, link>>
      BY <1>1, <2>1 DEF FirstVideo, sipVars, gatewayVars
    <3>2. /\ ~Tearing(w) /\ ~Tearing(w)' /\ Supervising(w)' /\ ~Starting(w)'
          /\ pc[w] \notin {"inviting", "acknowledging", "spawning"}
      BY <3>1 DEF Tearing, TeardownStages, Supervising, Starting
    <3>3. QED
      BY <1>4, <3>1, <3>2
  <2>2. QED
    BY <1>11, <2>1, NoticedEndAttends DEF WatchdogStep
<1>12. QED
  BY <1>5, <1>6, <1>7, <1>8, <1>9, <1>10, <1>11

\* A call of _teardown spares the supervisor's stage.
LEMMA TeardownSpares ==
  ASSUME NEW t \in Tasks, t # Supervisor, NEW j, NEW r, NEW s, NEW d,
         NEW pcs \in [Tasks -> Stages], r.monitor # Supervisor,
         pcs[Supervisor] # "waiting", Teardown(t, j, r, s, d, pcs)
  PROVE  pc'[Supervisor] = pcs[Supervisor]
<1>1. Supervisor \in Tasks
  BY DEF Tasks
<1>2. QED
  BY <1>1 DEF Teardown, TeardownStops, Stops, MonitorCancelled, Deafened

\* What the supervisor has begun it does not leave.
LEMMA SupervisorStays ==
  ASSUME TypeOK, KindInv, [Next]_vars, pc[Supervisor] # "out"
  PROVE  pc'[Supervisor] # "out"
<1>1. /\ pc \in [Tasks -> Stages] /\ TimerCancelled(pc) \in [Tasks -> Stages]
      /\ Supervisor \in Tasks /\ rt \in RuntimeStates /\ ses \in SessionStates
      /\ dialog \in CallOrNone
      /\ Supervisor \notin Commands \cup Timers \cup Watchdogs /\ Reader # Supervisor
  BY TasksAssumption, TimersOnlyCancelled DEF TypeOK, Tasks
<1>2. pc[Supervisor] \in {"sipBye", "closing", "closed"} \cup TeardownStages
  BY <1>1, TasksAssumption DEF KindInv, Fits, Stages
<1>3. TimerCancelled(pc)[Supervisor] = pc[Supervisor] /\ pc[Supervisor] # "waiting"
  BY <1>1, <1>2 DEF TimerCancelled, TeardownStages
<1>4. ASSUME NEW t \in Tasks, t # Supervisor, NEW j, NEW r \in RuntimeStates, NEW s,
             NEW d, NEW pcs \in {pc, TimerCancelled(pc)}, Teardown(t, j, r, s, d, pcs)
      PROVE  pc'[Supervisor] # "out"
  <2>1. r.monitor # Supervisor
    BY <1>1, TasksAssumption DEF RuntimeStates, Tasks
  <2>2. pc'[Supervisor] = pcs[Supervisor]
    BY <1>1, <1>3, <1>4, <2>1, TeardownSpares
  <2>3. QED
    BY <1>2, <1>3, <2>2 DEF TeardownStages
<1>5. ASSUME NEW t \in Tasks, t # Supervisor, NEW j, NEW o, NEW d,
             NEW pcs \in {pc, TimerCancelled(pc)}, Stops(t, j, o, d, pcs)
      PROVE  pc'[Supervisor] # "out"
  BY <1>1, <1>2, <1>3, <1>5 DEF Stops, TeardownStages
<1>6. ASSUME NEW t \in Tasks \ {Supervisor}, NEW at, pc' = [pc EXCEPT ![t] = at]
      PROVE  pc'[Supervisor] # "out"
  BY <1>1, <1>2, <1>6
<1>7. Muted(rt) \in RuntimeStates
  BY <1>1, RuntimeTypes
<1>8. ASSUME NEW t \in Tasks, TeardownStep(t) PROVE pc'[Supervisor] # "out"
  <2>1. PICK stage \in TeardownStages \cup {"out"}, q \in RuntimeStates,
             d \in CallOrNone : TeardownStops(t, job[t], stage, q, ses, d, pc)
    <3>1. CASE HelpersGone(t)
      <4>1. TeardownStops(t, job[t], StageAfterHelpers(rt, t, HasPeer(dialog)),
                          AfterHelpers(rt, StageAfterHelpers(rt, t, HasPeer(dialog))),
                          ses, Kept(t, StageAfterHelpers(rt, t, HasPeer(dialog)), dialog),
                          pc)
        BY <3>1 DEF HelpersGone
      <4>2. QED
        BY <1>1, <4>1, StagesOfTeardown, TeardownTypes, KeptTypes
    <3>2. CASE ProcessGone(t)
      <4>1. TeardownStops(t, job[t], StageAfterProcess(t, HasPeer(dialog)),
                          AfterProcess(rt, StageAfterProcess(t, HasPeer(dialog))),
                          ses, Kept(t, StageAfterProcess(t, HasPeer(dialog)), dialog),
                          pc)
        BY <3>2 DEF ProcessGone
      <4>2. QED
        BY <1>1, <4>1, StagesOfTeardown, TeardownTypes, KeptTypes
    <3>3. CASE ByeReturns(t)
      BY <1>1, <3>3, RuntimeTypes DEF ByeReturns
    <3>4. QED
      BY <1>8, <3>1, <3>2, <3>3 DEF TeardownStep, ByeAnswered, ByeUnanswered
  <2>2. Tearing(t) /\ Fits(t, pc[t], job[t])
    BY <1>8 DEF KindInv, TeardownStep, HelpersGone, ProcessGone, ByeAnswered,
                ByeUnanswered, ByeReturns, Tearing, TeardownStages
  <2>3. JobFits(t, job[t]) /\ job[t] \in Jobs
    BY <2>2 DEF JobFits, Fits, Lockers, Tearing, TypeOK
  <2> DEFINE j == job[t]
  <2>4. j \in Jobs /\ JobFits(t, j) /\ TeardownStops(t, j, stage, q, ses, d, pc)
    BY <2>1, <2>3
  <2> HIDE DEF j
  <2>5. /\ IF stage = "out"
           THEN Left(t, j, q, Ended(ses), d)
           ELSE SuspendedAt(t, j, stage, q, ses, d)
        /\ \A x \in Tasks \ {t} :
             pc'[x] = pc[x] \/ (pc[x] = "waiting" /\ pc'[x] = "deaf")
    BY <1>1, <2>4, TeardownStopsExactly
  <2>6. CASE t = Supervisor
    <3>1. CASE stage = "out"
      <4>1. Returned(t, j, q, Ended(ses))
        BY <2>5, <3>1 DEF Left
      <4>2. QED
        BY <2>4, <2>6, <4>1, SupervisorReturns
    <3>2. CASE stage # "out"
      BY <2>5, <2>6, <3>2 DEF SuspendedAt, TeardownStages
    <3>3. QED
      BY <3>1, <3>2
  <2>7. CASE t # Supervisor
    BY <1>1, <1>2, <1>3, <2>5, <2>7 DEF TeardownStages
  <2>8. QED
    BY <2>6, <2>7
<1>9. ASSUME NEW t \in Tasks, t # Supervisor, EndLocked(t) PROVE pc'[Supervisor] # "out"
  BY <1>4, <1>5, <1>7, <1>9 DEF EndLocked
<1>10. ASSUME NEW c \in Commands, Queues(c) \/ UserStep(c) PROVE pc'[Supervisor] # "out"
  <2>1. c \in Tasks /\ c # Supervisor
    BY <1>1 DEF Tasks
  <2>2. ASSUME Queues(c) \/ \E d \in Devices : StartShared(c, d)
        PROVE  pc'[Supervisor] # "out"
    BY <1>6, <2>1, <2>2 DEF Queues, StartShared
  <2>3. ASSUME NEW d \in Devices, Start(c, d) PROVE pc'[Supervisor] # "out"
    BY <1>5, <2>1, <2>3 DEF Start
  <2>4. ASSUME NEW d \in Devices, SwitchDevice(c, d) PROVE pc'[Supervisor] # "out"
    BY <1>4, <1>7, <2>1, <2>4 DEF SwitchDevice
  <2>5. QED
    BY <1>9, <1>10, <2>1, <2>2, <2>3, <2>4 DEF UserStep, End
<1>11. ASSUME NEW c \in Commands, StartStep(c) PROVE pc'[Supervisor] # "out"
  <2>1. /\ c \in Tasks /\ c # Supervisor /\ leg[c] \in CallOrNone
        /\ AudioBound(rt) \in RuntimeStates /\ Negotiated(rt, leg[c]) \in RuntimeStates
    BY <1>1, RuntimeTypes DEF Tasks, TypeOK
  <2>2. CASE PrepareFails(c)
    BY <1>5, <2>1, <2>2 DEF PrepareFails
  <2>3. CASE Invite(c) \/ InviteAnswered(c) \/ InviteAccepted(c)
    BY <1>6, <2>1, <2>3 DEF Invite, InviteAnswered, InviteAccepted
  <2>4. ASSUME NEW w \in Watchdogs, Spawn(c, w) PROVE pc'[Supervisor] # "out"
    BY <1>1, <1>2, <2>1, <2>4 DEF Spawn, TeardownStages
  <2>5. CASE InviteRefused(c)
    BY <1>4, <2>1, <2>5 DEF InviteRefused
  <2>6. CASE AnswerUnusable(c)
    BY <1>1, <1>4, <2>1, <2>6 DEF AnswerUnusable
  <2>7. CASE InviteFails(c) \/ SpawnFails(c)
    BY <1>1, <1>4, <2>1, <2>7 DEF InviteFails, SpawnFails
  <2>8. CASE AckRefused(c)
    BY <1>1, <1>4, <2>1, <2>8 DEF AckRefused
  <2>9. QED
    BY <1>11, <2>2, <2>3, <2>4, <2>5, <2>6, <2>7, <2>8 DEF StartStep
<1>12. ASSUME ViewerStep \/ \E t \in Timers : TimerStep(t) PROVE pc'[Supervisor] # "out"
  <2>1. CASE ViewerJoins \/ ViewerGivesUp
    BY <1>2, <1>3, <2>1 DEF ViewerJoins, ViewerGivesUp, TeardownStages
  <2>2. ASSUME NEW t \in Timers, ViewerLeaves(t) \/ TimerStep(t)
        PROVE  pc'[Supervisor] # "out"
    <3>1. t \in Tasks \ {Supervisor}
      BY <1>1 DEF Tasks
    <3>2. CASE ViewerLeaves(t)
      <4>1. pc' = pc \/ pc' = [pc EXCEPT ![t] = "armed"]
        BY <3>2 DEF ViewerLeaves
      <4>2. QED
        BY <1>2, <1>6, <3>1, <4>1 DEF TeardownStages
    <3>3. CASE TimerFires(t)
      BY <1>6, <3>1, <3>3 DEF TimerFires
    <3>4. CASE TimerEnds(t)
      BY <1>9, <3>1, <3>4 DEF TimerEnds
    <3>5. QED
      BY <2>2, <3>2, <3>3, <3>4 DEF TimerStep
  <2>3. QED
    BY <1>12, <2>1, <2>2 DEF ViewerStep
<1>13. ASSUME NEW w \in Watchdogs, WatchdogStep(w) PROVE pc'[Supervisor] # "out"
  <2>1. w \in Tasks \ {Supervisor}
    BY <1>1 DEF Tasks
  <2>2. CASE FirstVideo(w)
    BY <1>6, <2>1, <2>2 DEF FirstVideo
  <2>3. CASE WatchdogFails(w)
    BY <1>1, <1>4, <2>1, <2>3 DEF WatchdogFails
  <2>4. QED
    BY <1>13, <2>2, <2>3 DEF WatchdogStep
<1>14. ASSUME NEW n \in Calls, ReaderStep(n) \/ GatewayStep(n)
       PROVE  pc'[Supervisor] # "out"
  <2>1. Reader \in Tasks
    BY DEF Tasks
  <2>2. CASE RemoteEnded(n)
    BY <1>1, <1>4, <2>1, <2>2 DEF RemoteEnded
  <2>3. QED
    BY <1>2, <1>14, <2>2
       DEF ReaderStep, ReadAnswer, ByeIgnored, GatewayStep, GatewayPicksUp,
           GatewayHangsUp, TeardownStages
<1>15. ASSUME SupervisorStep PROVE pc'[Supervisor] # "out"
  BY <1>1, <1>2, <1>15
     DEF SupervisorStep, SupervisorCloses, SupervisorByeReturns, SipCloses
<1>16. ASSUME \/ \E on \in BOOLEAN : SetMicrophone(on)
              \/ FFmpegExits \/ LinkLost \/ UNCHANGED vars
       PROVE  pc'[Supervisor] # "out"
  BY <1>2, <1>16 DEF SetMicrophone, FFmpegExits, LinkLost, vars, TeardownStages
<1>17. QED
  BY <1>8, <1>10, <1>11, <1>12, <1>13, <1>14, <1>15, <1>16 DEF Next

\* It begins to close with a teardown of its own.
LEMMA SupervisorLeaves ==
  ASSUME TypeOK, KindInv, pc[Supervisor] = "out", SupervisorStep
  PROVE  pc'[Supervisor] # "out"
<1>1. /\ Supervisor \in Tasks /\ "none" \in Jobs /\ JobFits(Supervisor, "none")
      /\ rt \in RuntimeStates /\ ses \in SessionStates /\ dialog \in CallOrNone
  BY TasksAssumption DEF TypeOK, Tasks, Jobs, JobFits, Lockers
<1>2. Teardown(Supervisor, "none", rt, ses, dialog, pc)
  BY DEF SupervisorStep, SupervisorCloses, SupervisorByeReturns, SipCloses
<1> DEFINE stage == StageOfTeardown(rt, Supervisor, HasPeer(dialog))
           q == TornDown(rt, stage)
           k == Kept(Supervisor, stage, dialog)
<1>3. /\ rt.ending => Left(Supervisor, "none", rt, ses, dialog)
      /\ ~rt.ending => IF stage = "out"
                       THEN Left(Supervisor, "none", q, Ended(ses), k)
                       ELSE SuspendedAt(Supervisor, "none", stage, q, ses, dialog)
  BY <1>1, <1>2, TeardownExactly
<1> HIDE DEF stage, q, k
<1>4. ASSUME NEW p, NEW s, NEW d, Left(Supervisor, "none", p, s, d)
      PROVE  pc'[Supervisor] # "out"
  BY <1>1, <1>4, SupervisorReturns DEF Left
<1>5. QED
  BY <1>3, <1>4 DEF SuspendedAt, TeardownStages

-----------------------------------------------------------------------------

LEMMA KindInit == Init => KindInv
BY DEF Init, KindInv, Fits, TeardownStages

LEMMA KeptInit == Init => KeptInv
<1> SUFFICES ASSUME Init PROVE InPlace /\ CaredFor
  BY DEF KeptInv
<1>1. /\ \A t \in Tasks : pc[t] = "out"
      /\ ~rt.ending /\ ~rt.audio /\ rt.negotiated = NoCall
      /\ dialog = NoCall /\ link = "up" /\ answered = {}
  BY DEF Init, NewRuntime
<1>2. /\ \A t \in Tasks : ~Tearing(t)
      /\ \A c \in Commands : ~Starting(c) /\ pc[c] \notin {"preparing", "inviting", "acknowledging", "spawning"}
      /\ Watchdogs \subseteq Tasks /\ Reader \in Tasks
  BY <1>1 DEF Tearing, TeardownStages, Starting, Tasks
<1>3. InPlace
  BY <1>1, <1>2
     DEF InPlace, PlacedFirst, ReaderHasNoDialog, InvitesAlone, StartsAlone, MonitorIsIdle
<1>4. CaredFor
  BY <1>1, <1>2 DEF CaredFor, EndingIsOwned, LeftDialogIsTaken, TwoLetGo, CallIsKept
<1>5. QED
  BY <1>3, <1>4

LEMMA KeptStep == IInv /\ KindInv /\ KeptInv /\ [Next]_vars => KeptInv'
<1> SUFFICES ASSUME IInv, KindInv, KeptInv, [Next]_vars, pc'[Supervisor] = "out"
             PROVE  InPlace' /\ CaredFor'
  BY DEF KeptInv
<1>1. TypeOK
  BY DEF IInv
<1>2. pc[Supervisor] = "out"
  BY <1>1, SupervisorStays
<1>3. Attended
  BY <1>2 DEF Attended, IInv, KeptInv
<1>4. ~SupervisorStep
  BY <1>1, <1>2, SupervisorLeaves
<1>5. ASSUME NEW t \in Tasks, TeardownStep(t) PROVE InPlace' /\ CaredFor'
  BY <1>2, <1>3, <1>5, TeardownStepAttends
<1>6. ASSUME NEW c \in Commands, Queues(c) \/ UserStep(c) \/ StartStep(c)
      PROVE  InPlace' /\ CaredFor'
  BY <1>2, <1>3, <1>6, UserStepAttends, StartStepAttends
<1>7. QED
  BY <1>2, <1>3, <1>4, <1>5, <1>6, OtherStepsAttend DEF Next

LEMMA KeptAlways == Spec => [](IInv /\ KindInv /\ KeptInv)
<1>1. IInv /\ KindInv /\ [Next]_vars => KindInv'
  BY KindStep DEF IInv
<1>2. QED
  BY <1>1, InvInit, InvStep, KindInit, KeptInit, KeptStep, PTL DEF Spec

\* Whichever step of a start or an end failed, and whoever overtook whom: when
\* no task is in start, end, a watchdog or the close of the connection, there is
\* no dialog, no negotiated answer and no audio leg.  What a task leaves has
\* somebody to release it.
THEOREM NothingIsLeft == Spec => []NothingLeftWhenQuiet
<1>1. ASSUME IInv, KindInv, KeptInv PROVE NothingLeftWhenQuiet
  <2> SUFFICES ASSUME \A t \in Tasks : pc[t] \in Unlocked
               PROVE  dialog = NoCall /\ rt.negotiated = NoCall /\ ~rt.audio
    BY DEF NothingLeftWhenQuiet
  <2>1. /\ Supervisor \in Tasks /\ Commands \subseteq Tasks /\ Watchdogs \subseteq Tasks
        /\ Supervisor \notin Commands /\ Supervisor \notin Timers
    BY TasksAssumption DEF Tasks
  <2>2. pc[Supervisor] = "out"
    BY <1>1, <2>1 DEF KindInv, Fits, Unlocked
  <2>3. CallIsKept
    BY <1>1, <2>2 DEF KeptInv, CaredFor
  <2>4. ~SomebodyLetsGo /\ ~SomebodyTears /\ ~SomebodyWatches /\ ~SomebodySpawns
    BY <2>1 DEF SomebodyLetsGo, SomebodyTears, SomebodyWatches, SomebodySpawns,
                LettingGo, Tearing, TeardownStages, Supervising, Unlocked
  <2>5. \A c \in Commands : pc[c] # "inviting"
    BY <2>1 DEF Unlocked
  <2>6. QED
    BY <1>1, <2>3, <2>4, <2>5 DEF CallIsKept, IInv, TypeOK, RuntimeStates
<1>2. QED
  BY <1>1, KeptAlways, PTL

-----------------------------------------------------------------------------
(* The session as the uplink sees it: MonitoringCall implements             *)
(* UplinkSession, in any environment.                                       *)

(* The panel shows no microphone while start or end holds the lock.         *)
PanelOff == ~LockFree => ~ses.microphone

(* Nothing but set_microphone turns the microphone of the session on, and   *)
(* whoever takes the lock for start or end turns it off.                    *)
MicKeeps ==
  /\ ses'.microphone => ses.microphone
  /\ LockFree => LockFree' \/ ~ses'.microphone

-----------------------------------------------------------------------------
(* Tasks that tear down *)

LEMMA RestKeepsMic ==
  ASSUME NEW t, NEW j, NEW q, NEW s \in SessionStates, Rested(t, j, q, s), ses'.microphone
  PROVE  s.microphone
<1>1. ASSUME NEW u \in SessionStates, ses' = u, u \in {s, CallEnded(s)} PROVE s.microphone
  BY <1>1 DEF CallEnded, EndFinished, SessionStates
<1>2. ASSUME NEW u \in SessionStates, Returned(t, j, q, u) PROVE ses' = u
  <2>1. /\ ~StartFailed(u).microphone /\ ~EndFinished(u).microphone
        /\ EndFinished(u) \in SessionStates
    BY SessionTypes DEF StartFailed, EndFinished, SessionStates
  <2>2. ASSUME NEW v \in SessionStates, NEW d \in Devices
        PROVE  ~Connecting(v, d).microphone /\ ~StartFailed(Connecting(v, d)).microphone
    BY DEF Connecting, StartFailed, SessionStates
  <2>3. ~(j \in Devices /\ BeganStart(t, q, EndFinished(u), j))
    BY <2>1, <2>2 DEF BeganStart
  <2>4. QED
    BY <1>2, <2>1, <2>3 DEF Returned, ReturnedFromStart, ReturnedFromEnd, ReturnedToCaller
<1>3. CallEnded(s) \in SessionStates
  BY SessionTypes
<1>4. QED
  BY <1>1, <1>2, <1>3 DEF Rested, Suspended

LEMMA OutsiderKeepsLock ==
  ASSUME NEW t \in Tasks, t \notin Lockers, OthersFrom(t, pc), LockFree
  PROVE  LockFree'
<1>1. ASSUME NEW u \in Lockers PROVE pc'[u] \in Unlocked
  <2>1. u \in Tasks \ {t} /\ u \notin Watchdogs
    BY TasksAssumption DEF Tasks, Lockers
  <2>2. Shed(u, pc[u], pc'[u]) /\ pc[u] \in Unlocked
    BY <2>1 DEF OthersFrom, LockFree, Lockers
  <2>3. QED
    BY <2>1, <2>2 DEF Shed, Unlocked
<1>2. QED
  BY <1>1 DEF LockFree, Lockers, Unlocked

LEMMA TeardownKeepsMic ==
  ASSUME IInv,
         NEW t \in Tasks, NEW j \in Jobs, NEW r \in RuntimeStates,
         NEW s \in SessionStates, NEW d \in CallOrNone,
         NEW pcs \in {pc, TimerCancelled(pc)},
         Teardown(t, j, r, s, d, pcs),
         s.microphone => ses.microphone /\ (LockFree => t \notin Lockers)
  PROVE  MicKeeps
<1> DEFINE q == TornDown(r, StageOfTeardown(r, t, HasPeer(d)))
<1>1. TypeOK /\ pcs \in [Tasks -> Stages]
  BY TimersShed DEF IInv, TypeOK
<1>2. OthersFrom(t, pcs) /\ Rested(t, j, q, s)
  BY <1>1, TeardownRests
<1>3. OthersFrom(t, pc)
  BY <1>1, <1>2, TimersShed
<1> HIDE DEF q
<1>4. ses'.microphone => s.microphone
  BY <1>2, RestKeepsMic
<1>5. LockFree /\ s.microphone => LockFree'
  BY <1>3, OutsiderKeepsLock
<1>6. QED
  BY <1>4, <1>5 DEF MicKeeps

LEMMA ResumeKeepsMic ==
  ASSUME IInv,
         NEW t \in Tasks, pc[t] \in TeardownStages,
         NEW stage \in TeardownStages \cup {"out"},
         NEW q \in RuntimeStates, NEW d \in CallOrNone,
         TeardownStops(t, job[t], stage, q, ses, d, pc)
  PROVE  MicKeeps
<1>1. /\ job[t] \in Jobs /\ ses \in SessionStates
      /\ pc \in [Tasks -> Stages] /\ TypeOK
  BY DEF IInv, TypeOK
<1>2. OthersFrom(t, pc) /\ Rested(t, job[t], q, ses)
  BY <1>1, TeardownStopsRests
<1>3. ses'.microphone => ses.microphone
  BY <1>1, <1>2, RestKeepsMic
<1>4. t \in Lockers => ~LockFree
  BY DEF LockFree, TeardownStages, Lockers, Unlocked
<1>5. LockFree => LockFree'
  BY <1>2, <1>4, OutsiderKeepsLock
<1>6. QED
  BY <1>3, <1>5 DEF MicKeeps

LEMMA TeardownStepKeepsMic ==
  ASSUME IInv, NEW t \in Tasks, TeardownStep(t) PROVE MicKeeps
<1>1. rt \in RuntimeStates /\ dialog \in CallOrNone
  BY DEF IInv, TypeOK
<1>2. CASE HelpersGone(t)
  <2> DEFINE stage == StageAfterHelpers(rt, t, HasPeer(dialog))
  <2>1. /\ pc[t] \in TeardownStages /\ stage \in TeardownStages \cup {"out"}
        /\ AfterHelpers(rt, stage) \in RuntimeStates /\ Kept(t, stage, dialog) \in CallOrNone
        /\ TeardownStops(t, job[t], stage, AfterHelpers(rt, stage), ses,
                         Kept(t, stage, dialog), pc)
    BY <1>1, <1>2, KeptTypes, TeardownTypes, StagesOfTeardown DEF HelpersGone, TeardownStages
  <2>2. QED
    BY <2>1, ResumeKeepsMic
<1>3. CASE ProcessGone(t)
  <2> DEFINE stage == StageAfterProcess(t, HasPeer(dialog))
  <2>1. /\ pc[t] \in TeardownStages /\ stage \in TeardownStages \cup {"out"}
        /\ AfterProcess(rt, stage) \in RuntimeStates /\ Kept(t, stage, dialog) \in CallOrNone
        /\ TeardownStops(t, job[t], stage, AfterProcess(rt, stage), ses,
                         Kept(t, stage, dialog), pc)
    BY <1>1, <1>3, KeptTypes, TeardownTypes, StagesOfTeardown DEF ProcessGone, TeardownStages
  <2>2. QED
    BY <2>1, ResumeKeepsMic
<1>4. CASE ByeAnswered(t) \/ ByeUnanswered(t)
  <2>1. /\ pc[t] \in TeardownStages /\ Forgotten(rt) \in RuntimeStates
        /\ TeardownStops(t, job[t], "out", Forgotten(rt), ses, dialog, pc)
    BY <1>1, <1>4, RuntimeTypes DEF ByeAnswered, ByeUnanswered, ByeReturns, TeardownStages
  <2>2. QED
    BY <1>1, <2>1, ResumeKeepsMic
<1>5. QED
  BY <1>2, <1>3, <1>4 DEF TeardownStep

-----------------------------------------------------------------------------
(* The commands *)

LEMMA StartKeepsMic ==
  ASSUME IInv, NEW c \in Commands, NEW d \in Devices, Start(c, d) PROVE MicKeeps
<1>1. ses' = Started(rt, ses, d).ses
  BY DEF Start, Stops
<1>2. ses \in SessionStates
  BY DEF IInv, TypeOK
<1>3. Started(rt, ses, d).ses \in {StartFailed(Connecting(ses, d)), Connecting(ses, d)}
  BY DEF Started
<1>4. ~ses'.microphone
  BY <1>1, <1>2, <1>3 DEF StartFailed, Connecting, SessionStates
<1>5. QED
  BY <1>4 DEF MicKeeps

LEMMA EndKeepsMic ==
  ASSUME IInv, NEW t \in Lockers, EndLocked(t) PROVE MicKeeps
<1>1. /\ rt \in RuntimeStates /\ ses \in SessionStates /\ t \in Tasks
      /\ dialog \in CallOrNone /\ "end" \in Jobs
  BY DEF IInv, TypeOK, Jobs, Tasks, Lockers
<1>2. CASE ses.state = "idle"
  <2>1. ses' = NothingToEnd(ses)
    BY <1>2 DEF EndLocked, Stops
  <2>2. ~ses'.microphone
    BY <1>1, <2>1 DEF NothingToEnd, CleanupCancelled, SessionStates
  <2>3. QED
    BY <2>2 DEF MicKeeps
<1>3. CASE ses.state # "idle"
  <2>1. Teardown(t, "end", Muted(rt), EndBegun(ses), dialog, TimerCancelled(pc))
    BY <1>3 DEF EndLocked
  <2>2. Muted(rt) \in RuntimeStates /\ EndBegun(ses) \in SessionStates /\ ~EndBegun(ses).microphone
    BY <1>1, RuntimeTypes, EndBegunIsMuted
  <2>3. QED
    BY <1>1, <2>1, <2>2, TeardownKeepsMic
<1>4. QED
  BY <1>2, <1>3

LEMMA SwitchKeepsMic ==
  ASSUME IInv, NEW c \in Commands, NEW d \in Devices, SwitchDevice(c, d) PROVE MicKeeps
<1>1. Teardown(c, d, Muted(rt), EndBegun(ses), dialog, TimerCancelled(pc))
  BY DEF SwitchDevice
<1>2. /\ rt \in RuntimeStates /\ ses \in SessionStates /\ c \in Tasks
      /\ dialog \in CallOrNone /\ d \in Jobs
  BY DEF IInv, TypeOK, Jobs, Tasks
<1>3. Muted(rt) \in RuntimeStates /\ EndBegun(ses) \in SessionStates /\ ~EndBegun(ses).microphone
  BY <1>2, RuntimeTypes, EndBegunIsMuted
<1>4. QED
  BY <1>1, <1>2, <1>3, TeardownKeepsMic

LEMMA StartStepKeepsMic ==
  ASSUME IInv, NEW c \in Commands, StartStep(c) PROVE MicKeeps
<1>1. /\ rt \in RuntimeStates /\ ses \in SessionStates /\ c \in Tasks
      /\ dialog \in CallOrNone /\ leg[c] \in CallOrNone /\ "start" \in Jobs
  BY DEF IInv, TypeOK, Jobs, Tasks
<1>2. ~LockFree
  <2>1. pc[c] \in {"preparing", "inviting", "acknowledging", "spawning"}
    BY DEF StartStep, PrepareFails, InviteRefused, Invite, InviteAnswered, AckRefused,
           InviteAccepted, AnswerUnusable, InviteFails, Spawn, SpawnFails
  <2>2. QED
    BY <2>1 DEF LockFree, Unlocked
<1>3. CASE PrepareFails(c)
  <2>1. ses' = StartFailed(ses)
    BY <1>3 DEF PrepareFails, Stops
  <2>2. QED
    BY <1>1, <1>2, <2>1 DEF StartFailed, SessionStates, MicKeeps
<1>4. CASE \/ Invite(c) \/ InviteAnswered(c) \/ InviteAccepted(c)
         \/ \E w \in Watchdogs : Spawn(c, w)
  <2>1. ses' = ses
    BY <1>4 DEF Invite, InviteAnswered, InviteAccepted, Spawn
  <2>2. QED
    BY <1>2, <2>1 DEF MicKeeps
<1>5. CASE \/ InviteRefused(c) \/ AckRefused(c) \/ AnswerUnusable(c)
         \/ InviteFails(c) \/ SpawnFails(c)
  <2>1. PICK r \in RuntimeStates, d \in CallOrNone : Teardown(c, "start", r, ses, d, pc)
    BY <1>1, <1>5, RuntimeTypes DEF InviteRefused, AckRefused, AnswerUnusable,
       InviteFails, SpawnFails
  <2>2. QED
    BY <1>1, <1>2, <2>1, TeardownKeepsMic
<1>6. QED
  BY <1>3, <1>4, <1>5 DEF StartStep

-----------------------------------------------------------------------------
(* The steps that hold no lock *)

\* A task that moves between places where it does not hold the lock.
LEMMA WaitingKeepsMic ==
  ASSUME TypeOK, NEW t \in Tasks, NEW at, t \in Lockers => at \in Unlocked,
         pc' = [pc EXCEPT ![t] = at], ses'.microphone => ses.microphone
  PROVE  MicKeeps
<1>1. LockFree => LockFree'
  BY DEF LockFree, Lockers, TypeOK
<1>2. QED
  BY <1>1 DEF MicKeeps

LEMMA ViewerStepKeepsMic ==
  ASSUME IInv, ViewerStep PROVE MicKeeps
<1>1. ses \in SessionStates /\ TypeOK /\ Timers \subseteq Tasks
  BY DEF IInv, TypeOK, Tasks
<1>2. CASE ViewerJoins
  <2>1. ses'.microphone = ses.microphone /\ pc' = TimerCancelled(pc)
    BY <1>1, <1>2 DEF ViewerJoins, ViewerAdded, CleanupCancelled, SessionStates
  <2>2. LockFree => LockFree'
    <3>1. \A x \in Tasks : pc'[x] = pc[x] \/ pc'[x] = "out"
      BY <2>1 DEF TimerCancelled
    <3>2. QED
      BY <3>1 DEF LockFree, Tasks, Unlocked
  <2>3. QED
    BY <2>1, <2>2 DEF MicKeeps
<1>3. CASE ViewerGivesUp
  BY <1>3 DEF ViewerGivesUp, MicKeeps, LockFree, Unlocked
<1>4. ASSUME NEW t \in Timers, ViewerLeaves(t) PROVE MicKeeps
  <2>1. ses'.microphone = ses.microphone
    BY <1>1, <1>4 DEF ViewerLeaves, ViewerRemoved, SessionStates
  <2>2. pc' = pc \/ pc' = [pc EXCEPT ![t] = "armed"]
    BY <1>4 DEF ViewerLeaves
  <2>3. CASE pc' = pc
    BY <2>1, <2>3 DEF MicKeeps, LockFree, Unlocked
  <2>4. QED
    BY <1>1, <2>1, <2>2, <2>3, WaitingKeepsMic DEF Unlocked
<1>5. QED
  BY <1>2, <1>3, <1>4 DEF ViewerStep

LEMMA FirstVideoKeepsMic ==
  ASSUME IInv, NEW w \in Watchdogs, FirstVideo(w) PROVE MicKeeps
<1>1. /\ ses \in SessionStates /\ TypeOK /\ w \in Tasks /\ w \notin Lockers
  BY TasksAssumption DEF IInv, TypeOK, Tasks, Lockers
<1>2. ses'.microphone = ses.microphone /\ pc' = [pc EXCEPT ![w] = "watching"]
  BY <1>1 DEF FirstVideo, Delivered, StreamsRunning, SessionStates
<1>3. QED
  BY <1>1, <1>2, WaitingKeepsMic

\* A task that never holds the lock tears down.
LEMMA OutsiderKeepsMic ==
  ASSUME IInv, NEW t \in Watchdogs \cup {Reader, Supervisor},
         NEW s \in {ses, RuntimeError(ses)}, NEW d \in CallOrNone,
         Teardown(t, "none", rt, s, d, pc)
  PROVE  MicKeeps
<1>1. /\ t \in Tasks /\ t \notin Lockers /\ "none" \in Jobs
      /\ rt \in RuntimeStates /\ ses \in SessionStates
  BY TasksAssumption DEF Tasks, Lockers, Jobs, IInv, TypeOK
<1>2. s \in SessionStates /\ (s.microphone => ses.microphone)
  BY <1>1, SessionTypes DEF RuntimeError, SessionStates
<1>3. QED
  BY <1>1, <1>2, TeardownKeepsMic

LEMMA OutsideKeepsMic ==
  ASSUME IInv,
         \/ \E w \in Watchdogs : WatchdogFails(w)
         \/ \E n \in Calls : RemoteEnded(n)
         \/ SupervisorCloses
  PROVE  MicKeeps
<1>1. dialog \in CallOrNone /\ NoCall \in CallOrNone
  BY NoCallTypes DEF IInv, TypeOK
<1>2. CASE \E w \in Watchdogs : WatchdogFails(w)
  <2>1. PICK w \in Watchdogs, s \in {ses, RuntimeError(ses)} :
          Teardown(w, "none", rt, s, dialog, pc)
    BY <1>2 DEF WatchdogFails, Delivered
  <2>2. QED
    BY <1>1, <2>1, OutsiderKeepsMic
<1>3. CASE \E n \in Calls : RemoteEnded(n)
  BY <1>1, <1>3, OutsiderKeepsMic DEF RemoteEnded
<1>4. CASE SupervisorCloses
  BY <1>1, <1>4, OutsiderKeepsMic DEF SupervisorCloses
<1>5. QED
  BY <1>2, <1>3, <1>4

LEMMA SupervisorKeepsMic ==
  ASSUME IInv, SupervisorByeReturns \/ SipCloses PROVE MicKeeps
<1>1. ses' = ses
  BY DEF SupervisorByeReturns, SipCloses
<1>2. \A u \in Lockers : pc'[u] = pc[u]
  BY TasksAssumption DEF SupervisorByeReturns, SipCloses, IInv, TypeOK, Lockers, Tasks
<1>3. QED
  BY <1>1, <1>2 DEF MicKeeps, LockFree, Lockers, Unlocked

LEMMA StillKeepsMic ==
  ASSUME UNCHANGED <<ses, pc>> PROVE MicKeeps
BY DEF MicKeeps, LockFree, Unlocked

-----------------------------------------------------------------------------
(* The refinement *)

LEMMA StepKeepsMic ==
  ASSUME IInv, [Next]_vars
  PROVE  MicKeeps \/ \E on \in BOOLEAN : SetMicrophone(on)
<1>1. TypeOK /\ Commands \subseteq Tasks /\ Timers \subseteq Tasks
  BY DEF IInv, Tasks
<1>2. ASSUME NEW c \in Commands, UserStep(c) PROVE MicKeeps
  <2>1. ASSUME NEW d \in Devices, StartShared(c, d) PROVE MicKeeps
    BY <1>1, <2>1, WaitingKeepsMic DEF StartShared, Unlocked
  <2>2. End(c) => MicKeeps
    BY EndKeepsMic DEF End, Lockers
  <2>3. QED
    BY <1>2, <2>1, <2>2, StartKeepsMic, SwitchKeepsMic DEF UserStep
<1>3. ASSUME NEW c \in Commands, Queues(c) PROVE MicKeeps
  BY <1>1, <1>3, WaitingKeepsMic DEF Queues, Unlocked
<1>4. ASSUME NEW t \in Timers, TimerStep(t) PROVE MicKeeps
  <2>1. CASE TimerFires(t)
    BY <1>1, <2>1, WaitingKeepsMic DEF TimerFires, Unlocked
  <2>2. CASE TimerEnds(t)
    BY <2>2, EndKeepsMic DEF TimerEnds, Lockers
  <2>3. QED
    BY <1>4, <2>1, <2>2 DEF TimerStep
<1>5. ASSUME NEW n \in Calls, ReadAnswer(n) \/ ByeIgnored(n) \/ GatewayStep(n) PROVE MicKeeps
  BY <1>5, StillKeepsMic
  DEF ReadAnswer, ByeIgnored, GatewayStep, GatewayPicksUp, GatewayHangsUp
<1>6. CASE FFmpegExits \/ LinkLost \/ UNCHANGED vars
  BY <1>6, StillKeepsMic DEF FFmpegExits, LinkLost, vars
<1>7. QED
  BY <1>2, <1>3, <1>4, <1>5, <1>6, TeardownStepKeepsMic, StartStepKeepsMic, ViewerStepKeepsMic,
     FirstVideoKeepsMic, OutsideKeepsMic, SupervisorKeepsMic
  DEF Next, WatchdogStep, ReaderStep, SupervisorStep

LEMMA PanelStep ==
  ASSUME IInv, PanelOff, [Next]_vars PROVE PanelOff'
<1>1. CASE MicKeeps
  BY <1>1 DEF MicKeeps, PanelOff
<1>2. ASSUME NEW on \in BOOLEAN, SetMicrophone(on) PROVE PanelOff'
  BY <1>2 DEF SetMicrophone, PanelOff, LockFree, Unlocked
<1>3. QED
  BY <1>1, <1>2, StepKeepsMic

\* Each step of the call is a step of the uplink's session, or none of it.
LEMMA StepImplements ==
  ASSUME IInv, PanelOff, IInv', PanelOff', [Next]_vars
  PROVE  [\/ Uplink!SessionMoves
          \/ \E on \in BOOLEAN : Uplink!MicrophoneSet(on)]_(Uplink!sessionVars)
<1> USE DEF Uplink!SessionMoves, Uplink!MicrophoneSet, Uplink!sessionVars
<1> DEFINE S == ses.state = "streaming" /\ LockFree
<1>1. ses.microphone \in BOOLEAN /\ ses'.microphone \in BOOLEAN
  BY DEF IInv, TypeOK, SessionStates
<1>2. (ses.microphone => S) /\ (ses'.microphone => S')
  BY DEF IInv, LockInv, MicrophoneOnlyWhileStreaming, PanelOff
<1>3. ASSUME NEW on \in BOOLEAN, SetMicrophone(on) PROVE Uplink!MicrophoneSet(on)
  <2>1. ses \in SessionStates
    BY DEF IInv, TypeOK
  <2>2. /\ ses'.microphone = on /\ ses'.state = ses.state /\ pc' = pc
        /\ on => S
    BY <1>3, <2>1 DEF SetMicrophone, SessionStates
  <2>3. LockFree' = LockFree
    BY <2>2 DEF LockFree, Unlocked
  <2>4. QED
    BY <2>2, <2>3
<1>4. CASE MicKeeps
  <2>1. ses'.microphone => ses.microphone
    BY <1>4 DEF MicKeeps
  <2>2. CASE S' = S /\ ses'.microphone = ses.microphone
    BY <2>2
  <2>3. CASE S' = S /\ ses'.microphone # ses.microphone
    <3>1. ses'.microphone = FALSE
      BY <1>1, <2>1, <2>3
    <3>2. Uplink!MicrophoneSet(FALSE)
      BY <2>3, <3>1
    <3>3. QED
      BY <3>2
  <2>4. CASE S' # S
    <3>1. ses'.microphone = FALSE /\ S' = ~S
      BY <1>1, <1>2, <2>1, <2>4
    <3>2. QED
      BY <3>1
  <2>5. QED
    BY <2>2, <2>3, <2>4
<1>5. QED
  BY <1>3, <1>4, StepKeepsMic

\* The session that the microphone uplink is modelled upon (UplinkSession) is
\* the one of media_session.py: the microphone goes on only by set_microphone,
\* in a session that streams and whose lock is free, and every start, end,
\* event or error that takes it out of that turns it off in the same step.
THEOREM SessionIsUplinkSession == Spec => SessionForUplink
<1>1. Init => Uplink!SessionInit /\ PanelOff
  BY DEF Init, NewSession, Uplink!SessionInit, PanelOff
<1>2. IInv /\ PanelOff /\ [Next]_vars => PanelOff'
  BY PanelStep
<1>3. IInv /\ PanelOff /\ IInv' /\ PanelOff' /\ [Next]_vars
        => [\/ Uplink!SessionMoves
            \/ \E on \in BOOLEAN : Uplink!MicrophoneSet(on)]_(Uplink!sessionVars)
  BY StepImplements
<1>4. Spec => []IInv
  BY InvAlways
<1>5. QED
  BY <1>1, <1>2, <1>3, <1>4, PTL DEF Spec, SessionForUplink, Uplink!SessionSpec

=============================================================================
