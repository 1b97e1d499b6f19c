------------------------ MODULE SipTransactions_proofs ------------------------
(***************************************************************************)
(* Theorems about SipTransactions, for any number of registrations, door    *)
(* releases and monitoring calls on one connection.                         *)
(***************************************************************************)
EXTENDS SipTransactions, FiniteSetTheorems, TLAPS

(* What is true of the task of each request: where it may be, that a waiter is *)
(* listed under the attempt it waits for, what has been acknowledged.       *)
TaskInv(t) ==
  /\ pc[t] \in {"new", "queued"} => attempt[t] = 1
  /\ pc[t] = "waiting" /\ got[t] = None => <<t, attempt[t]>> \in pending
  /\ \A k \in {1, 2} : <<t, k>> \in pending => k = attempt[t]
  /\ pc[t] = "acking" => t \in Invites /\ got[t] \in Failures /\ <<t, attempt[t]>> \in acked
  /\ pc[t] = "confirming" => t \in Invites
  /\ client = "closed" /\ pc[t] = "waiting" => got[t] # None

InviteInv(t) ==
  t \in Invites =>
    /\ attempt[t] = 2 => <<t, 1>> \in acked
    /\ pc[t] = "refused" => <<t, attempt[t]>> \in acked

(* What the gateway made of the attempts at a door, and what is known of it. *)
DoorInv(t) ==
  t \in Doors =>
    /\ pc[t] \in {"new", "queued"} => verdict[<<t, 1>>] = "unsent"
    /\ attempt[t] = 1 => verdict[<<t, 2>>] = "unsent"
    /\ attempt[t] = 2 => verdict[<<t, 1>>] = "challenge"
    /\ got[t] \in {None, "closed"} \/ got[t] = verdict[<<t, attempt[t]>>]
    /\ pc[t] = "done" => verdict[<<t, attempt[t]>>] = "ok"
    /\ pc[t] = "refused" => verdict[<<t, attempt[t]>>] \in Failures

RequestInv(t) == TaskInv(t) /\ InviteInv(t) /\ DoorInv(t)

IInv ==
  /\ TypeOK
  /\ \A t \in Requests : RequestInv(t)
  /\ client = "closed" => bye # "waiting"

(* Nothing of request u changes in a step. *)
Untouched(u) ==
  /\ pc'[u] = pc[u] /\ attempt'[u] = attempt[u] /\ got'[u] = got[u]
  /\ \A k \in {1, 2} : <<u, k>> \in pending' <=> <<u, k>> \in pending
  /\ u \in Doors => \A k \in {1, 2} : verdict'[<<u, k>>] = verdict[<<u, k>>]
  /\ \A k \in {1, 2} : <<u, k>> \in acked => <<u, k>> \in acked'
  /\ client' = "closed" => client = "closed"

-----------------------------------------------------------------------------
(* What the operators do *)

LEMMA UntouchedKeeps ==
  ASSUME TypeOK, NEW u \in Requests, RequestInv(u), Untouched(u)
  PROVE  RequestInv(u)'
<1>1. attempt[u] \in {1, 2}
  BY DEF TypeOK
<1>2. TaskInv(u)'
  BY <1>1 DEF RequestInv, TaskInv, Untouched
<1>3. InviteInv(u)'
  BY <1>1 DEF RequestInv, InviteInv, Untouched
<1>4. DoorInv(u)'
  BY <1>1 DEF RequestInv, DoorInv, Untouched
<1>5. QED
  BY <1>2, <1>3, <1>4 DEF RequestInv

LEMMA SendsDoes ==
  ASSUME TypeOK, NEW t \in Requests, NEW k \in {1, 2}, Sends(t, k)
  PROVE  /\ pending' = (pending \ {<<t, attempt[t]>>}) \cup {<<t, k>>}
         /\ attempt' = [attempt EXCEPT ![t] = k]
         /\ got' = [got EXCEPT ![t] = None]
         /\ pc' = [pc EXCEPT ![t] = IF HasWriter THEN "waiting" ELSE "failed"]
         /\ \A u \in Doors, j \in {1, 2} :
              verdict'[<<u, j>>] = IF HasWriter /\ u = t /\ j = k THEN "sent" ELSE verdict[<<u, j>>]
         /\ verdict' \in [Doors \X {1, 2} -> {"unsent", "sent"} \cup Verdicts]
<1>1. /\ pending' = (pending \ {<<t, attempt[t]>>}) \cup {<<t, k>>}
      /\ attempt' = [attempt EXCEPT ![t] = k]
      /\ got' = [got EXCEPT ![t] = None]
      /\ pc' = [pc EXCEPT ![t] = IF HasWriter THEN "waiting" ELSE "failed"]
  BY DEF Sends, Unlisted, Key, At
<1>2. verdict \in [Doors \X {1, 2} -> {"unsent", "sent"} \cup Verdicts]
  BY DEF TypeOK
<1>3. CASE HasWriter
  <2>1. verdict' = [a \in Doors \X {1, 2} |-> IF a = <<t, k>> THEN "sent" ELSE verdict[a]]
    BY <1>3 DEF Sends
  <2>2. \A u \in Doors, j \in {1, 2} :
          verdict'[<<u, j>>] = IF u = t /\ j = k THEN "sent" ELSE verdict[<<u, j>>]
    BY <2>1
  <2>3. QED
    BY <1>1, <1>2, <1>3, <2>1, <2>2
<1>4. CASE ~HasWriter
  <2>1. verdict' = verdict
    BY <1>4 DEF Sends
  <2>2. QED
    BY <1>1, <1>2, <1>4, <2>1
<1>5. QED
  BY <1>3, <1>4

LEMMA ConcludesDoes ==
  ASSUME TypeOK, NEW t \in Requests, Concludes(t), got[t] # None
  PROVE  \/ attempt[t] = 1 /\ got[t] = "challenge" /\ Sends(t, 2) /\ dialog' = dialog
         \/ /\ pending' = pending \ {<<t, attempt[t]>>}
            /\ got' = [got EXCEPT ![t] = None]
            /\ UNCHANGED <<attempt, verdict>>
            /\ dialog' = dialog \/ (t \in Invites /\ dialog' = t)
            /\ \E o \in {"failed", "confirming", "done", "refused"} :
                 /\ pc' = [pc EXCEPT ![t] = o]
                 /\ o = "done" => got[t] = "ok"
                 /\ o = "confirming" => t \in Invites
                 /\ o = "refused" => got[t] \in Failures
<1>1. CASE attempt[t] = 1 /\ got[t] = "challenge"
  BY <1>1 DEF Concludes
<1>2. CASE ~(attempt[t] = 1 /\ got[t] = "challenge")
  <2>1. /\ pending' = pending \ {<<t, attempt[t]>>}
        /\ got' = [got EXCEPT ![t] = None]
        /\ UNCHANGED <<attempt, verdict>>
        /\ dialog' = dialog \/ (t \in Invites /\ dialog' = t)
        /\ pc' = [pc EXCEPT ![t] = Outcome(t)]
    BY <1>2 DEF Concludes, Unlisted, Key, At
  <2>2. /\ Outcome(t) \in {"failed", "confirming", "done", "refused"}
        /\ Outcome(t) = "done" => got[t] = "ok"
        /\ Outcome(t) = "confirming" => t \in Invites
    BY DEF Outcome
  <2>3. ASSUME Outcome(t) = "refused" PROVE got[t] \in Failures
    <3>1. got[t] \in {"closed"} \cup Failures \cup Successes
      BY DEF TypeOK, Verdicts
    <3>2. got[t] \notin {"closed", "unusable", "ok"}
      BY <2>3 DEF Outcome
    <3>3. QED
      BY <3>1, <3>2 DEF Successes
  <2>4. QED
    BY <2>1, <2>2, <2>3
<1>3. QED
  BY <1>1, <1>2

-----------------------------------------------------------------------------
(* Initial states and types *)

LEMMA InvInit == Init => IInv
<1> SUFFICES ASSUME Init PROVE IInv
  OBVIOUS
<1> USE RequestsAssumption DEF Init
<1>1. TypeOK
  BY DEF TypeOK
<1>2. ASSUME NEW t \in Requests PROVE RequestInv(t)
  <2>1. pc[t] = "new" /\ attempt[t] = 1 /\ got[t] = None
    OBVIOUS
  <2>2. t \in Doors => verdict[<<t, 1>>] = "unsent" /\ verdict[<<t, 2>>] = "unsent"
    OBVIOUS
  <2>3. QED
    BY <2>1, <2>2 DEF RequestInv, TaskInv, InviteInv, DoorInv
<1>3. QED
  BY <1>1, <1>2 DEF IInv

LEMMA GoesOnTypes ==
  ASSUME TypeOK, \A u \in Requests : RequestInv(u), NEW t \in Requests, Enters(t) \/ GoesOn(t)
  PROVE  TypeOK'
<1> USE DEF TypeOK, wire, Returned, Holding
<1>1. CASE Enters(t)
  BY SMTT(30), <1>1, SendsDoes DEF Enters
<1>2. CASE DrainFails(t)
  BY <1>2 DEF DrainFails, At
<1>3. CASE TimesOut(t)
  BY <1>3 DEF TimesOut, At, Unlisted
<1>4. CASE AnswerTaken(t) \/ FailureAcked(t)
  <2>1. Concludes(t) /\ UNCHANGED <<client, reader, acked, bye>>
    BY <1>4 DEF AnswerTaken, FailureAcked
  <2>4. got[t] # None
    <3>1. CASE AnswerTaken(t)
      BY <3>1 DEF AnswerTaken
    <3>2. CASE pc[t] = "acking"
      <4>1. got[t] \in Failures
        BY <3>2 DEF RequestInv, TaskInv
      <4>2. QED
        BY <4>1, RequestsAssumption DEF Failures, Challenges
    <3>3. QED
      BY <1>4, <3>1, <3>2 DEF FailureAcked
  <2>2. CASE Sends(t, 2) /\ dialog' = dialog
    <3>1. /\ pending' = (pending \ {<<t, attempt[t]>>}) \cup {<<t, 2>>}
          /\ attempt' = [attempt EXCEPT ![t] = 2]
          /\ got' = [got EXCEPT ![t] = None]
          /\ pc' = [pc EXCEPT ![t] = IF HasWriter THEN "waiting" ELSE "failed"]
          /\ verdict' \in [Doors \X {1, 2} -> {"unsent", "sent"} \cup Verdicts]
      BY <2>2, SendsDoes
    <3>2. QED
      BY <2>1, <2>2, <3>1
  <2>3. CASE /\ pending' = pending \ {<<t, attempt[t]>>}
             /\ got' = [got EXCEPT ![t] = None]
             /\ UNCHANGED <<attempt, verdict>>
             /\ dialog' = dialog \/ (t \in Invites /\ dialog' = t)
             /\ \E o \in {"failed", "confirming", "done", "refused"} : pc' = [pc EXCEPT ![t] = o]
    BY <2>1, <2>3
  <2>5. QED
    BY <2>1, <2>4, <2>2, <2>3, ConcludesDoes
<1>5. CASE FailureTaken(t)
  BY <1>5 DEF FailureTaken, At, Unlisted, Acknowledges
<1>6. CASE Confirmed(t)
  BY <1>6 DEF Confirmed, At
<1>7. QED
  BY <1>1, <1>2, <1>3, <1>4, <1>5, <1>6 DEF GoesOn

LEMMA StepTypes ==
  ASSUME TypeOK, \A u \in Requests : RequestInv(u), [Next]_vars
  PROVE  TypeOK'
<1> USE DEF TypeOK, task, wire, Returned, Holding
<1>1. ASSUME NEW t \in Requests, Begin(t) PROVE TypeOK'
  BY <1>1 DEF Begin, At
<1>2. ASSUME NEW t \in Requests, Enters(t) \/ GoesOn(t) PROVE TypeOK'
  BY <1>2, GoesOnTypes
<1>3. ASSUME NEW t \in Requests, NEW k \in {1, 2}, GatewayDecides(t, k) PROVE TypeOK'
  <2>1. PICK v \in Verdicts : verdict' = [verdict EXCEPT ![<<t, k>>] = v]
    BY <1>3 DEF GatewayDecides
  <2>2. t \in Doors
    BY <1>3 DEF GatewayDecides
  <2>3. QED
    BY <1>3, <2>1, <2>2 DEF GatewayDecides
<1>4. ASSUME NEW t \in Requests, NEW k \in {1, 2}, ReadAnswer(t, k) PROVE TypeOK'
  <2>1. PICK v \in Verdicts : got' = [got EXCEPT ![t] = v]
    BY <1>4 DEF ReadAnswer
  <2>2. QED
    BY <1>4, <2>1 DEF ReadAnswer
<1>5. CASE ByeArrives \/ ReaderFails \/ Dialled \/ Registered
  BY <1>5 DEF ByeArrives, ReaderFails, Dialled, Registered
<1>6. CASE ConnectFails \/ EndMonitoring \/ ManagerCloses \/ SupervisorWakes
  BY <1>6 DEF ConnectFails, EndMonitoring, ManagerCloses, SupervisorWakes, Closes, SendsBye
<1>7. CASE ByeReturns \/ ReaderCancelled \/ WriterClosed
  BY <1>7 DEF ByeReturns, ReaderCancelled, WriterClosed
<1>8. CASE RegistrationCancelled
  BY <1>8 DEF RegistrationCancelled
<1>9. CASE Swept
  BY <1>9 DEF Swept
<1>10. CASE UNCHANGED vars
  BY <1>10 DEF vars
<1>11. QED
  BY <1>1, <1>2, <1>3, <1>4, <1>5, <1>6, <1>7, <1>8, <1>9, <1>10 DEF Next, CloseGoesOn

-----------------------------------------------------------------------------
(* Requests *)

LEMMA SendsKeeps ==
  ASSUME TypeOK, \A u \in Requests : RequestInv(u),
         NEW t \in Requests, NEW k \in {1, 2}, Sends(t, k), UNCHANGED <<client, acked>>,
         \/ k = 1 /\ pc[t] = "queued"
         \/ /\ k = 2 /\ attempt[t] = 1 /\ got[t] = "challenge" /\ pc[t] \in Holding
            /\ t \in Invites => <<t, 1>> \in acked,
         NEW u \in Requests
  PROVE  RequestInv(u)'
<1>1. /\ pending' = (pending \ {<<t, attempt[t]>>}) \cup {<<t, k>>}
      /\ attempt' = [attempt EXCEPT ![t] = k]
      /\ got' = [got EXCEPT ![t] = None]
      /\ pc' = [pc EXCEPT ![t] = IF HasWriter THEN "waiting" ELSE "failed"]
      /\ \A d \in Doors, j \in {1, 2} :
           verdict'[<<d, j>>] = IF HasWriter /\ d = t /\ j = k THEN "sent" ELSE verdict[<<d, j>>]
  BY SendsDoes
<1>2. pc \in [Requests -> {"new", "queued", "confirming"} \cup Holding \cup Returned]
  BY DEF TypeOK
<1>3. /\ attempt \in [Requests -> {1, 2}]
      /\ got \in [Requests -> {None, "closed"} \cup Verdicts]
  BY DEF TypeOK
<1>4. CASE u # t
  <2>1. Untouched(u)
    BY <1>1, <1>2, <1>3, <1>4 DEF Untouched
  <2>2. QED
    BY <2>1, UntouchedKeeps
<1>5. CASE u = t
  <2>1. /\ attempt'[t] = k /\ got'[t] = None
        /\ pc'[t] = IF HasWriter THEN "waiting" ELSE "failed"
        /\ <<t, k>> \in pending'
    BY <1>1, <1>2, <1>3
  <2>2. \A j \in {1, 2} : <<t, j>> \in pending' => j = k
    BY <1>1, <1>3 DEF RequestInv, TaskInv
  <2>3. HasWriter => client # "closed"
    BY DEF HasWriter
  <2>4. TaskInv(t)'
    BY <2>1, <2>2, <2>3 DEF TaskInv
  <2>5. InviteInv(t)'
    BY <2>1 DEF InviteInv
  <2>6. ASSUME t \in Doors PROVE k = 1 => verdict[<<t, 2>>] = "unsent"
    BY <2>6 DEF RequestInv, TaskInv, DoorInv
  <2>7. ASSUME t \in Doors, k = 2 PROVE verdict[<<t, 1>>] = "challenge"
    <3>1. attempt[t] = 1 /\ got[t] = "challenge"
      BY <2>7
    <3>2. got[t] \notin {None, "closed"}
      BY <3>1, RequestsAssumption
    <3>3. got[t] = verdict[<<t, attempt[t]>>]
      BY <2>7, <3>2 DEF RequestInv, DoorInv
    <3>4. QED
      BY <3>1, <3>3
  <2>8. DoorInv(t)'
    BY <1>1, <2>1, <2>6, <2>7 DEF DoorInv
  <2>9. QED
    BY <1>5, <2>4, <2>5, <2>8 DEF RequestInv
<1>6. QED
  BY <1>4, <1>5

LEMMA ConcludesKeeps ==
  ASSUME TypeOK, \A u \in Requests : RequestInv(u),
         NEW t \in Requests, Concludes(t), UNCHANGED <<client, acked>>,
         pc[t] \in Holding, got[t] # None,
         t \in Invites /\ got[t] \in Failures => <<t, attempt[t]>> \in acked,
         NEW u \in Requests
  PROVE  RequestInv(u)'
<1>1. CASE attempt[t] = 1 /\ got[t] = "challenge" /\ Sends(t, 2)
  BY <1>1, SendsKeeps DEF Failures, Challenges
<1>2. CASE /\ pending' = pending \ {<<t, attempt[t]>>}
           /\ got' = [got EXCEPT ![t] = None]
           /\ UNCHANGED <<attempt, verdict>>
           /\ \E o \in {"failed", "confirming", "done", "refused"} :
                /\ pc' = [pc EXCEPT ![t] = o]
                /\ o = "done" => got[t] = "ok"
                /\ o = "confirming" => t \in Invites
                /\ o = "refused" => got[t] \in Failures
  <2>1. pc \in [Requests -> {"new", "queued", "confirming"} \cup Holding \cup Returned]
    BY DEF TypeOK
  <2>2. /\ attempt \in [Requests -> {1, 2}]
        /\ got \in [Requests -> {None, "closed"} \cup Verdicts]
    BY DEF TypeOK
  <2>3. CASE u # t
    <3>1. Untouched(u)
      BY <1>2, <2>1, <2>2, <2>3 DEF Untouched
    <3>2. QED
      BY <3>1, UntouchedKeeps
  <2>4. CASE u = t
    <3>1. /\ attempt'[t] = attempt[t] /\ got'[t] = None
          /\ pc'[t] \in {"failed", "confirming", "done", "refused"}
          /\ pc'[t] = "done" => got[t] = "ok"
          /\ pc'[t] = "confirming" => t \in Invites
          /\ pc'[t] = "refused" => got[t] \in Failures
      BY <1>2, <2>1, <2>2
    <3>2. TaskInv(t)'
      BY <1>2, <3>1 DEF RequestInv, TaskInv
    <3>3. InviteInv(t)'
      BY <3>1 DEF RequestInv, InviteInv
    <3>4. got[t] \in {"ok"} \cup Failures => got[t] \notin {None, "closed"}
      BY RequestsAssumption DEF Failures, Challenges
    <3>5. DoorInv(t)'
      BY <1>2, <3>1, <3>4 DEF RequestInv, DoorInv
    <3>6. QED
      BY <2>4, <3>2, <3>3, <3>5 DEF RequestInv
  <2>5. QED
    BY <2>3, <2>4
<1>3. QED
  BY <1>1, <1>2, ConcludesDoes

LEMMA GoesOnKeeps ==
  ASSUME TypeOK, \A u \in Requests : RequestInv(u),
         NEW t \in Requests, Begin(t) \/ Enters(t) \/ GoesOn(t), NEW u \in Requests
  PROVE  RequestInv(u)'
<1>1. /\ pc \in [Requests -> {"new", "queued", "confirming"} \cup Holding \cup Returned]
      /\ attempt \in [Requests -> {1, 2}]
      /\ got \in [Requests -> {None, "closed"} \cup Verdicts]
  BY DEF TypeOK
<1>2. CASE Enters(t)
  BY <1>2, SendsKeeps DEF Enters
<1>3. CASE AnswerTaken(t)
  <2>1. ~(t \in Invites /\ got[t] \in Failures)
    BY <1>3 DEF AnswerTaken, Acknowledges
  <2>2. QED
    BY <1>3, <2>1, ConcludesKeeps DEF AnswerTaken, Holding
<1>4. CASE FailureAcked(t)
  <2>1. got[t] \in Failures /\ <<t, attempt[t]>> \in acked
    BY <1>4 DEF FailureAcked, RequestInv, TaskInv
  <2>2. got[t] # None
    BY <2>1, RequestsAssumption DEF Failures, Challenges
  <2>3. QED
    BY <1>4, <2>1, <2>2, ConcludesKeeps DEF FailureAcked, Holding
<1>5. CASE /\ u # t
           /\ Begin(t) \/ DrainFails(t) \/ TimesOut(t) \/ FailureTaken(t) \/ Confirmed(t)
  <2>1. Untouched(u)
    <3>1. CASE Begin(t)
      BY <1>1, <1>5, <3>1 DEF Untouched, Begin, At, wire
    <3>2. CASE DrainFails(t)
      BY <1>1, <1>5, <3>2 DEF Untouched, DrainFails, At, wire
    <3>3. CASE TimesOut(t)
      BY <1>1, <1>5, <3>3 DEF Untouched, TimesOut, At, wire, Unlisted, Key
    <3>4. CASE FailureTaken(t)
      BY <1>1, <1>5, <3>4 DEF Untouched, FailureTaken, At, Unlisted, Key
    <3>5. CASE Confirmed(t)
      BY <1>1, <1>5, <3>5 DEF Untouched, Confirmed, At, wire
    <3>6. QED
      BY <1>5, <3>1, <3>2, <3>3, <3>4, <3>5
  <2>2. QED
    BY <2>1, UntouchedKeeps
<1>6. CASE u = t /\ Begin(t)
  BY <1>1, <1>6 DEF Begin, At, wire, RequestInv, TaskInv, InviteInv, DoorInv
<1>7. CASE u = t /\ DrainFails(t)
  BY <1>1, <1>7 DEF DrainFails, At, wire, RequestInv, TaskInv, InviteInv, DoorInv
<1>8. CASE u = t /\ TimesOut(t)
  BY <1>1, <1>8 DEF TimesOut, At, wire, Unlisted, Key, RequestInv, TaskInv, InviteInv, DoorInv
<1>9. CASE u = t /\ FailureTaken(t)
  <2>1. t \in Invites /\ got[t] \in Failures /\ t \notin Doors
    BY <1>9, RequestsAssumption DEF FailureTaken, Acknowledges
  <2>2. CASE HasWriter
    <3>1. /\ pending' = pending \ {<<t, attempt[t]>>}
          /\ pc' = [pc EXCEPT ![t] = "acking"] /\ acked' = acked \cup {<<t, attempt[t]>>}
          /\ UNCHANGED <<client, attempt, got>>
      BY <1>9, <2>2 DEF FailureTaken, At, Unlisted, Key
    <3>2. QED
      BY <1>1, <1>9, <2>1, <3>1 DEF RequestInv, TaskInv, InviteInv, DoorInv
  <2>3. CASE ~HasWriter
    <3>1. /\ pending' = pending \ {<<t, attempt[t]>>}
          /\ pc' = [pc EXCEPT ![t] = "failed"] /\ got' = [got EXCEPT ![t] = None]
          /\ UNCHANGED <<client, attempt, acked>>
      BY <1>9, <2>3 DEF FailureTaken, At, Unlisted, Key
    <3>2. QED
      BY <1>1, <1>9, <2>1, <3>1 DEF RequestInv, TaskInv, InviteInv, DoorInv
  <2>4. QED
    BY <2>2, <2>3
<1>10. CASE u = t /\ Confirmed(t)
  <2>1. t \in Invites /\ t \notin Doors
    BY <1>10, RequestsAssumption DEF Confirmed, RequestInv, TaskInv
  <2>2. QED
    BY <1>1, <1>10, <2>1 DEF Confirmed, At, wire, RequestInv, TaskInv, InviteInv, DoorInv
<1>11. QED
  BY <1>2, <1>3, <1>4, <1>5, <1>6, <1>7, <1>8, <1>9, <1>10 DEF GoesOn

LEMMA StepKeeps ==
  ASSUME TypeOK, \A u \in Requests : RequestInv(u), [Next]_vars, NEW u \in Requests
  PROVE  RequestInv(u)'
<1> USE DEF task, wire
<1>1. /\ pc \in [Requests -> {"new", "queued", "confirming"} \cup Holding \cup Returned]
      /\ attempt \in [Requests -> {1, 2}]
      /\ got \in [Requests -> {None, "closed"} \cup Verdicts]
      /\ verdict \in [Doors \X {1, 2} -> {"unsent", "sent"} \cup Verdicts]
  BY DEF TypeOK
<1>2. ASSUME NEW t \in Requests, Begin(t) \/ Enters(t) \/ GoesOn(t) PROVE RequestInv(u)'
  BY <1>2, GoesOnKeeps
<1>3. ASSUME NEW t \in Requests, NEW k \in {1, 2}, GatewayDecides(t, k) PROVE RequestInv(u)'
  <2>1. PICK v \in Verdicts : verdict' = [verdict EXCEPT ![<<t, k>>] = v]
    BY <1>3 DEF GatewayDecides
  <2>2. t \in Doors /\ verdict[<<t, k>>] = "sent" /\ UNCHANGED <<client, pc, attempt, got, pending, acked>>
    BY <1>3 DEF GatewayDecides
  <2>3. \A d \in Doors, j \in {1, 2} :
          verdict'[<<d, j>>] = IF d = t /\ j = k THEN v ELSE verdict[<<d, j>>]
    BY <1>1, <2>1
  <2>4. CASE u # t
    <3>1. Untouched(u)
      BY <2>2, <2>3, <2>4 DEF Untouched
    <3>2. QED
      BY <3>1, UntouchedKeeps
  <2>5. CASE u = t
    <3>1. TaskInv(t)' /\ InviteInv(t)'
      BY <2>2 DEF RequestInv, TaskInv, InviteInv
    <3>2. DoorInv(t) /\ attempt[t] \in {1, 2}
      BY <1>1 DEF RequestInv
    <3>3. ASSUME verdict[<<t, attempt[t]>>] = "sent" PROVE got[t] \in {None, "closed"}
      <4>1. got[t] \in {None, "closed", "challenge", "bare", "refused", "ok", "unusable"}
        BY <1>1 DEF Verdicts, Failures, Challenges, Successes
      <4>2. got[t] \in {None, "closed"} \/ got[t] = "sent"
        BY <2>2, <3>2, <3>3 DEF DoorInv
      <4>3. QED
        BY <4>1, <4>2
    <3>4. "sent" \notin Failures
      BY DEF Failures, Challenges
    <3>5. DoorInv(t)'
      BY <2>2, <2>3, <3>2, <3>3, <3>4 DEF DoorInv
    <3>6. QED
      BY <2>5, <3>1, <3>5 DEF RequestInv
  <2>6. QED
    BY <2>4, <2>5
<1>4. ASSUME NEW t \in Requests, NEW k \in {1, 2}, ReadAnswer(t, k) PROVE RequestInv(u)'
  <2>1. PICK v \in Verdicts : (t \in Doors => v = verdict[<<t, k>>]) /\ got' = [got EXCEPT ![t] = v]
    BY <1>4 DEF ReadAnswer
  <2>2. /\ <<t, k>> \in pending /\ pc[t] = "waiting" /\ got[t] = None
        /\ UNCHANGED <<client, pc, attempt, pending, verdict, acked>>
    BY <1>4 DEF ReadAnswer, Key
  <2>3. CASE u # t
    <3>1. Untouched(u)
      BY <1>1, <2>1, <2>2, <2>3 DEF Untouched
    <3>2. QED
      BY <3>1, UntouchedKeeps
  <2>4. CASE u = t
    <3>1. v # None
      BY RequestsAssumption DEF Verdicts, Failures, Challenges, Successes
    <3>2. got'[t] = v /\ k = attempt[t]
      BY <1>1, <2>1, <2>2 DEF RequestInv, TaskInv
    <3>3. TaskInv(t)' /\ InviteInv(t)'
      BY <2>2, <3>1, <3>2 DEF RequestInv, TaskInv, InviteInv
    <3>4. DoorInv(t)'
      BY <2>1, <2>2, <3>2 DEF RequestInv, DoorInv
    <3>5. QED
      BY <2>4, <3>3, <3>4 DEF RequestInv
  <2>5. QED
    BY <2>3, <2>4
<1>5. CASE UNCHANGED <<task, pending, wire>> /\ (client' = "closed" => client = "closed")
  <2>1. Untouched(u)
    BY <1>5 DEF Untouched
  <2>2. QED
    BY <2>1, UntouchedKeeps
<1>6. CASE RegistrationCancelled
  <2> DEFINE live == {t \in Refreshes : pc[t] \in {"queued"} \cup Holding}
  <2>1. /\ client' = "unreading" /\ UNCHANGED <<attempt, got, verdict, acked>>
        /\ pc' = [t \in Requests |-> IF t \in live THEN "cancelled" ELSE pc[t]]
        /\ pending' = pending \ {Key(t, attempt[t]) : t \in {w \in live : pc[w] = "waiting"}}
    BY <1>6 DEF RegistrationCancelled
  <2>2. CASE u \in live
    <3>1. pc'[u] = "cancelled" /\ u \notin Invites /\ u \notin Doors
      BY <2>1, <2>2, RequestsAssumption
    <3>2. pending' \subseteq pending
      BY <2>1
    <3>3. QED
      BY <2>1, <3>1, <3>2 DEF RequestInv, TaskInv, InviteInv, DoorInv
  <2>3. CASE u \notin live
    <3>1. pc'[u] = pc[u]
      BY <2>1, <2>3
    <3>2. \A k \in {1, 2} : <<u, k>> \in pending' <=> <<u, k>> \in pending
      BY <2>1, <2>3 DEF Key
    <3>3. Untouched(u)
      BY <2>1, <3>1, <3>2 DEF Untouched
    <3>4. QED
      BY <3>3, UntouchedKeeps
  <2>4. QED
    BY <2>2, <2>3
<1>7. CASE Swept
  <2>1. /\ pending' = {} /\ UNCHANGED <<pc, attempt, verdict, acked>>
        /\ got'[u] = IF got[u] = None /\ <<u, attempt[u]>> \in pending THEN "closed" ELSE got[u]
    BY <1>7 DEF Swept, Key
  <2>2. "closed" # None /\ "closed" \notin Failures
    BY RequestsAssumption DEF Failures, Challenges
  <2>3. TaskInv(u)'
    BY <2>1, <2>2, RequestsAssumption DEF RequestInv, TaskInv, Failures, Challenges
  <2>4. InviteInv(u)'
    BY <2>1 DEF RequestInv, InviteInv
  <2>5. DoorInv(u)'
    BY <2>1 DEF RequestInv, DoorInv
  <2>6. QED
    BY <2>3, <2>4, <2>5 DEF RequestInv
<1>8. CASE ByeArrives \/ ReaderFails \/ Dialled \/ Registered
  BY <1>5, <1>8 DEF ByeArrives, ReaderFails, Dialled, Registered
<1>9. CASE ConnectFails \/ EndMonitoring \/ ManagerCloses \/ SupervisorWakes
  BY <1>5, <1>9 DEF ConnectFails, EndMonitoring, ManagerCloses, SupervisorWakes, Closes
<1>10. CASE ByeReturns \/ ReaderCancelled \/ WriterClosed \/ UNCHANGED vars
  BY <1>5, <1>10 DEF ByeReturns, ReaderCancelled, WriterClosed, vars
<1>11. QED
  BY <1>2, <1>3, <1>4, <1>6, <1>7, <1>8, <1>9, <1>10 DEF Next, CloseGoesOn

(* close is the last to set the future of a BYE, and none is sent after it. *)
LEMMA StepClosesBye ==
  ASSUME TypeOK, client = "closed" => bye # "waiting", [Next]_vars
  PROVE  (client = "closed" => bye # "waiting")'
<1>1. ASSUME NEW t \in Requests, Begin(t) \/ Enters(t) \/ GoesOn(t) PROVE UNCHANGED <<client, bye>>
  BY <1>1 DEF Begin, Enters, GoesOn, DrainFails, TimesOut, AnswerTaken, FailureTaken, FailureAcked, Confirmed
<1>2. ASSUME NEW t \in Requests, NEW k \in {1, 2}, GatewayDecides(t, k) \/ ReadAnswer(t, k)
      PROVE  UNCHANGED <<client, bye>>
  BY <1>2 DEF GatewayDecides, ReadAnswer
<1>3. QED
  BY <1>1, <1>2
  DEF Next, CloseGoesOn, vars, ByeArrives, ReaderFails, Dialled, Registered, ConnectFails, EndMonitoring,
      ManagerCloses, SupervisorWakes, Closes, SendsBye, HasWriter, ByeReturns, RegistrationCancelled,
      ReaderCancelled, WriterClosed, Swept

LEMMA InvStep == IInv /\ [Next]_vars => IInv'
BY StepTypes, StepKeeps, StepClosesBye DEF IInv

LEMMA InvAlways == Spec => []IInv
BY InvInit, InvStep, PTL DEF Spec

-----------------------------------------------------------------------------
(* Theorems *)

(* The tasks of all requests, the pending table, the dialog and the client   *)
(* itself keep their types, however requests and close are interleaved.     *)
THEOREM TypeCorrect == Spec => []TypeOK
BY InvAlways, PTL DEF IInv

(* release_door: a press opens the door at most once; it has if the press    *)
(* returns without an error, and has not if it reports a refusal.  For any    *)
(* number of presses that compete for the lock, time out and are answered late. *)
THEOREM PressesOpenOnce == Spec => []PressOpensOnce
<1>1. IInv => PressOpensOnce
  <2> DEFINE Opened(t) == {k \in {1, 2} : verdict[<<t, k>>] = "ok"}
  <2> SUFFICES ASSUME IInv, NEW t \in Doors
               PROVE  /\ Cardinality(Opened(t)) <= 1
                      /\ pc[t] = "done" => Opened(t) # {}
                      /\ pc[t] = "refused" => Opened(t) = {}
    BY DEF PressOpensOnce
  <2>1. 1 <= 1 /\ 0 <= 1
    OBVIOUS
  <2>2. DoorInv(t) /\ attempt[t] \in {1, 2}
    BY DEF IInv, RequestInv, TypeOK, Requests
  <2>3. "ok" \notin Failures
    BY DEF Failures, Challenges
  <2>4. Opened(t) \subseteq {attempt[t]}
    BY <2>2 DEF DoorInv
  <2>5. Cardinality(Opened(t)) <= 1
    <3>1. Opened(t) = {} \/ Opened(t) = {attempt[t]}
      BY <2>4, Zenon
    <3> HIDE DEF Opened
    <3>2. Cardinality({}) = 0 /\ Cardinality({attempt[t]}) = 1
      BY FS_EmptySet, FS_Singleton
    <3>3. QED
      BY <2>1, <3>1, <3>2
  <2>6. pc[t] = "done" => Opened(t) # {}
    BY <2>2 DEF DoorInv
  <2>7. pc[t] = "refused" => Opened(t) = {}
    BY <2>2, <2>3, <2>4 DEF DoorInv
  <2>8. QED
    BY <2>5, <2>6, <2>7
<1>2. QED
  BY <1>1, InvAlways, PTL

(* _send_failure_ack: a failed INVITE is acknowledged before it is sent again *)
(* with credentials and before its refusal is reported.                     *)
THEOREM InviteFailuresAcknowledged == Spec => []InviteFailureAcknowledged
<1>1. IInv => InviteFailureAcknowledged
  BY DEF IInv, RequestInv, InviteInv, InviteFailureAcknowledged, Requests
<1>2. QED
  BY <1>1, InvAlways, PTL

(* close: when it has returned nobody waits for an answer, neither a request *)
(* that was sent while it was closing nor a BYE.                            *)
THEOREM NobodyEverWaitsOnClosed == Spec => []NobodyWaitsOnClosed
<1>1. IInv => NobodyWaitsOnClosed
  BY DEF IInv, RequestInv, TaskInv, NobodyWaitsOnClosed
<1>2. QED
  BY <1>1, InvAlways, PTL

=============================================================================
