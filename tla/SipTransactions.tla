--------------------------- MODULE SipTransactions ---------------------------
(***************************************************************************)
(* The transactions of one SIP connection (sip.py, class SipClient), from   *)
(* its first REGISTER to the end of close(): requests queue for the send    *)
(* lock, are challenged, sent again, timed out, or failed by a close; the   *)
(* read loop hands answers to those who wait and answers the gateway's own  *)
(* requests.                                                                *)
(*                                                                          *)
(* pc[t] is where the task of request t is suspended; it is "waiting" from  *)
(* the write of the request on.  A request has a Call-ID of its own and up  *)
(* to two attempts, the second with credentials; attempts of one Call-ID    *)
(* differ in CSeq.  Answers with a status below 200 change nothing and are  *)
(* left out.  While the read loop answers a request of the gateway it reads *)
(* nothing, which is the same as a server that answers later.               *)
(***************************************************************************)
EXTENDS Naturals, FiniteSets

CONSTANTS
  First,      \* the REGISTER of connect
  Refreshes,  \* the REGISTERs of the registration task
  Doors,      \* door releases (MESSAGE)
  Invites,    \* monitoring calls (INVITE)
  None

Requests == {First} \cup Refreshes \cup Doors \cup Invites

ASSUME RequestsAssumption ==
  /\ First \notin Refreshes \cup Doors \cup Invites
  /\ Refreshes \cap Doors = {} /\ Refreshes \cap Invites = {}
  /\ Doors \cap Invites = {}
  /\ None \notin Requests
  /\ None \notin {"closed", "challenge", "bare", "refused", "ok", "unusable"}

VARIABLES
  client,    \* connect and close: how far they are
  reader,    \* the read loop
  pc,        \* the task of each request
  attempt,   \* 1, or 2 once it has been sent with credentials
  got,       \* the future of that attempt: None until it is done
  pending,   \* the keys of _pending that belong to requests
  verdict,   \* what the gateway made of each attempt at a door
  acked,     \* the attempts whose failure has been acknowledged
  dialog,    \* the INVITE that _dialog comes from, or None
  bye        \* our BYE

task == <<pc, attempt, got>>
wire == <<verdict, acked>>
vars == <<client, reader, task, pending, wire, dialog, bye>>

Challenges == {"challenge", "bare"}     \* 401 or 407; bare without the header
Failures == Challenges \cup {"refused"} \* a final status of 300 or more
\* a 200; unusable is any other status of 200 and more that is no failure, and an
\* INVITE's 200 without SDP or without a tag
Successes == {"ok", "unusable"}

Verdicts == Failures \cup Successes

Holding == {"waiting", "acking"}
Returned == {"done", "refused", "failed", "cancelled"}

TypeOK ==
  /\ client \in {"dialling", "connecting", "open", "ending", "unregistering",
                 "unreading", "unwriting", "sweeping", "closed"}
  /\ reader \in {"none", "reading", "dead"}
  /\ pc \in [Requests -> {"new", "queued", "confirming"} \cup Holding \cup Returned]
  /\ attempt \in [Requests -> {1, 2}]
  /\ got \in [Requests -> {None, "closed"} \cup Verdicts]
  /\ pending \subseteq Requests \X {1, 2}
  /\ verdict \in [Doors \X {1, 2} -> {"unsent", "sent"} \cup Verdicts]
  /\ acked \subseteq Invites \X {1, 2}
  /\ dialog \in Invites \cup {None}
  /\ bye \in {"none", "waiting", "closed"}

Init ==
  /\ client = "dialling" /\ reader = "none"
  /\ pc = [t \in Requests |-> "new"]
  /\ attempt = [t \in Requests |-> 1]
  /\ got = [t \in Requests |-> None]
  /\ pending = {}
  /\ verdict = [a \in Doors \X {1, 2} |-> "unsent"]
  /\ acked = {}
  /\ dialog = None /\ bye = "none"

-----------------------------------------------------------------------------
HasWriter == client \notin {"dialling", "sweeping", "closed"}

\* a write may fail: the peer has gone, or close has begun to shut the writer
MayBreak == reader = "dead" \/ client \in {"unwriting", "sweeping", "closed"}

LockFree == \A t \in Requests : pc[t] \notin Holding

RegistrationLost == \E t \in Refreshes : pc[t] \in {"refused", "failed"}

At(t, stage) == pc' = [pc EXCEPT ![t] = stage]

\* mutant: the second attempt has the CSeq of the first
KeyOfCall(t, k) == <<t, 1>>

Key(t, k) == <<t, k>>

Unlisted(t) == pending \ {Key(t, attempt[t])}

\* _request, up to the drain.  Without a writer it raises, and leaves its key.
Sends(t, k) ==
  /\ pending' = Unlisted(t) \cup {Key(t, k)}
  /\ attempt' = [attempt EXCEPT ![t] = k]
  /\ got' = [got EXCEPT ![t] = None]
  /\ IF HasWriter
     THEN /\ At(t, "waiting")
          /\ verdict' = [a \in Doors \X {1, 2} |->
                          IF a = <<t, k>> THEN "sent" ELSE verdict[a]]
     ELSE At(t, "failed") /\ UNCHANGED verdict

\* what became of a request that is not sent again; start_monitoring makes its
\* dialog, and raises unless it can confirm it
Outcome(t) ==
  CASE got[t] \in {"closed", "unusable"} -> "failed"
    [] got[t] = "bare" /\ attempt[t] = 1 -> "failed"
    [] got[t] = "ok" /\ t \in Invites -> IF HasWriter THEN "confirming" ELSE "failed"
    [] got[t] = "ok" -> "done"
    [] OTHER -> "refused"

\* mutant: every challenge is taken up
ConcludesAnew(t) ==
  IF got[t] = "challenge"
  THEN Sends(t, attempt[t] + 1) /\ UNCHANGED dialog
  ELSE /\ pending' = Unlisted(t)
       /\ At(t, Outcome(t))
       /\ dialog' = IF t \in Invites /\ got[t] = "ok" THEN t ELSE dialog
       /\ got' = [got EXCEPT ![t] = None]
       /\ UNCHANGED <<attempt, verdict>>

\* The rest of _authenticated_request after an answer (and its ACK): the
\* credentials are sent once; what answers them is returned as it is.
Concludes(t) ==
  IF attempt[t] = 1 /\ got[t] = "challenge"
  THEN Sends(t, 2) /\ UNCHANGED dialog
  ELSE /\ pending' = Unlisted(t)
       /\ At(t, Outcome(t))
       /\ dialog' = IF t \in Invites /\ got[t] = "ok" THEN t ELSE dialog
       /\ got' = [got EXCEPT ![t] = None]
       /\ UNCHANGED <<attempt, verdict>>

-----------------------------------------------------------------------------
(* A request *)

\* the user presses or starts; the registration task wakes and sends one
\* request after the other
MayBegin(t) ==
  CASE t = First -> client = "connecting"
    [] t \in Refreshes -> /\ client \in {"open", "ending"} /\ ~RegistrationLost
                          /\ \A u \in Refreshes : pc[u] \in {"new"} \cup Returned
    [] t \in Invites -> /\ client \notin {"dialling", "connecting", "closed"}
                        /\ dialog = None /\ bye = "none"
    [] OTHER -> client \notin {"dialling", "connecting", "closed"}

Begin(t) ==
  /\ pc[t] = "new" /\ MayBegin(t)
  /\ At(t, "queued")
  /\ UNCHANGED <<client, reader, attempt, got, pending, wire, dialog, bye>>

Enters(t) ==
  /\ pc[t] = "queued" /\ LockFree
  /\ Sends(t, 1)
  /\ UNCHANGED <<client, reader, acked, dialog, bye>>

\* drain raises; a request that is not written leaves its key in _pending
DrainFails(t) ==
  /\ pc[t] \in {"waiting", "acking", "confirming"} /\ MayBreak
  /\ At(t, "failed")
  /\ got' = [got EXCEPT ![t] = None]
  /\ UNCHANGED <<client, reader, attempt, pending, wire, dialog, bye>>

\* mutant: wait_for has no limit
NeverTimesOut(t) == FALSE /\ UNCHANGED vars

\* twenty seconds without an answer
TimesOut(t) ==
  /\ pc[t] = "waiting" /\ got[t] = None
  /\ At(t, "failed")
  /\ pending' = Unlisted(t)
  /\ UNCHANGED <<client, reader, attempt, got, wire, dialog, bye>>

\* mutant: only the answer that is returned is acknowledged
AcknowledgesLast(t) == t \in Invites /\ got[t] = "refused"

\* a final failure of an INVITE needs an ACK, before anything else is sent
Acknowledges(t) == t \in Invites /\ got[t] \in Failures

\* the future is done and the task goes on
AnswerTaken(t) ==
  /\ pc[t] = "waiting" /\ got[t] # None /\ ~Acknowledges(t)
  /\ Concludes(t)
  /\ UNCHANGED <<client, reader, acked, bye>>

FailureTaken(t) ==
  /\ pc[t] = "waiting" /\ Acknowledges(t)
  /\ pending' = Unlisted(t)
  /\ IF HasWriter
     THEN /\ At(t, "acking") /\ acked' = acked \cup {<<t, attempt[t]>>}
          /\ UNCHANGED got
     ELSE /\ At(t, "failed") /\ got' = [got EXCEPT ![t] = None]
          /\ UNCHANGED acked
  /\ UNCHANGED <<client, reader, attempt, verdict, dialog, bye>>

FailureAcked(t) ==
  /\ pc[t] = "acking"
  /\ Concludes(t)
  /\ UNCHANGED <<client, reader, acked, bye>>

\* the ACK of the 200 is out
Confirmed(t) ==
  /\ pc[t] = "confirming"
  /\ At(t, "done")
  /\ UNCHANGED <<client, reader, attempt, got, pending, wire, dialog, bye>>

-----------------------------------------------------------------------------
(* The server, and the read loop *)

\* the gateway acts in its own time, even when nobody waits any more
GatewayDecides(t, k) ==
  /\ t \in Doors /\ verdict[<<t, k>>] = "sent"
  /\ \E v \in Verdicts : verdict' = [verdict EXCEPT ![<<t, k>>] = v]
  /\ UNCHANGED <<client, reader, task, pending, acked, dialog, bye>>

\* An answer, or one that is repeated, sets the future that is pending under
\* its key; if none is, or it is done, or nobody waits for it, it is dropped.
ReadAnswer(t, k) ==
  /\ reader = "reading"
  /\ Key(t, k) \in pending /\ pc[t] = "waiting" /\ got[t] = None
  /\ \E v \in Verdicts :
       /\ t \in Doors => v = verdict[<<t, k>>]
       /\ got' = [got EXCEPT ![t] = v]
  /\ UNCHANGED <<client, reader, pc, attempt, pending, wire, dialog, bye>>

\* a BYE of the gateway for our call; the runtime is told (MonitoringCall)
ByeArrives ==
  /\ reader = "reading" /\ dialog # None
  /\ dialog' = None
  /\ UNCHANGED <<client, reader, task, pending, wire, bye>>

\* end of the stream, an answer that cannot be written, a message that cannot
\* be parsed
ReaderFails ==
  /\ reader = "reading"
  /\ reader' = "dead"
  /\ UNCHANGED <<client, task, pending, wire, dialog, bye>>

-----------------------------------------------------------------------------
(* connect, end_monitoring and close *)

Dialled ==
  /\ client = "dialling"
  /\ client' = "connecting" /\ reader' = "reading"
  /\ UNCHANGED <<task, pending, wire, dialog, bye>>

\* connect returns, and the registration task begins to sleep
Registered ==
  /\ client = "connecting" /\ pc[First] = "done"
  /\ client' = "open"
  /\ UNCHANGED <<reader, task, pending, wire, dialog, bye>>

\* end_monitoring: the dialog is taken and a BYE sent; only the session and
\* close call it, the session under its own lock
SendsBye == dialog' = None /\ bye' = "waiting"

EndMonitoring ==
  /\ dialog # None /\ bye = "none" /\ HasWriter
  /\ SendsBye
  /\ UNCHANGED <<client, reader, task, pending, wire>>

\* answered, or not within twenty seconds; close goes on
ByeReturns ==
  /\ bye # "none"
  /\ bye' = "none"
  /\ client' = IF client = "ending" THEN "unregistering" ELSE client
  /\ UNCHANGED <<reader, task, pending, wire, dialog>>

\* the first step of close
Closes ==
  \/ /\ dialog # None /\ HasWriter /\ bye = "none"
     /\ SendsBye
     /\ client' = "ending"
  \/ /\ dialog = None \/ ~HasWriter
     /\ client' = "unregistering"
     /\ dialog' = None
     /\ UNCHANGED bye

\* the manager gives the connection up, because it stops or for no reason here
ManagerCloses ==
  /\ client = "open"
  /\ Closes
  /\ UNCHANGED <<reader, task, pending, wire>>

\* connect raises: the server is not reached, or refuses the registration
ConnectFails ==
  /\ client = "dialling" \/ (client = "connecting" /\ pc[First] \in {"refused", "failed"})
  /\ Closes
  /\ UNCHANGED <<reader, task, pending, wire>>

\* mutant: only the reader is watched
NoticesReader == client = "open" /\ reader = "dead"

\* wait_closed: the reader or the registration task has ended
Notices == client = "open" /\ (reader = "dead" \/ RegistrationLost)

SupervisorWakes ==
  /\ Notices
  /\ Closes
  /\ UNCHANGED <<reader, task, pending, wire>>

\* the registration task is cancelled wherever it is
RegistrationCancelled ==
  /\ client = "unregistering"
  /\ client' = "unreading"
  /\ LET live == {t \in Refreshes : pc[t] \in {"queued"} \cup Holding}
     IN /\ pc' = [t \in Requests |-> IF t \in live THEN "cancelled" ELSE pc[t]]
        /\ pending' = pending \ {Key(t, attempt[t]) : t \in {u \in live : pc[u] = "waiting"}}
  /\ UNCHANGED <<reader, attempt, got, wire, dialog, bye>>

ReaderCancelled ==
  /\ client = "unreading"
  /\ client' = "unwriting" /\ reader' = "none"
  /\ UNCHANGED <<task, pending, wire, dialog, bye>>

WriterClosed ==
  /\ client = "unwriting"
  /\ client' = "sweeping"
  /\ UNCHANGED <<reader, task, pending, wire, dialog, bye>>

\* mutant: the futures are dropped but not failed
SweptSilently ==
  /\ client = "sweeping"
  /\ client' = "closed"
  /\ pending' = {}
  /\ bye' = IF bye = "waiting" THEN "closed" ELSE bye
  /\ UNCHANGED <<reader, task, wire, dialog>>

\* whoever still waits is told that the connection is closed
Swept ==
  /\ client = "sweeping"
  /\ client' = "closed"
  /\ got' = [t \in Requests |->
               IF got[t] = None /\ Key(t, attempt[t]) \in pending THEN "closed" ELSE got[t]]
  /\ pending' = {}
  /\ bye' = IF bye = "waiting" THEN "closed" ELSE bye
  /\ UNCHANGED <<reader, pc, attempt, wire, dialog>>

-----------------------------------------------------------------------------
GoesOn(t) ==
  \/ DrainFails(t) \/ TimesOut(t) \/ AnswerTaken(t)
  \/ FailureTaken(t) \/ FailureAcked(t) \/ Confirmed(t)

CloseGoesOn ==
  RegistrationCancelled \/ ReaderCancelled \/ WriterClosed \/ Swept

Next ==
  \/ \E t \in Requests :
       \/ Begin(t) \/ Enters(t) \/ GoesOn(t)
       \/ \E k \in {1, 2} : GatewayDecides(t, k) \/ ReadAnswer(t, k)
  \/ ByeArrives \/ ReaderFails
  \/ Dialled \/ Registered \/ ConnectFails \/ EndMonitoring
  \/ ByeReturns \/ ManagerCloses \/ SupervisorWakes \/ CloseGoesOn

Spec == Init /\ [][Next]_vars

(* Every wait has a limit, the lock is FIFO, the supervisor waits for the   *)
(* tasks of the client, and a write comes to an end.  The server and the    *)
(* gateway need not answer; users need not do anything.                     *)
Fairness ==
  /\ \A t \in Requests : WF_vars(GoesOn(t)) /\ SF_vars(Enters(t))
  /\ WF_vars(ByeReturns) /\ WF_vars(CloseGoesOn)
  /\ WF_vars(SupervisorWakes)

FairSpec == Spec /\ Fairness

-----------------------------------------------------------------------------
\* A press of the button opens the door at most once, however answers are
\* delayed or repeated; it opened it if the press returns without an error
\* (release_door), and did not if the gateway's refusal is what it reports.
PressOpensOnce ==
  \A t \in Doors :
    LET opened == {k \in {1, 2} : verdict[<<t, k>>] = "ok"}
    IN /\ Cardinality(opened) <= 1
       /\ pc[t] = "done" => opened # {}
       /\ pc[t] = "refused" => opened = {}

\* _send_failure_ack: "Acknowledge a non-2xx INVITE final response before
\* retry/teardown."  No second INVITE is sent, and none is reported as refused,
\* before the failure of the one at hand has its ACK.
InviteFailureAcknowledged ==
  \A t \in Invites :
    /\ attempt[t] = 2 => <<t, 1>> \in acked
    /\ pc[t] = "refused" => <<t, attempt[t]>> \in acked

\* When close has returned, no task waits for an answer that cannot come, not
\* even one that sent its request while the connection was being closed.
NobodyWaitsOnClosed ==
  client = "closed" =>
    /\ \A t \in Requests : pc[t] = "waiting" => got[t] # None
    /\ bye # "waiting"

\* A press of the button returns: neither a silent server nor a request that
\* fails in front of it keeps the send lock for ever.
PressReturns == \A t \in Doors : pc[t] = "queued" ~> pc[t] \in Returned

\* wait_closed: a connection that has lost its reader or its registration is
\* given up, whichever of the two fails, and close comes to its end.
LossIsNoticed ==
  (client = "open" /\ (reader = "dead" \/ RegistrationLost)) ~> client = "closed"

=============================================================================
