---------------------------- MODULE WebRTCBridge ----------------------------
(***************************************************************************)
(* The browsers that watch a call (webrtc.py, class WebRTCBridge, and       *)
(* camera.py): their peers, the ICE candidates that arrive before a peer is *)
(* ready for them, the one player they share, and the count of viewers by   *)
(* which the session knows when to end.                                     *)
(*                                                                          *)
(* pc[s] is where the task of browser session s's offer is suspended.  The  *)
(* bridge's lock is held in HoldsLock, by the close of session closing, or  *)
(* by the clean-up while it is "cleaning".                                  *)
(***************************************************************************)
EXTENDS Naturals, FiniteSets

CONSTANTS
  Sessions,       \* WebRTC session ids; Home Assistant makes one per offer
  None,
  MaxPending,     \* how many early candidates are kept (64 in the code)
  MaxCandidates   \* bound: candidates that a browser sends

ASSUME BridgeAssumption ==
  /\ IsFiniteSet(Sessions) /\ None \notin Sessions
  /\ MaxPending \in Nat /\ MaxCandidates \in Nat

VARIABLES
  pc,        \* the task of each offer
  asked,     \* calls of close that wait for the lock, by who made them
  closing,   \* the session whose close holds the lock, or None
  peers,     \* the keys of _peers
  pending,   \* _pending_candidates: how many are queued, or None
  player,    \* whether _player is set
  cleanup,   \* _cleanup_task; "cleaning" when it holds the lock
  browser,   \* each browser: not "new" once it has made its offer
  sent,      \* how many candidates each browser has sent
  reached,   \* whether each peer has an address to try, or knows that none will come
  session,   \* whether the manager has a media session
  viewers,   \* viewer_count of that session
  replaced   \* whether the manager has dropped a session before

managed == <<session, viewers, replaced>>
outside == <<browser, sent, reached>>
vars == <<pc, asked, closing, peers, pending, player, cleanup, outside, managed>>

HoldsLock == {"readying", "describing", "answering", "failing"}
Stages == {"out", "starting", "queued"} \cup HoldsLock

\* close is called for the page, for a peer that failed or closed, and by the
\* camera when the offer could not be answered
Callers == {"page", "peer", "camera"}

TypeOK ==
  /\ pc \in [Sessions -> Stages]
  /\ asked \in [Sessions -> SUBSET Callers]
  /\ closing \in Sessions \cup {None}
  /\ peers \subseteq Sessions
  /\ pending \in [Sessions -> 0 .. MaxPending \cup {None}]
  /\ player \in BOOLEAN
  /\ cleanup \in {"none", "sleeping", "waiting", "cleaning"}
  /\ browser \in [Sessions -> {"new", "open", "closed"}]
  /\ sent \in [Sessions -> 0 .. MaxCandidates]
  /\ reached \in [Sessions -> BOOLEAN]
  /\ session \in BOOLEAN /\ replaced \in BOOLEAN
  /\ viewers \in 0 .. Cardinality(Sessions)

Init ==
  /\ pc = [s \in Sessions |-> "out"]
  /\ asked = [s \in Sessions |-> {}]
  /\ closing = None
  /\ peers = {}
  /\ pending = [s \in Sessions |-> None]
  /\ player = FALSE
  /\ cleanup = "none"
  /\ browser = [s \in Sessions |-> "new"]
  /\ sent = [s \in Sessions |-> 0]
  /\ reached = [s \in Sessions |-> FALSE]
  /\ session = TRUE /\ viewers = 0 /\ replaced = FALSE

-----------------------------------------------------------------------------
\* mutant: the clean-up does not hold the lock
LockFreeOfCleanup == closing = None /\ \A s \in Sessions : pc[s] \notin HoldsLock

LockFree ==
  /\ closing = None /\ cleanup # "cleaning"
  /\ \A s \in Sessions : pc[s] \notin HoldsLock

At(s, stage) == pc' = [pc EXCEPT ![s] = stage]

Asks(s, caller) == asked' = [asked EXCEPT ![s] = @ \cup {caller}]

\* a peer that is closed may announce it to its handler
MayAnnounce(s, others) ==
  asked' \in {[asked EXCEPT ![s] = @ \cup others],
              [asked EXCEPT ![s] = @ \cup others \cup {"peer"}]}

\* _viewer_changed: nobody is told while the manager has no session
ViewerJoins ==
  /\ viewers' = IF session THEN viewers + 1 ELSE viewers
  /\ UNCHANGED <<session, replaced>>

\* mutant: the count is taken down when the peer is gone already as well
ViewerLeavesTwice ==
  /\ viewers' = IF session /\ viewers > 1 THEN viewers - 2 ELSE 0
  /\ UNCHANGED <<session, replaced>>

ViewerLeaves ==
  /\ viewers' = IF session /\ viewers > 0 THEN viewers - 1 ELSE viewers
  /\ UNCHANGED <<session, replaced>>

\* mutant: an older task is taken for one that will still run
CleanupNotScheduled == UNCHANGED cleanup

\* _schedule_player_cleanup, when the last peer has gone
CleanupScheduled ==
  cleanup' = IF peers = {} /\ cleanup = "none" THEN "sleeping" ELSE cleanup

-----------------------------------------------------------------------------
(* The offer: prepare, start the call, answer *)

\* prepare, before the call is started
Offer(s) ==
  /\ browser[s] = "new"
  /\ browser' = [browser EXCEPT ![s] = "open"]
  /\ pending' = [pending EXCEPT ![s] = IF @ = None THEN 0 ELSE @]
  /\ At(s, "starting")
  /\ UNCHANGED <<asked, closing, peers, player, cleanup, sent, reached, managed>>

StartFails(s) ==
  /\ pc[s] = "starting"
  /\ At(s, "out")
  /\ Asks(s, "camera")
  /\ UNCHANGED <<closing, peers, pending, player, cleanup, outside, managed>>

StartReturns(s) ==
  /\ pc[s] = "starting"
  /\ At(s, "queued")
  /\ UNCHANGED <<asked, closing, peers, pending, player, cleanup, outside, managed>>

\* a peer is made and counted
Registered(s) ==
  /\ peers' = peers \cup {s}
  /\ At(s, "describing")
  /\ ViewerJoins

\* answer has the lock: a clean-up still to come is cancelled, the player is looked
\* for (_cleanup_task is None once the clean-up has begun)
AnswerEnters(s) ==
  /\ pc[s] = "queued" /\ LockFree
  /\ cleanup' = IF cleanup = "cleaning" THEN cleanup ELSE "none"
  /\ IF player THEN Registered(s)
     ELSE At(s, "readying") /\ UNCHANGED <<peers, managed>>
  /\ UNCHANGED <<asked, closing, pending, player, outside>>

PlayerReady(s) ==
  /\ pc[s] = "readying"
  /\ player' = TRUE
  /\ Registered(s)
  /\ UNCHANGED <<asked, closing, pending, cleanup, outside>>

\* no SDP file within ten seconds, or it cannot be opened
PlayerMissing(s) ==
  /\ pc[s] = "readying"
  /\ At(s, "out")
  /\ Asks(s, "camera")
  /\ UNCHANGED <<closing, peers, pending, player, cleanup, outside, managed>>

\* what came from the browser holds an address or the mark that no more follow, or
\* only what the library does not look at
MayReach(s) == reached' \in {reached, [reached EXCEPT ![s] = TRUE]}

\* the peer and all it has learnt go
Forgets(s) ==
  /\ peers' = peers \ {s}
  /\ reached' = [reached EXCEPT ![s] = FALSE]
  /\ UNCHANGED <<browser, sent>>

\* mutant: the queue is left where it is
DescribedOnly(s) ==
  /\ pc[s] = "describing"
  /\ At(s, "answering")
  /\ UNCHANGED <<asked, closing, peers, pending, player, cleanup, outside, managed>>

\* the offer is installed, and the queued candidates are taken to be applied
Described(s) ==
  /\ pc[s] = "describing"
  /\ pending' = [pending EXCEPT ![s] = None]
  /\ MayReach(s)
  /\ At(s, "answering")
  /\ UNCHANGED <<asked, closing, peers, player, cleanup, browser, sent, managed>>

Answered(s) ==
  /\ pc[s] = "answering"
  /\ At(s, "out")
  /\ UNCHANGED <<asked, closing, peers, pending, player, cleanup, outside, managed>>

\* the offer, a candidate or the answer is refused: the peer is forgotten
AnswerFails(s) ==
  /\ pc[s] \in {"describing", "answering"}
  /\ pending' = [pending EXCEPT ![s] = None]
  /\ Forgets(s)
  /\ ViewerLeaves
  /\ At(s, "failing")
  /\ UNCHANGED <<asked, closing, player, cleanup>>

\* its peer is closed; the camera closes the session once more
AnswerFailed(s) ==
  /\ pc[s] = "failing"
  /\ CleanupScheduled
  /\ At(s, "out")
  /\ MayAnnounce(s, {"camera"})
  /\ UNCHANGED <<closing, peers, pending, player, outside, managed>>

-----------------------------------------------------------------------------
(* add_candidate, which does not take the lock *)

Ready(s) == s \in peers /\ pc[s] # "describing"

\* mutant: the queue has no bound
QueuedUncapped(s) ==
  pending' = [pending EXCEPT ![s] = IF @ = None THEN 1 ELSE @ + 1]

Queued(s) ==
  LET held == IF pending[s] = None THEN 0 ELSE pending[s]
  IN pending' = [pending EXCEPT ![s] = IF held < MaxPending THEN held + 1 ELSE held]

AddCandidate(s) ==
  /\ browser[s] = "open" /\ sent[s] < MaxCandidates
  /\ sent' = [sent EXCEPT ![s] = @ + 1]
  /\ IF (pending[s] = None /\ s \notin peers) \/ Ready(s)
     THEN UNCHANGED pending
     ELSE Queued(s)
  /\ IF Ready(s) THEN MayReach(s) ELSE UNCHANGED reached
  /\ UNCHANGED <<pc, asked, closing, peers, player, cleanup, browser, managed>>

-----------------------------------------------------------------------------
(* close, and the reasons for it *)

CloseEnters(s, caller) ==
  /\ caller \in asked[s] /\ LockFree
  /\ asked' = [asked EXCEPT ![s] = @ \ {caller}]
  /\ pending' = [pending EXCEPT ![s] = None]
  /\ Forgets(s)
  /\ closing' = IF s \in peers THEN s ELSE None
  /\ UNCHANGED <<pc, player, cleanup, managed>>

CloseReturns(s) ==
  /\ closing = s
  /\ closing' = None
  /\ ViewerLeaves
  /\ CleanupScheduled
  /\ MayAnnounce(s, {})
  /\ UNCHANGED <<pc, peers, pending, player, outside>>

\* close_webrtc_session
PageCloses(s) ==
  /\ browser[s] = "open"
  /\ browser' = [browser EXCEPT ![s] = "closed"]
  /\ Asks(s, "page")
  /\ UNCHANGED <<pc, closing, peers, pending, player, cleanup, sent, reached, managed>>

\* mutant: the state change is only logged
PeerFailureLogged(s) == Ready(s) /\ UNCHANGED vars

\* connection_state_changed: the peer cannot connect, or has lost its browser
PeerFails(s) ==
  /\ Ready(s)
  /\ Asks(s, "peer")
  /\ UNCHANGED <<pc, closing, peers, pending, player, cleanup, outside, managed>>

-----------------------------------------------------------------------------
(* The player's clean-up, ten seconds after the last peer has gone *)

\* the grace period is over; the task waits for the lock
GraceEnds ==
  /\ cleanup = "sleeping"
  /\ cleanup' = "waiting"
  /\ UNCHANGED <<pc, asked, closing, peers, pending, player, outside, managed>>

CleanupRuns ==
  /\ cleanup = "waiting" /\ LockFree
  /\ cleanup' = IF peers = {} /\ player THEN "cleaning" ELSE "none"
  /\ UNCHANGED <<pc, asked, closing, peers, pending, player, outside, managed>>

\* the task that drains the player is gone
CleanupFinishes ==
  /\ cleanup = "cleaning"
  /\ cleanup' = "none"
  /\ player' = FALSE
  /\ UNCHANGED <<pc, asked, closing, peers, pending, outside, managed>>

-----------------------------------------------------------------------------
(* The manager: a reconnect drops the session and makes another *)

SessionDropped ==
  /\ session
  /\ session' = FALSE /\ viewers' = 0 /\ replaced' = TRUE
  /\ UNCHANGED <<pc, asked, closing, peers, pending, player, cleanup, outside>>

SessionMade ==
  /\ ~session
  /\ session' = TRUE
  /\ UNCHANGED <<pc, asked, closing, peers, pending, player, cleanup, outside,
                 viewers, replaced>>

-----------------------------------------------------------------------------
AnswerGoesOn(s) ==
  \/ StartFails(s) \/ StartReturns(s) \/ PlayerReady(s) \/ PlayerMissing(s)
  \/ Described(s) \/ Answered(s) \/ AnswerFails(s) \/ AnswerFailed(s)

CloseEntersFor(s) == \E caller \in Callers : CloseEnters(s, caller)

Next ==
  \/ \E s \in Sessions :
       \/ Offer(s) \/ AnswerEnters(s) \/ AnswerGoesOn(s) \/ AddCandidate(s)
       \/ CloseEntersFor(s) \/ CloseReturns(s) \/ PageCloses(s) \/ PeerFails(s)
  \/ GraceEnds \/ CleanupRuns \/ CleanupFinishes
  \/ SessionDropped \/ SessionMade

Spec == Init /\ [][Next]_vars

(* Every await under the lock is bounded and the lock is FIFO; the library  *)
(* notices that nobody answers at the addresses of a browser that has gone, *)
(* or that there are none.  A peer that goes on waiting for an address may  *)
(* do so for ever: nothing is assumed of it, nor of browsers and manager.   *)
Fairness ==
  /\ \A s \in Sessions :
       /\ WF_vars(AnswerGoesOn(s)) /\ SF_vars(AnswerEnters(s))
       /\ SF_vars(CloseEntersFor(s)) /\ WF_vars(CloseReturns(s))
       /\ WF_vars(browser[s] = "closed" /\ reached[s] /\ PeerFails(s))
  /\ WF_vars(GraceEnds) /\ SF_vars(CleanupRuns) /\ WF_vars(CleanupFinishes)

FairSpec == Spec /\ Fairness

-----------------------------------------------------------------------------
\* The session counts each browser once, from the creation of its peer until
\* that peer is closed, on whichever of the ways out: this is what README.md
\* ("ten seconds after the final viewer disconnects") rests on.  A session made
\* by a reconnect counts at most the browsers there are.
CountedOnce ==
  LET there == Cardinality(peers) + (IF closing = None THEN 0 ELSE 1)
  IN viewers <= there /\ (~replaced => viewers = there)

\* No browser loses the player it is being connected to: the clean-up of an
\* earlier viewer's player never overtakes an answer.
WatchedPlayerKept == peers # {} => player

\* tests/test_webrtc.py: "Trickled candidates must survive until the peer has
\* its offer".  None that was queued on the way is left behind by the answer.
EarlyCandidatesReachPeer ==
  \A s \in Sessions : Ready(s) => pending[s] = None

\* A peer whose browser has gone is forgotten, if its close is still to come or
\* it has addresses to try, also when the browser went before its answer.  (With
\* neither it stays: webrtc.py:180 has dropped the candidates, and nothing in the
\* repository ends the wait for others.)
ClosedBrowserForgotten ==
  \A s \in Sessions :
    browser[s] = "closed" /\ s \in peers /\ (reached[s] \/ asked[s] # {})
      ~> s \notin peers

\* A player nobody watches is released, unless somebody comes to watch it.
IdlePlayerReleased == (player /\ peers = {}) ~> (~player \/ peers # {})

=============================================================================
