-------------------------- MODULE WebRTCBridge_proofs --------------------------
(***************************************************************************)
(* Theorems about WebRTCBridge, for any finite number of browsers, any      *)
(* limit of the queue and any number of candidates.                         *)
(***************************************************************************)
EXTENDS WebRTCBridge, FiniteSetTheorems, TLAPS

Types ==
  /\ pc \in [Sessions -> Stages]
  /\ asked \in [Sessions -> SUBSET Callers]
  /\ closing \in Sessions \cup {None}
  /\ peers \subseteq Sessions
  /\ pending \in [Sessions -> 0 .. MaxPending \cup {None}]
  /\ player \in BOOLEAN
  /\ cleanup \in {"none", "sleeping", "waiting", "cleaning"}
  /\ browser \in [Sessions -> {"new", "open", "closed"}]
  /\ sent \in [Sessions -> 0 .. MaxCandidates]
  /\ reached \in [Sessions -> BOOLEAN]
  /\ session \in BOOLEAN /\ replaced \in BOOLEAN
  /\ viewers \in Nat

(* At most one of the tasks of offers, close and clean-up holds the lock.    *)
LockInv ==
  /\ \A s, t \in Sessions : pc[s] \in HoldsLock /\ pc[t] \in HoldsLock => s = t
  /\ closing # None \/ cleanup = "cleaning" => \A s \in Sessions : pc[s] \notin HoldsLock
  /\ closing # None => cleanup # "cleaning"

(* Who has a peer: nobody before its offer is answered, whoever is being     *)
(* answered, nobody who is being closed; and while there are peers there is  *)
(* a player.                                                                *)
PeerInv ==
  /\ \A s \in Sessions : browser[s] = "new" => pc[s] = "out" /\ s \notin peers
  /\ \A s \in Sessions : pc[s] \in {"starting", "queued", "readying", "failing"} => s \notin peers
  /\ \A s \in Sessions : pc[s] \in {"describing", "answering"} => s \in peers
  /\ closing \notin peers
  /\ cleanup = "cleaning" => peers = {}
  /\ WatchedPlayerKept
  /\ EarlyCandidatesReachPeer

There == Cardinality(peers) + (IF closing = None THEN 0 ELSE 1)

CountInv ==
  /\ viewers <= There /\ (~replaced => viewers = There)
  /\ ~session => replaced /\ viewers = 0

IInv == Types /\ LockInv /\ PeerInv /\ CountInv

-----------------------------------------------------------------------------
(* Types *)

LEMMA Sizes ==
  ASSUME Types
  PROVE  /\ IsFiniteSet(peers) /\ Cardinality(peers) \in Nat
         /\ \A s \in Sessions :
              /\ Cardinality(peers \cup {s}) = IF s \in peers THEN Cardinality(peers) ELSE Cardinality(peers) + 1
              /\ Cardinality(peers \ {s}) = IF s \in peers THEN Cardinality(peers) - 1 ELSE Cardinality(peers)
              /\ s \in peers => Cardinality(peers) >= 1
<1>1. IsFiniteSet(peers)
  BY BridgeAssumption, FS_Subset DEF Types
<1>2. Cardinality(peers) \in Nat
  BY <1>1, FS_CardinalityType
<1>3. ASSUME NEW s \in Sessions
      PROVE  /\ Cardinality(peers \cup {s}) = IF s \in peers THEN Cardinality(peers) ELSE Cardinality(peers) + 1
             /\ Cardinality(peers \ {s}) = IF s \in peers THEN Cardinality(peers) - 1 ELSE Cardinality(peers)
  BY <1>1, FS_AddElement, FS_RemoveElement
<1>4. ASSUME NEW s \in peers PROVE Cardinality(peers) >= 1
  BY <1>1, <1>2, FS_EmptySet
<1>5. QED
  BY <1>1, <1>2, <1>3, <1>4

LEMMA StepTypes ==
  ASSUME Types, [Next]_vars
  PROVE  Types'
<1> USE BridgeAssumption DEF Types, outside, managed, At, Asks, Callers, Stages, HoldsLock
<1>1. ASSUME NEW s \in Sessions, Offer(s) PROVE Types'
  BY <1>1 DEF Offer
<1>2. ASSUME NEW s \in Sessions, StartFails(s) \/ StartReturns(s) PROVE Types'
  BY <1>2 DEF StartFails, StartReturns
<1>3. ASSUME NEW s \in Sessions, AnswerEnters(s) PROVE Types'
  BY <1>3 DEF AnswerEnters, Registered, ViewerJoins
<1>4. ASSUME NEW s \in Sessions, PlayerReady(s) PROVE Types'
  BY <1>4 DEF PlayerReady, Registered, ViewerJoins
<1>5. ASSUME NEW s \in Sessions, PlayerMissing(s) \/ Answered(s) PROVE Types'
  BY <1>5 DEF PlayerMissing, Answered
<1>6. ASSUME NEW s \in Sessions, Described(s) PROVE Types'
  <2>1. reached' \in [Sessions -> BOOLEAN]
    BY <1>6 DEF Described, MayReach
  <2>2. QED
    BY <1>6, <2>1 DEF Described
<1>7. ASSUME NEW s \in Sessions, AnswerFails(s) PROVE Types'
  BY <1>7 DEF AnswerFails, Forgets, ViewerLeaves
<1>8. ASSUME NEW s \in Sessions, AnswerFailed(s) PROVE Types'
  BY <1>8 DEF AnswerFailed, CleanupScheduled, MayAnnounce
<1>9. ASSUME NEW s \in Sessions, AddCandidate(s) PROVE Types'
  <2>1. pending' \in [Sessions -> 0 .. MaxPending \cup {None}]
    <3>1. CASE UNCHANGED pending
      BY <3>1
    <3>2. CASE Queued(s)
      <4> DEFINE held == IF pending[s] = None THEN 0 ELSE pending[s]
                 new == IF held < MaxPending THEN held + 1 ELSE held
      <4>1. held \in 0 .. MaxPending
        OBVIOUS
      <4>2. new \in 0 .. MaxPending
        BY <4>1
      <4>3. pending' = [pending EXCEPT ![s] = new]
        BY <3>2 DEF Queued
      <4> HIDE DEF new
      <4>4. QED
        BY <4>2, <4>3
    <3>3. QED
      BY <1>9, <3>1, <3>2 DEF AddCandidate
  <2>2. sent' \in [Sessions -> 0 .. MaxCandidates]
    <3>1. sent' = [sent EXCEPT ![s] = sent[s] + 1] /\ sent[s] \in 0 .. MaxCandidates /\ sent[s] < MaxCandidates
      BY <1>9 DEF AddCandidate
    <3>2. sent[s] + 1 \in 0 .. MaxCandidates
      BY <3>1
    <3>3. QED
      BY <3>1, <3>2
  <2>3. reached' \in [Sessions -> BOOLEAN]
    BY <1>9 DEF AddCandidate, MayReach
  <2>4. QED
    BY <1>9, <2>1, <2>2, <2>3 DEF AddCandidate
<1>10. ASSUME NEW s \in Sessions, NEW caller \in Callers, CloseEnters(s, caller) PROVE Types'
  BY <1>10 DEF CloseEnters, Forgets
<1>11. ASSUME NEW s \in Sessions, CloseReturns(s) PROVE Types'
  BY <1>11 DEF CloseReturns, ViewerLeaves, CleanupScheduled, MayAnnounce
<1>12. ASSUME NEW s \in Sessions, PageCloses(s) \/ PeerFails(s) PROVE Types'
  BY <1>12 DEF PageCloses, PeerFails
<1>13. CASE GraceEnds \/ CleanupRuns \/ CleanupFinishes
  BY <1>13 DEF GraceEnds, CleanupRuns, CleanupFinishes
<1>14. CASE SessionDropped \/ SessionMade
  <2>1. session' \in BOOLEAN /\ replaced' \in BOOLEAN /\ viewers' \in Nat
    <3>1. CASE SessionDropped
      <4>1. session' = FALSE /\ replaced' = TRUE /\ viewers' = 0
        BY <3>1 DEF SessionDropped
      <4>2. QED
        BY <4>1
    <3>2. CASE SessionMade
      <4>1. session' = TRUE /\ replaced' = replaced /\ viewers' = viewers
        BY <3>2 DEF SessionMade
      <4>2. QED
        BY <4>1
    <3>3. QED
      BY <1>14, <3>1, <3>2
  <2>2. UNCHANGED <<pc, asked, closing, peers, pending, player, cleanup, browser, sent, reached>>
    BY <1>14 DEF SessionDropped, SessionMade
  <2>3. QED
    BY <2>1, <2>2
<1>15. CASE UNCHANGED vars
  BY <1>15 DEF vars
<1>16. QED
  BY <1>1, <1>2, <1>3, <1>4, <1>5, <1>6, <1>7, <1>8, <1>9, <1>10, <1>11, <1>12, <1>13, <1>14, <1>15
  DEF Next, AnswerGoesOn, CloseEntersFor

-----------------------------------------------------------------------------
(* The lock, the peers and the count *)

LEMMA StepLock ==
  ASSUME Types, LockInv, [Next]_vars
  PROVE  LockInv'
<1> USE DEF Types, LockInv, outside, managed, At, HoldsLock
<1>1. ASSUME NEW s \in Sessions, Offer(s) PROVE LockInv'
  BY <1>1 DEF Offer
<1>2. ASSUME NEW s \in Sessions, StartFails(s) \/ StartReturns(s) PROVE LockInv'
  BY <1>2 DEF StartFails, StartReturns
<1>3. ASSUME NEW s \in Sessions, AnswerEnters(s) PROVE LockInv'
  BY <1>3 DEF AnswerEnters, Registered, LockFree
<1>4. ASSUME NEW s \in Sessions, PlayerReady(s) PROVE LockInv'
  BY <1>4 DEF PlayerReady, Registered
<1>5. ASSUME NEW s \in Sessions, PlayerMissing(s) \/ Described(s) \/ Answered(s) \/ AnswerFails(s) PROVE LockInv'
  BY <1>5 DEF PlayerMissing, Described, Answered, AnswerFails
<1>6. ASSUME NEW s \in Sessions, AnswerFailed(s) PROVE LockInv'
  BY <1>6 DEF AnswerFailed, CleanupScheduled
<1>7. ASSUME NEW s \in Sessions, AddCandidate(s) \/ PageCloses(s) \/ PeerFails(s) PROVE LockInv'
  BY <1>7 DEF AddCandidate, PageCloses, PeerFails
<1>8. ASSUME NEW s \in Sessions, NEW caller \in Callers, CloseEnters(s, caller) PROVE LockInv'
  BY <1>8 DEF CloseEnters, LockFree
<1>9. ASSUME NEW s \in Sessions, CloseReturns(s) PROVE LockInv'
  BY <1>9 DEF CloseReturns, CleanupScheduled
<1>10. CASE GraceEnds \/ CleanupRuns \/ CleanupFinishes
  BY <1>10 DEF GraceEnds, CleanupRuns, CleanupFinishes, LockFree
<1>11. CASE SessionDropped \/ SessionMade \/ UNCHANGED vars
  BY <1>11 DEF SessionDropped, SessionMade, vars
<1>12. QED
  BY <1>1, <1>2, <1>3, <1>4, <1>5, <1>6, <1>7, <1>8, <1>9, <1>10, <1>11
  DEF Next, AnswerGoesOn, CloseEntersFor

LEMMA StepPeers ==
  ASSUME Types, LockInv, PeerInv, [Next]_vars
  PROVE  PeerInv'
<1> USE BridgeAssumption DEF Types, LockInv, PeerInv, WatchedPlayerKept, EarlyCandidatesReachPeer, Ready,
      outside, managed, At, HoldsLock
<1>1. ASSUME NEW s \in Sessions, Offer(s) PROVE PeerInv'
  BY <1>1 DEF Offer
<1>2. ASSUME NEW s \in Sessions, StartFails(s) \/ StartReturns(s) PROVE PeerInv'
  BY <1>2 DEF StartFails, StartReturns
<1>3. ASSUME NEW s \in Sessions, AnswerEnters(s) PROVE PeerInv'
  BY <1>3 DEF AnswerEnters, Registered, LockFree
<1>4. ASSUME NEW s \in Sessions, PlayerReady(s) PROVE PeerInv'
  BY <1>4 DEF PlayerReady, Registered
<1>5. ASSUME NEW s \in Sessions, PlayerMissing(s) \/ Described(s) \/ Answered(s) PROVE PeerInv'
  BY <1>5 DEF PlayerMissing, Described, Answered
<1>6. ASSUME NEW s \in Sessions, AnswerFails(s) PROVE PeerInv'
  BY <1>6 DEF AnswerFails, Forgets
<1>7. ASSUME NEW s \in Sessions, AnswerFailed(s) PROVE PeerInv'
  BY <1>7 DEF AnswerFailed, CleanupScheduled
<1>8. ASSUME NEW s \in Sessions, AddCandidate(s) PROVE PeerInv'
  BY <1>8 DEF AddCandidate, Queued
<1>9. ASSUME NEW s \in Sessions, PageCloses(s) \/ PeerFails(s) PROVE PeerInv'
  BY <1>9 DEF PageCloses, PeerFails
<1>10. ASSUME NEW s \in Sessions, NEW caller \in Callers, CloseEnters(s, caller) PROVE PeerInv'
  BY <1>10 DEF CloseEnters, Forgets, LockFree
<1>11. ASSUME NEW s \in Sessions, CloseReturns(s) PROVE PeerInv'
  BY <1>11 DEF CloseReturns, CleanupScheduled
<1>12. CASE GraceEnds \/ CleanupRuns \/ CleanupFinishes
  BY <1>12 DEF GraceEnds, CleanupRuns, CleanupFinishes, LockFree
<1>13. CASE SessionDropped \/ SessionMade \/ UNCHANGED vars
  BY <1>13 DEF SessionDropped, SessionMade, vars
<1>14. QED
  BY <1>1, <1>2, <1>3, <1>4, <1>5, <1>6, <1>7, <1>8, <1>9, <1>10, <1>11, <1>12, <1>13
  DEF Next, AnswerGoesOn, CloseEntersFor

LEMMA StepCounts ==
  ASSUME Types, LockInv, PeerInv, CountInv, [Next]_vars
  PROVE  CountInv'
<1> USE BridgeAssumption, Sizes DEF CountInv, There
<1>1. viewers \in Nat /\ session \in BOOLEAN /\ replaced \in BOOLEAN
  BY DEF Types
<1>2. CASE UNCHANGED <<peers, closing, managed>>
  BY <1>2 DEF managed
<1>3. ASSUME NEW s \in Sessions, Registered(s), s \notin peers, UNCHANGED closing PROVE CountInv'
  BY <1>1, <1>3 DEF Registered, ViewerJoins
<1>4. ASSUME NEW s \in Sessions, AnswerEnters(s) PROVE CountInv'
  <2>1. s \notin peers
    BY <1>4 DEF AnswerEnters, PeerInv
  <2>2. QED
    BY <1>2, <1>3, <1>4, <2>1 DEF AnswerEnters
<1>5. ASSUME NEW s \in Sessions, PlayerReady(s) PROVE CountInv'
  <2>1. s \notin peers
    BY <1>5 DEF PlayerReady, PeerInv
  <2>2. QED
    BY <1>3, <1>5, <2>1 DEF PlayerReady
<1>6. ASSUME NEW s \in Sessions, AnswerFails(s) PROVE CountInv'
  <2>1. s \in peers
    BY <1>6 DEF AnswerFails, PeerInv
  <2>2. peers' = peers \ {s} /\ closing' = closing /\ ViewerLeaves
    BY <1>6 DEF AnswerFails, Forgets
  <2>3. QED
    BY <1>1, <2>1, <2>2 DEF ViewerLeaves
<1>7. ASSUME NEW s \in Sessions, NEW caller \in Callers, CloseEnters(s, caller) PROVE CountInv'
  <2>1. /\ closing = None /\ UNCHANGED <<session, viewers, replaced>>
        /\ peers' = peers \ {s} /\ closing' = IF s \in peers THEN s ELSE None
    BY <1>7 DEF CloseEnters, Forgets, LockFree, managed
  <2>2. There' = There
    <3>1. CASE s \in peers
      <4>1. closing' # None /\ Cardinality(peers') = Cardinality(peers) - 1
        BY <2>1, <3>1
      <4>2. Cardinality(peers) \in Nat
        OBVIOUS
      <4>3. QED
        BY <2>1, <4>1, <4>2
    <3>2. CASE s \notin peers
      BY <2>1, <3>2
    <3>3. QED
      BY <3>1, <3>2
  <2>3. QED
    BY <2>1, <2>2
<1>8. ASSUME NEW s \in Sessions, CloseReturns(s) PROVE CountInv'
  <2>1. closing = s /\ closing' = None /\ peers' = peers /\ ViewerLeaves
    BY <1>8 DEF CloseReturns
  <2>2. QED
    BY <1>1, <2>1 DEF ViewerLeaves
<1>9. CASE SessionDropped \/ SessionMade
  BY <1>1, <1>9 DEF SessionDropped, SessionMade
<1>10. QED
  BY <1>2, <1>4, <1>5, <1>6, <1>7, <1>8, <1>9
  DEF Next, vars, AnswerGoesOn, CloseEntersFor, Offer, StartFails, StartReturns, PlayerMissing, Described,
      Answered, AnswerFailed, AddCandidate, PageCloses, PeerFails, GraceEnds, CleanupRuns, CleanupFinishes

-----------------------------------------------------------------------------
(* The invariant *)

LEMMA InvInit == Init => IInv
<1> SUFFICES ASSUME Init PROVE IInv
  OBVIOUS
<1> USE BridgeAssumption DEF Init
<1>1. 0 \in 0 .. MaxCandidates /\ None \in 0 .. MaxPending \cup {None}
  OBVIOUS
<1>2. Types
  BY <1>1 DEF Types, Stages
<1>3. LockInv
  BY DEF LockInv, HoldsLock
<1>4. PeerInv
  BY DEF PeerInv, WatchedPlayerKept, EarlyCandidatesReachPeer, Ready
<1>5. CountInv
  BY FS_EmptySet DEF CountInv, There
<1>6. QED
  BY <1>2, <1>3, <1>4, <1>5 DEF IInv

LEMMA InvStep == IInv /\ [Next]_vars => IInv'
BY StepTypes, StepLock, StepPeers, StepCounts DEF IInv

LEMMA InvAlways == Spec => []IInv
BY InvInit, InvStep, PTL DEF Spec

-----------------------------------------------------------------------------
(* Theorems *)

(* The bridge's tables keep their types; in particular no queue of candidates *)
(* exceeds its limit, and no more viewers are counted than there are browsers. *)
THEOREM TypeCorrect == Spec => []TypeOK
<1>1. ASSUME IInv PROVE TypeOK
  <2>1. There <= Cardinality(Sessions) /\ There \in Nat
    <3>1. IsFiniteSet(Sessions) /\ Cardinality(peers) \in Nat
      BY <1>1, Sizes, BridgeAssumption DEF IInv
    <3>2. CASE closing = None
      <4>1. Cardinality(peers) <= Cardinality(Sessions)
        BY <1>1, <3>1, FS_Subset DEF IInv, Types
      <4>2. QED
        BY <3>1, <3>2, <4>1 DEF There
    <3>3. CASE closing # None
      <4>1. closing \in Sessions /\ closing \notin peers /\ peers \cup {closing} \subseteq Sessions
        BY <1>1, <3>3 DEF IInv, Types, PeerInv
      <4>2. Cardinality(peers \cup {closing}) = Cardinality(peers) + 1
        BY <1>1, <4>1, Sizes DEF IInv
      <4>3. Cardinality(peers \cup {closing}) <= Cardinality(Sessions)
        BY <3>1, <4>1, FS_Subset
      <4>4. QED
        BY <3>1, <3>3, <4>2, <4>3 DEF There
    <3>4. QED
      BY <3>2, <3>3
  <2>2. viewers \in Nat /\ viewers <= There
    BY <1>1 DEF IInv, Types, CountInv
  <2>3. Cardinality(Sessions) \in Nat
    BY BridgeAssumption, FS_CardinalityType
  <2>4. viewers \in 0 .. Cardinality(Sessions)
    BY <2>1, <2>2, <2>3
  <2>5. QED
    BY <1>1, <2>4 DEF IInv, Types, TypeOK
<1>2. QED
  BY <1>1, InvAlways, PTL

(* _viewer_changed: each browser counts once as a viewer from the creation of *)
(* its peer until that peer is closed, whichever way out it takes.           *)
THEOREM ViewersCountedOnce == Spec => []CountedOnce
<1>1. IInv => CountedOnce
  BY DEF IInv, CountInv, There, CountedOnce
<1>2. QED
  BY <1>1, InvAlways, PTL

(* _schedule_player_cleanup against answer: no browser that is connected, or *)
(* being connected, loses the player.                                       *)
THEOREM PlayerAlwaysKept == Spec => []WatchedPlayerKept
<1>1. IInv => WatchedPlayerKept
  BY DEF IInv, PeerInv
<1>2. QED
  BY <1>1, InvAlways, PTL

(* add_candidate against answer: no candidate that came early stays queued   *)
(* once the peer has its offer.                                             *)
THEOREM CandidatesReachPeer == Spec => []EarlyCandidatesReachPeer
<1>1. IInv => EarlyCandidatesReachPeer
  BY DEF IInv, PeerInv
<1>2. QED
  BY <1>1, InvAlways, PTL

=============================================================================
