------------------------ MODULE MicrophoneUplink_proofs ------------------------
(***************************************************************************)
(* Theorems about MicrophoneUplink, for any number of cards and clicks.     *)
(***************************************************************************)
EXTENDS MicrophoneUplink, TLAPS

Types == TypeOK /\ inbox \in [Cards -> Seq(Replies)]

Held(t) == pc[t] \notin Unlocked

(* At most one task holds the uplink's lock. *)
LockInv == \A t, u \in Tasks : Held(t) /\ Held(u) => t = u

(* Whose peer is forwarded, and what the holder of the lock may rely on.     *)
OwnInv ==
  /\ task # NoPeer => task = peer /\ owner = by[peer]
  /\ mic => task # NoPeer
  /\ \A t \in Tasks : pc[t] \in {"closing", "givingUp"} => task = NoPeer
  /\ \A n \in Clicks :
       /\ pc[Negotiation(n)] # "out" => by[n] # None
       /\ pc[Negotiation(n)] = "offering" => task = NoPeer /\ peer = n /\ owner = by[n]
       /\ pc[Negotiation(n)] = "enabling" => task = n
  /\ peer # NoPeer => by[peer] # None

(* A reply to a negotiation is alone of its kind, and finds the card waiting *)
(* for it, as does the negotiation itself unless the page is gone.          *)
ReplyInv ==
  \A c \in Cards : \A n \in Clicks : \A i \in DOMAIN inbox[c] :
    inbox[c][i].to = n =>
      /\ by[n] = c /\ tab[n] = "offered" /\ pc[Negotiation(n)] = "out"
      /\ \A j \in DOMAIN inbox[c] : inbox[c][j].to = n => j = i

CardInv ==
  /\ \A c \in Cards : /\ c \in gone => inbox[c] = <<>>
                      /\ shown[c] # NoPeer => tab[shown[c]] = "on" /\ by[shown[c]] = c
  /\ \A n \in Clicks :
       /\ by[n] = None => tab[n] = "none"
       /\ pc[Negotiation(n)] # "out" =>
            tab[n] = "offered" \/ (tab[n] = "aborted" /\ by[n] \in gone)

Acknowledges(reply) == reply.to = NoPeer /\ reply.ok

(* An acknowledgement that is still on the way to the card whose track is    *)
(* forwarded was sent before that track: it arrives before the reply to the *)
(* track's negotiation, and so is about an earlier track.                   *)
CaptureInv ==
  task # NoPeer =>
    /\ tab[task] # "acknowledged"
    /\ \A c \in Cards : by[task] = c =>
         \A i \in DOMAIN inbox[c] : Acknowledges(inbox[c][i]) =>
           /\ tab[task] = "offered"
           /\ \A j \in 1 .. i : inbox[c][j].to # task

CapInv == ReplyInv /\ CardInv /\ CaptureInv

-----------------------------------------------------------------------------
(* Tasks and their stages *)

LEMMA TaskFacts ==
  /\ EndCommand \in Tasks
  /\ \A c \in Cards : Disable(c) \in Tasks /\ Disable(c) # EndCommand
  /\ \A n \in Clicks :
       /\ Negotiation(n) \in Tasks /\ Handler(n) \in Tasks
       /\ Negotiation(n) # EndCommand /\ Handler(n) # EndCommand
       /\ \A m \in Clicks : Negotiation(n) # Handler(m) /\ (Negotiation(n) = Negotiation(m) => n = m)
       /\ \A c \in Cards : Negotiation(n) # Disable(c) /\ Handler(n) # Disable(c)
BY DEF Tasks, EndCommand, Disable, Negotiation, Handler

LEMMA ClickFacts == NoPeer \notin Clicks /\ Clicks \subseteq Nat
BY UplinkAssumption DEF Clicks, NoPeer

(* A task that holds the lock, or takes it while it is free, or gives it back, *)
(* goes to another stage; a peer that it closed may have queued its handler.  *)
LEMMA PcMoves ==
  ASSUME pc \in [Tasks -> Stages], LockInv, NEW t \in Tasks, NEW stage \in Stages, NEW h,
         Held(t) \/ LockFree \/ stage \in Unlocked,
         \/ pc' = [pc EXCEPT ![t] = stage]
         \/ Held(t) /\ pc' = [[pc EXCEPT ![t] = stage] EXCEPT ![h] = "queued"]
  PROVE  /\ pc' \in [Tasks -> Stages] /\ LockInv'
         /\ pc'[t] = stage \/ (t = h /\ pc'[t] = "queued")
         /\ \A u \in Tasks : u # t => pc'[u] = pc[u] \/ (u = h /\ pc'[u] = "queued")
<1>1. "queued" \in Stages
  BY DEF Stages
<1>2. pc' \in [Tasks -> Stages]
  BY <1>1
<1>3. pc'[t] = stage \/ (t = h /\ pc'[t] = "queued")
  OBVIOUS
<1>4. \A u \in Tasks : u # t => pc'[u] = pc[u] \/ (u = h /\ pc'[u] = "queued")
  OBVIOUS
<1>5. ASSUME NEW u \in Tasks, u # t, Held(u)' PROVE Held(u)
  BY <1>4, <1>5 DEF Held, Unlocked
<1>6. ASSUME NEW u \in Tasks, u # t, Held(u)' PROVE ~Held(t)'
  <2>1. Held(u)
    BY <1>5, <1>6
  <2>2. ~Held(t) /\ ~LockFree
    BY <1>6, <2>1 DEF LockInv, Held, Unlocked, LockFree
  <2>3. stage \in Unlocked
    BY <2>2
  <2>4. QED
    BY <1>3, <2>3 DEF Held, Unlocked
<1>7. LockInv'
  <2>1. SUFFICES ASSUME NEW u \in Tasks, NEW w \in Tasks, Held(u)', Held(w)' PROVE u = w
    BY DEF LockInv
  <2>2. CASE u = t \/ w = t
    BY <1>6, <2>1, <2>2
  <2>3. CASE u # t /\ w # t
    BY <1>5, <2>1, <2>3 DEF LockInv
  <2>4. QED
    BY <2>2, <2>3
<1>8. QED
  BY <1>2, <1>3, <1>4, <1>7

(* The same for one who has the lock: nobody else holds it afterwards.      *)
LEMMA HolderMoves ==
  ASSUME pc \in [Tasks -> Stages], LockInv, NEW t \in Tasks, NEW stage \in Stages,
         Held(t) \/ LockFree,
         \/ At(t, stage)
         \/ Held(t) /\ ClosedPeer(t, stage)
  PROVE  /\ pc' \in [Tasks -> Stages] /\ LockInv'
         /\ \A u \in Tasks : u # t => ~Held(u)'
         /\ pc'[t] \in {stage, "queued"}
         /\ \A n \in Clicks :
              Negotiation(n) # t => (pc'[Negotiation(n)] # "out" => pc[Negotiation(n)] # "out")
<1>1. \/ pc' = [pc EXCEPT ![t] = stage]
      \/ Held(t) /\ pc' = [[pc EXCEPT ![t] = stage] EXCEPT ![Handler(peer)] = "queued"]
  BY DEF At, ClosedPeer
<1>2. /\ pc' \in [Tasks -> Stages] /\ LockInv'
      /\ pc'[t] = stage \/ (t = Handler(peer) /\ pc'[t] = "queued")
      /\ \A u \in Tasks : u # t => pc'[u] = pc[u] \/ (u = Handler(peer) /\ pc'[u] = "queued")
  BY <1>1, PcMoves
<1>3. ASSUME NEW u \in Tasks, u # t PROVE ~Held(u)'
  <2>1. ~Held(u)
    BY <1>3 DEF LockInv, Held, Unlocked, LockFree
  <2>2. QED
    BY <1>2, <1>3, <2>1 DEF Held, Unlocked
<1>4. ASSUME NEW n \in Clicks, Negotiation(n) # t, pc'[Negotiation(n)] # "out"
      PROVE  pc[Negotiation(n)] # "out"
  <2>1. Negotiation(n) # Handler(peer)
    BY DEF Negotiation, Handler
  <2>2. QED
    BY <1>2, <1>4, <2>1, TaskFacts
<1>5. QED
  BY <1>2, <1>3, <1>4

LEMMA OwnFromHolder ==
  ASSUME OwnInv, NEW t \in Tasks, \A u \in Tasks : u # t => ~Held(u)',
         \A n \in Clicks : pc'[Negotiation(n)] # "out" => pc[Negotiation(n)] # "out",
         by' = by,
         task' # NoPeer => task' = peer' /\ owner' = by[peer'],
         mic' => task' # NoPeer,
         pc'[t] \in {"closing", "givingUp"} => task' = NoPeer,
         \A n \in Clicks : t = Negotiation(n) =>
           /\ pc'[t] = "offering" => task' = NoPeer /\ peer' = n /\ owner' = by[n]
           /\ pc'[t] = "enabling" => task' = n,
         peer' # NoPeer => by[peer'] # None
  PROVE  OwnInv'
<1>1. \A u \in Tasks : pc'[u] \in {"closing", "givingUp"} => task' = NoPeer
  BY DEF Held, Unlocked
<1>2. ASSUME NEW n \in Clicks
      PROVE  /\ pc'[Negotiation(n)] # "out" => by'[n] # None
             /\ pc'[Negotiation(n)] = "offering" => task' = NoPeer /\ peer' = n /\ owner' = by'[n]
             /\ pc'[Negotiation(n)] = "enabling" => task' = n
  <2>1. Negotiation(n) \in Tasks
    BY TaskFacts
  <2>2. pc'[Negotiation(n)] # "out" => by'[n] # None
    BY DEF OwnInv
  <2>3. CASE Negotiation(n) = t
    BY <2>2, <2>3
  <2>4. CASE Negotiation(n) # t
    BY <2>1, <2>2, <2>4 DEF Held, Unlocked
  <2>5. QED
    BY <2>3, <2>4
<1>3. QED
  BY <1>1, <1>2 DEF OwnInv

LEMMA OwnOutside ==
  ASSUME Types, OwnInv, UNCHANGED uplink, mic' => mic,
         \A u \in Tasks : Held(u)' => pc'[u] = pc[u],
         \A n \in Clicks : /\ pc'[Negotiation(n)] # "out" => by'[n] # None
                           /\ by[n] # None => by'[n] = by[n]
  PROVE  OwnInv'
<1>1. peer' = peer /\ task' = task /\ owner' = owner
  BY DEF uplink
<1>2. peer # NoPeer => by'[peer] = by[peer] /\ by[peer] # None
  BY DEF OwnInv, Types, TypeOK
<1>3. \A t \in Tasks : pc'[t] \in {"closing", "givingUp"} => task' = NoPeer
  BY <1>1 DEF OwnInv, Held, Unlocked
<1>4. ASSUME NEW n \in Clicks
      PROVE  /\ pc'[Negotiation(n)] = "offering" => task' = NoPeer /\ peer' = n /\ owner' = by'[n]
             /\ pc'[Negotiation(n)] = "enabling" => task' = n
  <2>1. Negotiation(n) \in Tasks
    BY TaskFacts
  <2>2. pc'[Negotiation(n)] \in {"offering", "enabling"} => pc'[Negotiation(n)] = pc[Negotiation(n)]
    BY <2>1 DEF Held, Unlocked
  <2>3. QED
    BY <1>1, <2>2 DEF OwnInv
<1>5. task' # NoPeer => task' = peer' /\ owner' = by'[peer']
  BY <1>1, <1>2 DEF OwnInv
<1>6. mic' => task' # NoPeer
  BY <1>1 DEF OwnInv
<1>7. QED
  BY <1>1, <1>2, <1>3, <1>4, <1>5, <1>6 DEF OwnInv

(* _close_locked up to its first wait, by a task that has the lock. *)
LEMMA CloseBeginsKeeps ==
  ASSUME Types, LockInv, OwnInv, NEW t \in Tasks, NEW stage \in {"closing", "givingUp"},
         Held(t) \/ LockFree, pc[t] # "out", CloseBegins(t, stage)
  PROVE  LockInv' /\ OwnInv'
<1>1. /\ mic' = FALSE /\ task' = NoPeer /\ At(t, stage)
      /\ UNCHANGED <<owner, peer, by>>
  BY DEF CloseBegins, browser
<1>2. stage \in Stages /\ pc \in [Tasks -> Stages]
  BY DEF Stages, Types, TypeOK
<1>3. pc'[t] = stage
  BY <1>1, <1>2 DEF At
<1>4. /\ LockInv'
      /\ \A u \in Tasks : u # t => ~Held(u)'
      /\ \A n \in Clicks : Negotiation(n) # t => (pc'[Negotiation(n)] # "out" => pc[Negotiation(n)] # "out")
  BY <1>1, <1>2, HolderMoves
<1>5. \A n \in Clicks : pc'[Negotiation(n)] # "out" => pc[Negotiation(n)] # "out"
  BY <1>4
<1>6. peer' # NoPeer => by[peer'] # None
  BY <1>1 DEF OwnInv
<1>7. pc'[t] \notin {"offering", "enabling"}
  BY <1>3
<1>8. OwnInv'
  BY <1>1, <1>4, <1>5, <1>6, <1>7, OwnFromHolder
<1>9. QED
  BY <1>4, <1>8

(* A task that has the lock gives it back and leaves everything as it is.   *)
LEMMA LeavesKeeps ==
  ASSUME Types, LockInv, OwnInv, NEW t \in Tasks, NEW stage \in {"out", "hangingUp"},
         Held(t) \/ LockFree, pc[t] # "out", At(t, stage), UNCHANGED <<uplink, by>>, mic' => mic
  PROVE  LockInv' /\ OwnInv'
<1>1. stage \in Stages /\ pc \in [Tasks -> Stages]
  BY DEF Stages, Types, TypeOK
<1>2. pc'[t] = stage
  BY <1>1 DEF At
<1>3. /\ LockInv'
      /\ \A u \in Tasks : u # t => ~Held(u)'
      /\ \A n \in Clicks : Negotiation(n) # t => (pc'[Negotiation(n)] # "out" => pc[Negotiation(n)] # "out")
  BY <1>1, HolderMoves
<1>4. /\ task' = task /\ peer' = peer /\ owner' = owner
  BY DEF uplink
<1>5. OwnInv'
  BY <1>2, <1>3, <1>4, OwnFromHolder DEF OwnInv
<1>6. QED
  BY <1>3, <1>5

(* The rest of _close_locked. *)
LEMMA ClosedKeeps ==
  ASSUME Types, LockInv, OwnInv, NEW t \in Tasks, NEW stage \in {"out", "hangingUp"},
         pc[t] \in {"closing", "givingUp"}, Forgotten, ClosedPeer(t, stage), UNCHANGED <<task, by, sessionVars>>
  PROVE  LockInv' /\ OwnInv'
<1>1. stage \in Stages /\ pc \in [Tasks -> Stages] /\ Held(t)
  BY DEF Stages, Types, TypeOK, Held, Unlocked
<1>2. /\ LockInv'
      /\ \A u \in Tasks : u # t => ~Held(u)'
      /\ pc'[t] \in {stage, "queued"}
      /\ \A n \in Clicks : Negotiation(n) # t => (pc'[Negotiation(n)] # "out" => pc[Negotiation(n)] # "out")
  BY <1>1, HolderMoves
<1>3. /\ task' = NoPeer /\ peer' = NoPeer /\ ~mic'
  BY DEF Forgotten, OwnInv, sessionVars
<1>4. OwnInv'
  BY <1>2, <1>3, OwnFromHolder
<1>5. QED
  BY <1>2, <1>4

-----------------------------------------------------------------------------
(* Types *)

LEMMA ReplyTypes ==
  ASSUME Types, NEW c, NEW n \in {NoPeer} \cup Clicks, NEW ok \in BOOLEAN, Reply(c, n, ok)
  PROVE  inbox' \in [Cards -> Seq(Replies)]
<1>1. [to |-> n, ok |-> ok] \in Replies
  BY DEF Replies
<1>2. ASSUME NEW d \in Cards PROVE Append(inbox[d], [to |-> n, ok |-> ok]) \in Seq(Replies)
  BY <1>1 DEF Types
<1>3. QED
  BY <1>2 DEF Reply, Types

(* What a step may do to pc is typed by PcMoves, so that the rest is all     *)
(* that remains.                                                            *)
LEMMA TypesFrom ==
  ASSUME Types,
         streaming' \in BOOLEAN, mic' \in BOOLEAN,
         owner' \in Cards \cup {None},
         peer' \in {NoPeer} \cup Clicks, task' \in {NoPeer} \cup Clicks,
         pc' \in [Tasks -> Stages], by' \in [Clicks -> Cards \cup {None}],
         tab' \in [Clicks -> Tabs], shown' \in [Cards -> {NoPeer} \cup Clicks],
         inbox' \in [Cards -> Seq(Replies)], gone' \subseteq Cards
  PROVE  Types'
BY DEF Types, TypeOK

LEMMA MovesTypes ==
  ASSUME Types, NEW t, NEW stage \in Stages, At(t, stage) \/ ClosedPeer(t, stage)
  PROVE  pc' \in [Tasks -> Stages]
<1>1. "queued" \in Stages
  BY DEF Stages
<1>2. QED
  BY <1>1 DEF At, ClosedPeer, Types, TypeOK

LEMMA StepTypes ==
  ASSUME Types, [Next]_vars
  PROVE  Types'
<1>1. {"out", "queued", "closing", "givingUp", "offering", "enabling", "hangingUp"} \subseteq Stages
  BY DEF Stages
<1> USE DEF sessionVars, uplink, browser
<1>2. /\ streaming \in BOOLEAN /\ mic \in BOOLEAN
      /\ owner \in Cards \cup {None}
      /\ peer \in {NoPeer} \cup Clicks /\ task \in {NoPeer} \cup Clicks
      /\ pc \in [Tasks -> Stages] /\ by \in [Clicks -> Cards \cup {None}]
      /\ tab \in [Clicks -> Tabs] /\ shown \in [Cards -> {NoPeer} \cup Clicks]
      /\ inbox \in [Cards -> Seq(Replies)] /\ gone \subseteq Cards
  BY DEF Types, TypeOK
<1>3. ASSUME NEW t, NEW stage \in Stages, CloseBegins(t, stage), inbox' \in [Cards -> Seq(Replies)] PROVE Types'
  BY <1>2, <1>3, MovesTypes, TypesFrom DEF CloseBegins
<1>4. ASSUME NEW n \in Clicks, NegotiateRefused(n) \/ OfferFails(n) \/ MicrophoneRefused(n) PROVE Types'
  <2>1. pc' \in [Tasks -> Stages] /\ inbox' \in [Cards -> Seq(Replies)]
    BY <1>1, <1>4, MovesTypes, ReplyTypes DEF NegotiateRefused, OfferFails, MicrophoneRefused
  <2>2. UNCHANGED <<sessionVars, uplink, browser>>
    BY <1>4 DEF NegotiateRefused, OfferFails, MicrophoneRefused
  <2>3. QED
    BY <1>2, <2>1, <2>2, TypesFrom
<1>5. ASSUME NEW n \in Clicks, NegotiateBegins(n) PROVE Types'
  <2>1. inbox' \in [Cards -> Seq(Replies)]
    BY <1>2, <1>5 DEF NegotiateBegins
  <2>2. CASE CloseBegins(Negotiation(n), "closing")
    BY <1>1, <1>3, <2>1, <2>2
  <2>3. CASE TakesOver(n) /\ At(Negotiation(n), "offering") /\ UNCHANGED <<sessionVars, task, browser>>
    <3>1. pc' \in [Tasks -> Stages]
      BY <1>1, <2>3, MovesTypes
    <3>2. QED
      BY <1>2, <2>1, <2>3, <3>1, TypesFrom DEF TakesOver
  <2>4. QED
    BY <1>5, <2>2, <2>3 DEF NegotiateBegins
<1>6. ASSUME NEW n \in Clicks, PeerReplaced(n) PROVE Types'
  <2>1. pc' \in [Tasks -> Stages]
    BY <1>1, <1>6, MovesTypes DEF PeerReplaced
  <2>2. QED
    BY <1>2, <1>6, <2>1, TypesFrom DEF PeerReplaced, TakesOver
<1>7. ASSUME NEW n \in Clicks, TrackReceived(n) PROVE Types'
  <2>1. pc' \in [Tasks -> Stages]
    BY <1>1, <1>7, MovesTypes DEF TrackReceived
  <2>2. QED
    BY <1>2, <1>7, <2>1, TypesFrom DEF TrackReceived
<1>8. ASSUME NEW n \in Clicks, NoTrack(n) PROVE Types'
  BY <1>1, <1>2, <1>3, <1>8 DEF NoTrack
<1>9. ASSUME NEW n \in Clicks, GivesUp(n) PROVE Types'
  <2>1. pc' \in [Tasks -> Stages] /\ inbox' \in [Cards -> Seq(Replies)]
    BY <1>1, <1>9, MovesTypes, ReplyTypes DEF GivesUp
  <2>2. QED
    BY <1>2, <1>9, <2>1, TypesFrom DEF GivesUp, Forgotten
<1>10. ASSUME NEW n \in Clicks, MicrophoneEnabled(n) PROVE Types'
  <2>1. pc' \in [Tasks -> Stages] /\ inbox' \in [Cards -> Seq(Replies)]
    BY <1>1, <1>10, MovesTypes, ReplyTypes DEF MicrophoneEnabled
  <2>2. mic' = TRUE /\ UNCHANGED <<streaming, uplink, browser>>
    BY <1>10 DEF MicrophoneEnabled, MicrophoneSet
  <2>3. QED
    BY <1>2, <2>1, <2>2, TypesFrom
<1>11. ASSUME NEW n \in Clicks, HandlerRuns(n) PROVE Types'
  <2>1. inbox' \in [Cards -> Seq(Replies)]
    BY <1>2, <1>11 DEF HandlerRuns
  <2>2. CASE At(Handler(n), "out") /\ UNCHANGED <<sessionVars, uplink, browser>>
    <3>1. pc' \in [Tasks -> Stages]
      BY <1>1, <2>2, MovesTypes
    <3>2. QED
      BY <1>2, <2>1, <2>2, <3>1, TypesFrom
  <2>3. QED
    BY <1>1, <1>3, <1>11, <2>1, <2>2 DEF HandlerRuns
<1>12. ASSUME NEW n \in Clicks, HandlerCloses(n) PROVE Types'
  <2>1. pc' \in [Tasks -> Stages]
    BY <1>1, <1>12, MovesTypes DEF HandlerCloses
  <2>2. QED
    BY <1>2, <1>12, <2>1, TypesFrom DEF HandlerCloses, Forgotten
<1>13. ASSUME NEW c \in Cards, DisableRuns(c) PROVE Types'
  <2>1. CASE CloseBegins(Disable(c), "closing") /\ UNCHANGED inbox
    BY <1>1, <1>2, <1>3, <2>1
  <2>2. CASE /\ At(Disable(c), "out")
             /\ Reply(c, NoPeer, FALSE)
             /\ UNCHANGED <<sessionVars, uplink, browser>>
    <3>1. pc' \in [Tasks -> Stages] /\ inbox' \in [Cards -> Seq(Replies)]
      BY <1>1, <2>2, MovesTypes, ReplyTypes
    <3>2. QED
      BY <1>2, <2>2, <3>1, TypesFrom
  <2>3. QED
    BY <1>13, <2>1, <2>2 DEF DisableRuns
<1>14. ASSUME NEW c \in Cards, DisableCloses(c) PROVE Types'
  <2>1. pc' \in [Tasks -> Stages] /\ inbox' \in [Cards -> Seq(Replies)]
    BY <1>1, <1>14, MovesTypes, ReplyTypes DEF DisableCloses
  <2>2. QED
    BY <1>2, <1>14, <2>1, TypesFrom DEF DisableCloses, Forgotten
<1>15. CASE EndPressed
  <2>1. pc' \in [Tasks -> Stages]
    BY <1>1, <1>15, MovesTypes DEF EndPressed
  <2>2. QED
    BY <1>2, <1>15, <2>1, TypesFrom DEF EndPressed
<1>16. CASE EndRuns
  <2>1. inbox' \in [Cards -> Seq(Replies)]
    BY <1>2, <1>16 DEF EndRuns
  <2>2. CASE At(EndCommand, "hangingUp") /\ UNCHANGED <<sessionVars, uplink, browser>>
    <3>1. pc' \in [Tasks -> Stages]
      BY <1>1, <2>2, MovesTypes
    <3>2. QED
      BY <1>2, <2>1, <2>2, <3>1, TypesFrom
  <2>3. QED
    BY <1>1, <1>3, <1>16, <2>1, <2>2 DEF EndRuns
<1>17. CASE EndCloses
  <2>1. pc' \in [Tasks -> Stages]
    BY <1>1, <1>17, MovesTypes DEF EndCloses
  <2>2. QED
    BY <1>2, <1>17, <2>1, TypesFrom DEF EndCloses, Forgotten
<1>18. CASE EndEnds
  <2>1. pc' \in [Tasks -> Stages]
    BY <1>1, <1>18, MovesTypes DEF EndEnds
  <2>2. QED
    BY <1>2, <1>18, <2>1, TypesFrom DEF EndEnds
<1>19. ASSUME NEW c \in Cards, NEW n \in Clicks, ClickOn(c, n) PROVE Types'
  <2>1. pc' \in [Tasks -> Stages]
    BY <1>1, <1>19, MovesTypes DEF ClickOn
  <2>2. by' \in [Clicks -> Cards \cup {None}] /\ tab' \in [Clicks -> Tabs]
    BY <1>2, <1>19 DEF ClickOn, Tabs, Capturing
  <2>3. QED
    BY <1>2, <1>19, <2>1, <2>2, TypesFrom DEF ClickOn
<1>20. ASSUME NEW c \in Cards, ClickOff(c) PROVE Types'
  <2>1. pc' \in [Tasks -> Stages]
    BY <1>1, <1>20, MovesTypes DEF ClickOff
  <2>2. QED
    BY <1>2, <1>20, <2>1, TypesFrom DEF ClickOff
<1>21. ASSUME NEW c \in Cards, Receives(c) PROVE Types'
  <2>1. inbox[c] \in Seq(Replies) /\ inbox[c] # <<>> /\ inbox' = [inbox EXCEPT ![c] = Tail(inbox[c])]
    BY <1>2, <1>21 DEF Receives
  <2>2. Tail(inbox[c]) \in Seq(Replies)
    BY <2>1
  <2>3. inbox' \in [Cards -> Seq(Replies)]
    BY <1>2, <2>1, <2>2
  <2>4. tab' \in [Clicks -> Tabs] /\ shown' \in [Cards -> {NoPeer} \cup Clicks]
    <3> DEFINE reply == Head(inbox[c])
    <3>1. CASE DisableReplied(c, reply.ok)
      BY <1>2, <3>1 DEF DisableReplied, Tabs, Left
    <3>2. CASE NegotiateReplied(reply.to, reply.ok)
      BY <1>2, <3>2 DEF NegotiateReplied, Tabs, Capturing
    <3>3. QED
      BY <1>21, <3>1, <3>2 DEF Receives
  <2>5. QED
    BY <1>2, <1>21, <2>3, <2>4, TypesFrom DEF Receives
<1>22. ASSUME NEW n \in Clicks, Joins(n) \/ JoinFails(n) PROVE Types'
  <2>1. "on" \in Tabs /\ "aborted" \in Tabs
    BY DEF Tabs, Capturing
  <2>2. tab' \in [Clicks -> Tabs]
    BY <1>2, <1>22, <2>1 DEF Joins, JoinFails
  <2>3. shown' \in [Cards -> {NoPeer} \cup Clicks]
    <3>1. [shown EXCEPT ![by[n]] = n] \in [Cards -> {NoPeer} \cup Clicks]
      BY <1>2
    <3>2. QED
      BY <1>2, <1>22, <3>1 DEF Joins, JoinFails
  <2>4. QED
    BY <1>2, <1>22, <2>2, <2>3, TypesFrom DEF Joins, JoinFails
<1>23. ASSUME NEW c \in Cards, PageCloses(c) PROVE Types'
  <2>1. <<>> \in Seq(Replies)
    OBVIOUS
  <2>2. tab' \in [Clicks -> Tabs]
    BY <1>2, <1>23 DEF PageCloses, Tabs, Left, Capturing
  <2>3. /\ shown' \in [Cards -> {NoPeer} \cup Clicks]
        /\ inbox' \in [Cards -> Seq(Replies)] /\ gone' \subseteq Cards
    BY <1>2, <1>23, <2>1 DEF PageCloses
  <2>4. QED
    BY <1>2, <1>23, <2>2, <2>3, TypesFrom DEF PageCloses
<1>24. ASSUME NEW n \in Clicks, PeerFails(n) PROVE Types'
  <2>1. pc' \in [Tasks -> Stages]
    BY <1>1, <1>24, MovesTypes DEF PeerFails
  <2>2. QED
    BY <1>2, <1>24, <2>1, TypesFrom DEF PeerFails
<1>25. CASE SessionStep
  <2>1. streaming' \in BOOLEAN /\ mic' = FALSE
    BY <1>2, <1>25 DEF SessionStep, SessionMoves
  <2>2. QED
    BY <1>2, <1>25, <2>1, TypesFrom DEF SessionStep
<1>26. CASE UNCHANGED vars
  BY <1>2, <1>26, TypesFrom DEF vars
<1>27. QED
  BY <1>4, <1>5, <1>6, <1>7, <1>8, <1>9, <1>10, <1>11, <1>12, <1>13, <1>14, <1>15, <1>16, <1>17,
     <1>18, <1>19, <1>20, <1>21, <1>22, <1>23, <1>24, <1>25, <1>26
  DEF Next, NegotiateStep, HandlerStep, DisableStep, EndStep, ClickStep, CardStep

-----------------------------------------------------------------------------
(* The owner's track *)

LEMMA InvInit ==
  ASSUME Init
  PROVE  Types /\ LockInv /\ OwnInv
<1>1. "out" \in Stages /\ "none" \in Tabs
  BY DEF Stages, Tabs
<1>2. <<>> \in Seq(Replies)
  OBVIOUS
<1>3. TypeOK
  BY <1>1, <1>2 DEF Init, SessionInit, TypeOK
<1>4. inbox \in [Cards -> Seq(Replies)]
  BY <1>2 DEF Init
<1>5. LockInv
  BY DEF Init, LockInv, Held, Unlocked
<1>6. OwnInv
  <2>1. \A n \in Clicks : pc[Negotiation(n)] = "out"
    BY TaskFacts DEF Init
  <2>2. task = NoPeer /\ peer = NoPeer /\ ~mic
    BY DEF Init, SessionInit
  <2>3. QED
    BY <2>1, <2>2 DEF OwnInv, Init
<1>7. QED
  BY <1>3, <1>4, <1>5, <1>6 DEF Types

(* A task is queued or leaves without the lock, and nothing else that        *)
(* matters moves.                                                           *)
LEMMA OutsiderKeeps ==
  ASSUME Types, LockInv, OwnInv, NEW t \in Tasks, NEW stage \in {"out", "queued"},
         At(t, stage), UNCHANGED uplink, mic' => mic,
         \A n \in Clicks : /\ t = Negotiation(n) => by'[n] # None
                           /\ by[n] # None => by'[n] = by[n]
  PROVE  LockInv' /\ OwnInv'
<1>1. stage \in Stages /\ stage \in Unlocked /\ pc \in [Tasks -> Stages]
  BY DEF Stages, Unlocked, Types, TypeOK
<1>2. pc' = [pc EXCEPT ![t] = stage]
  BY DEF At
<1>3. LockInv'
  BY <1>1, <1>2, PcMoves
<1>4. \A u \in Tasks : Held(u)' => pc'[u] = pc[u]
  BY <1>1, <1>2 DEF Held, Unlocked
<1>5. ASSUME NEW n \in Clicks, pc'[Negotiation(n)] # "out" PROVE by'[n] # None
  <2>1. CASE t = Negotiation(n)
    BY <2>1
  <2>2. CASE t # Negotiation(n)
    <3>1. pc[Negotiation(n)] # "out"
      BY <1>1, <1>2, <1>5, <2>2, TaskFacts
    <3>2. QED
      BY <3>1 DEF OwnInv
  <2>3. QED
    BY <2>1, <2>2
<1>6. OwnInv'
  BY <1>4, <1>5, OwnOutside
<1>7. QED
  BY <1>3, <1>6

(* Nothing of the server moves, but the session may lose its microphone.    *)
LEMMA StaysKeeps ==
  ASSUME Types, LockInv, OwnInv, UNCHANGED <<uplink, pc, by>>, mic' => mic
  PROVE  LockInv' /\ OwnInv'
<1>1. LockInv'
  BY DEF LockInv, Held, Unlocked
<1>2. \A n \in Clicks : pc'[Negotiation(n)] # "out" => by'[n] # None
  BY DEF OwnInv
<1>3. OwnInv'
  BY <1>2, OwnOutside
<1>4. QED
  BY <1>1, <1>3

(* A negotiation goes on under the lock.                                    *)
LEMMA NegotiationKeeps ==
  ASSUME Types, LockInv, OwnInv, NEW n \in Clicks,
         NegotiateBegins(n) \/ PeerReplaced(n) \/ TrackReceived(n) \/ NoTrack(n)
         \/ GivesUp(n) \/ MicrophoneEnabled(n)
  PROVE  LockInv' /\ OwnInv'
<1> DEFINE t == Negotiation(n)
<1>1. t \in Tasks /\ pc \in [Tasks -> Stages] /\ n # NoPeer
  BY TaskFacts, ClickFacts DEF Types, TypeOK
<1>2. \A m \in Clicks : t = Negotiation(m) => m = n
  BY TaskFacts
<1>3. /\ NegotiateBegins(n) => LockFree /\ pc[t] = "queued"
      /\ ~NegotiateBegins(n) => Held(t)
  BY DEF NegotiateBegins, Enters, PeerReplaced, TrackReceived, NoTrack, GivesUp,
         MicrophoneEnabled, Held, Unlocked
<1>4. pc[t] # "out" /\ by[n] # None
  BY <1>3 DEF OwnInv, Held, Unlocked
<1>5. CASE \E stage \in {"closing", "givingUp"} : CloseBegins(t, stage)
  BY <1>1, <1>3, <1>4, <1>5, CloseBeginsKeeps
<1>6. CASE /\ TakesOver(n) /\ task = NoPeer /\ UNCHANGED <<sessionVars, task, browser>>
           /\ \/ At(t, "offering")
              \/ Held(t) /\ ClosedPeer(t, "offering")
  <2>1. owner' = by[n] /\ peer' = n /\ task' = NoPeer /\ by' = by /\ mic' = mic
    BY <1>6 DEF TakesOver, browser, sessionVars
  <2>2. /\ LockInv'
        /\ \A u \in Tasks : u # t => ~Held(u)'
        /\ pc'[t] \in {"offering", "queued"}
        /\ \A m \in Clicks : Negotiation(m) # t =>
             (pc'[Negotiation(m)] # "out" => pc[Negotiation(m)] # "out")
    <3>1. "offering" \in Stages
      BY DEF Stages
    <3>2. QED
      BY <1>1, <1>3, <1>6, <3>1, HolderMoves
  <2>3. \A m \in Clicks : pc'[Negotiation(m)] # "out" => pc[Negotiation(m)] # "out"
    BY <1>4, <2>2
  <2>4. ~mic'
    BY <1>6, <2>1 DEF OwnInv
  <2>5. OwnInv'
    BY <1>1, <1>2, <1>4, <2>1, <2>2, <2>3, <2>4, OwnFromHolder
  <2>6. QED
    BY <2>2, <2>5
<1>7. CASE NegotiateBegins(n)
  <2>1. CASE peer = NoPeer
    <3>1. task = NoPeer
      BY <2>1 DEF OwnInv
    <3>2. QED
      BY <1>6, <1>7, <2>1, <3>1 DEF NegotiateBegins
  <2>2. CASE peer # NoPeer
    BY <1>5, <1>7, <2>2 DEF NegotiateBegins
  <2>3. QED
    BY <2>1, <2>2
<1>8. CASE PeerReplaced(n)
  <2>1. task = NoPeer /\ Held(t)
    BY <1>1, <1>8 DEF PeerReplaced, OwnInv, Held, Unlocked
  <2>2. QED
    BY <1>6, <1>8, <2>1 DEF PeerReplaced
<1>9. CASE TrackReceived(n)
  <2>1. task' = n /\ peer' = peer /\ owner' = owner /\ by' = by /\ mic' = mic /\ At(t, "enabling")
    BY <1>9 DEF TrackReceived, browser, sessionVars
  <2>2. peer = n /\ owner = by[n]
    BY <1>9 DEF TrackReceived, OwnInv
  <2>3. "enabling" \in Stages /\ pc'[t] = "enabling" /\ Held(t)
    BY <1>1, <1>9, <2>1 DEF Stages, At, TrackReceived, Held, Unlocked
  <2>4. /\ LockInv'
        /\ \A u \in Tasks : u # t => ~Held(u)'
        /\ \A m \in Clicks : Negotiation(m) # t =>
             (pc'[Negotiation(m)] # "out" => pc[Negotiation(m)] # "out")
    BY <1>1, <2>1, <2>3, HolderMoves
  <2>5. \A m \in Clicks : pc'[Negotiation(m)] # "out" => pc[Negotiation(m)] # "out"
    BY <1>4, <2>4
  <2>6. OwnInv'
    BY <1>1, <1>2, <1>4, <2>1, <2>2, <2>3, <2>4, <2>5, OwnFromHolder
  <2>7. QED
    BY <2>4, <2>6
<1>10. CASE NoTrack(n)
  BY <1>5, <1>10 DEF NoTrack
<1>11. CASE GivesUp(n)
  <2>1. UNCHANGED <<task, by, sessionVars>>
    BY <1>11 DEF GivesUp, browser
  <2>2. QED
    BY <1>1, <1>11, <2>1, ClosedKeeps DEF GivesUp
<1>12. CASE MicrophoneEnabled(n)
  <2>1. task' = task /\ peer' = peer /\ owner' = owner /\ by' = by /\ At(t, "out")
    BY <1>12 DEF MicrophoneEnabled, uplink, browser
  <2>2. task = n
    BY <1>12 DEF MicrophoneEnabled, OwnInv
  <2>3. "out" \in Stages /\ pc'[t] = "out" /\ Held(t)
    BY <1>1, <1>12, <2>1 DEF Stages, At, MicrophoneEnabled, Held, Unlocked
  <2>4. /\ LockInv'
        /\ \A u \in Tasks : u # t => ~Held(u)'
        /\ \A m \in Clicks : Negotiation(m) # t =>
             (pc'[Negotiation(m)] # "out" => pc[Negotiation(m)] # "out")
    BY <1>1, <2>1, <2>3, HolderMoves
  <2>5. \A m \in Clicks : pc'[Negotiation(m)] # "out" => pc[Negotiation(m)] # "out"
    BY <1>4, <2>4
  <2>6. /\ task' # NoPeer => task' = peer' /\ owner' = by[peer']
        /\ peer' # NoPeer => by[peer'] # None
    BY <2>1 DEF OwnInv
  <2>7. OwnInv'
    BY <1>1, <1>2, <2>1, <2>2, <2>3, <2>4, <2>5, <2>6, OwnFromHolder
  <2>8. QED
    BY <2>4, <2>7
<1>13. QED
  BY <1>7, <1>8, <1>9, <1>10, <1>11, <1>12

(* Those who close the uplink: a handler, a disable, End.                   *)
LEMMA CloserKeeps ==
  ASSUME Types, LockInv, OwnInv, NEW t \in Tasks,
         \/ /\ Enters(t)
            /\ \/ CloseBegins(t, "closing")
               \/ \E stage \in {"out", "hangingUp"} :
                    At(t, stage) /\ UNCHANGED <<sessionVars, uplink, browser>>
         \/ /\ pc[t] = "closing" /\ Forgotten
            /\ \E stage \in {"out", "hangingUp"} : ClosedPeer(t, stage)
            /\ UNCHANGED <<sessionVars, task, browser>>
  PROVE  LockInv' /\ OwnInv'
<1>1. CASE Enters(t) /\ CloseBegins(t, "closing")
  BY <1>1, CloseBeginsKeeps DEF Enters
<1>2. ASSUME NEW stage \in {"out", "hangingUp"}, Enters(t), At(t, stage),
             UNCHANGED <<sessionVars, uplink, browser>>
      PROVE  LockInv' /\ OwnInv'
  <2>1. UNCHANGED <<uplink, by>> /\ mic' = mic
    BY <1>2 DEF browser, sessionVars
  <2>2. QED
    BY <1>2, <2>1, LeavesKeeps DEF Enters
<1>3. ASSUME NEW stage \in {"out", "hangingUp"}, pc[t] = "closing", Forgotten,
             ClosedPeer(t, stage), UNCHANGED <<sessionVars, task, browser>>
      PROVE  LockInv' /\ OwnInv'
  <2>1. UNCHANGED <<task, by, sessionVars>>
    BY <1>3 DEF browser
  <2>2. QED
    BY <1>3, <2>1, ClosedKeeps
<1>4. QED
  BY <1>1, <1>2, <1>3

LEMMA StepOwn ==
  ASSUME Types, LockInv, OwnInv, [Next]_vars
  PROVE  LockInv' /\ OwnInv'
<1>1. ASSUME NEW n \in Clicks, NegotiateStep(n) PROVE LockInv' /\ OwnInv'
  <2>1. CASE NegotiateRefused(n) \/ OfferFails(n) \/ MicrophoneRefused(n)
    <3>1. /\ At(Negotiation(n), "out") /\ pc[Negotiation(n)] # "out"
          /\ Held(Negotiation(n)) \/ LockFree
          /\ UNCHANGED <<sessionVars, uplink, browser>>
      BY <2>1 DEF NegotiateRefused, OfferFails, MicrophoneRefused, Enters, Held, Unlocked
    <3>2. UNCHANGED <<uplink, by>> /\ mic' = mic /\ Negotiation(n) \in Tasks
      BY <3>1, TaskFacts DEF browser, sessionVars
    <3>3. QED
      BY <3>1, <3>2, LeavesKeeps
  <2>2. QED
    BY <1>1, <2>1, NegotiationKeeps DEF NegotiateStep
<1>2. ASSUME NEW n \in Clicks, HandlerStep(n) PROVE LockInv' /\ OwnInv'
  <2>1. Handler(n) \in Tasks
    BY TaskFacts
  <2>2. CASE HandlerRuns(n)
    BY <2>1, <2>2, CloserKeeps DEF HandlerRuns
  <2>3. CASE HandlerCloses(n)
    BY <2>1, <2>3, CloserKeeps DEF HandlerCloses
  <2>4. QED
    BY <1>2, <2>2, <2>3 DEF HandlerStep
<1>3. ASSUME NEW c \in Cards, DisableStep(c) PROVE LockInv' /\ OwnInv'
  <2>1. Disable(c) \in Tasks
    BY TaskFacts
  <2>2. CASE DisableRuns(c)
    BY <2>1, <2>2, CloserKeeps DEF DisableRuns
  <2>3. CASE DisableCloses(c)
    BY <2>1, <2>3, CloserKeeps DEF DisableCloses
  <2>4. QED
    BY <1>3, <2>2, <2>3 DEF DisableStep
<1>4. CASE EndRuns \/ EndCloses
  BY <1>4, TaskFacts, CloserKeeps DEF EndRuns, EndCloses
<1>5. CASE EndEnds
  <2>1. At(EndCommand, "out") /\ ~mic' /\ UNCHANGED <<uplink, by>>
    BY <1>5 DEF EndEnds, browser
  <2>2. \A n \in Clicks : EndCommand # Negotiation(n)
    BY TaskFacts
  <2>3. QED
    BY <2>1, <2>2, TaskFacts, OutsiderKeeps
<1>6. CASE EndPressed
  BY <1>6, TaskFacts, OutsiderKeeps DEF EndPressed, sessionVars, browser
<1>7. ASSUME NEW n \in Clicks, PeerFails(n) PROVE LockInv' /\ OwnInv'
  <2>1. /\ Handler(n) \in Tasks /\ pc[Handler(n)] = "out" /\ At(Handler(n), "queued")
        /\ UNCHANGED <<uplink, sessionVars, by>>
        /\ \A m \in Clicks : Handler(n) # Negotiation(m)
    BY <1>7, TaskFacts DEF PeerFails, browser
  <2>2. QED
    BY <2>1, OutsiderKeeps DEF sessionVars
<1>8. ASSUME NEW c \in Cards, NEW n \in Clicks, ClickOn(c, n) PROVE LockInv' /\ OwnInv'
  <2>1. /\ by[n] = None /\ by' = [by EXCEPT ![n] = c] /\ At(Negotiation(n), "queued")
        /\ UNCHANGED <<uplink, sessionVars>>
    BY <1>8 DEF ClickOn
  <2>2. by \in [Clicks -> Cards \cup {None}] /\ c # None
    BY UplinkAssumption DEF Types, TypeOK
  <2>3. Negotiation(n) \in Tasks /\ pc[Negotiation(n)] = "out"
    BY <2>1, TaskFacts DEF OwnInv
  <2>4. \A m \in Clicks : /\ Negotiation(n) = Negotiation(m) => by'[m] # None
                          /\ by[m] # None => by'[m] = by[m]
    BY <2>1, <2>2, TaskFacts
  <2>5. QED
    BY <2>1, <2>3, <2>4, OutsiderKeeps DEF sessionVars
<1>9. ASSUME NEW c \in Cards, ClickOff(c) PROVE LockInv' /\ OwnInv'
  <2>1. /\ Disable(c) \in Tasks /\ pc[Disable(c)] = "out" /\ At(Disable(c), "queued")
        /\ UNCHANGED <<uplink, sessionVars, by>>
        /\ \A m \in Clicks : Disable(c) # Negotiation(m)
    BY <1>9, TaskFacts DEF ClickOff, Disabling, browser
  <2>2. QED
    BY <2>1, OutsiderKeeps DEF sessionVars
<1>10. CASE \/ \E c \in Cards : Receives(c) \/ PageCloses(c)
            \/ \E n \in Clicks : Joins(n) \/ JoinFails(n)
            \/ SessionStep \/ UNCHANGED vars
  <2>1. UNCHANGED <<uplink, pc, by>> /\ (mic' => mic)
    BY <1>10 DEF Receives, PageCloses, Joins, JoinFails, SessionStep, SessionMoves, vars,
                 sessionVars, browser
  <2>2. QED
    BY <2>1, StaysKeeps
<1>11. QED
  BY <1>1, <1>2, <1>3, <1>4, <1>5, <1>6, <1>7, <1>8, <1>9, <1>10
  DEF Next, EndStep, ClickStep, CardStep

-----------------------------------------------------------------------------
(* Replies and acknowledgements *)

LEMMA AppendFacts ==
  ASSUME NEW S, NEW s \in Seq(S), NEW e \in S
  PROVE  /\ Append(s, e) \in Seq(S)
         /\ DOMAIN Append(s, e) = 1 .. Len(s) + 1 /\ DOMAIN s = 1 .. Len(s) /\ Len(s) \in Nat
         /\ \A i \in DOMAIN s : Append(s, e)[i] = s[i]
         /\ Append(s, e)[Len(s) + 1] = e
OBVIOUS

LEMMA TailFacts ==
  ASSUME NEW S, NEW s \in Seq(S), s # <<>>
  PROVE  /\ 1 \in DOMAIN s /\ Head(s) = s[1] /\ DOMAIN s \subseteq Nat
         /\ \A i \in DOMAIN Tail(s) : /\ i \in Nat /\ i + 1 \in DOMAIN s /\ Tail(s)[i] = s[i + 1]
                                    /\ 1 .. i \subseteq DOMAIN Tail(s) /\ i >= 1
OBVIOUS

(* Where the browser does not move, and a reply to a negotiation is sent as  *)
(* it ends, a positive reply to a disable only when nothing is forwarded.   *)
LEMMA ServerKeeps ==
  ASSUME Types, CapInv, UNCHANGED browser, task' \in {task, NoPeer},
         \A n \in Clicks : pc[Negotiation(n)] = "out" => pc'[Negotiation(n)] = "out",
         \/ UNCHANGED inbox
         \/ \E c \in Cards, ok \in BOOLEAN : Reply(c, NoPeer, ok) /\ (ok => task' = NoPeer)
         \/ \E n \in Clicks, ok \in BOOLEAN :
              /\ pc[Negotiation(n)] # "out" /\ pc'[Negotiation(n)] = "out"
              /\ by[n] # None /\ Reply(by[n], n, ok)
  PROVE  CapInv'
<1> USE DEF browser
<1>1. ASSUME UNCHANGED inbox PROVE CapInv'
  <2>1. ReplyInv'
    BY <1>1 DEF CapInv, ReplyInv
  <2>2. CardInv'
    BY <1>1 DEF CapInv, CardInv
  <2>3. CaptureInv'
    BY <1>1 DEF CapInv, CaptureInv
  <2>4. QED
    BY <2>1, <2>2, <2>3 DEF CapInv
<1>2. ASSUME NEW c \in Cards, c \notin gone, NEW n \in {NoPeer} \cup Clicks, NEW ok \in BOOLEAN,
             inbox' = [inbox EXCEPT ![c] = Append(@, [to |-> n, ok |-> ok])],
             n = NoPeer /\ ok => task' = NoPeer,
             n # NoPeer => /\ by[n] = c /\ tab[n] = "offered"
                           /\ pc[Negotiation(n)] # "out" /\ pc'[Negotiation(n)] = "out"
      PROVE  CapInv'
  <2> DEFINE e == [to |-> n, ok |-> ok]
             l == Len(inbox[c])
  <2>1. inbox[c] \in Seq(Replies) /\ e \in Replies /\ e.to = n /\ e.ok = ok
    BY DEF Types, Replies
  <2>2. /\ inbox'[c] = Append(inbox[c], e)
        /\ \A d \in Cards : d # c => inbox'[d] = inbox[d]
    BY <1>2 DEF Types
  <2>3. /\ DOMAIN inbox'[c] = 1 .. l + 1 /\ DOMAIN inbox[c] = 1 .. l /\ l \in Nat
        /\ \A i \in DOMAIN inbox[c] : inbox'[c][i] = inbox[c][i]
        /\ inbox'[c][l + 1] = e
    BY <2>1, <2>2, AppendFacts
  <2>4. \A i \in DOMAIN inbox'[c] : i \in DOMAIN inbox[c] \/ i = l + 1
    BY <2>3
  <2> HIDE DEF e, l
  <2>5. ReplyInv'
    <3>1. SUFFICES ASSUME NEW d \in Cards, NEW m \in Clicks, NEW i \in DOMAIN inbox'[d],
                          inbox'[d][i].to = m
                   PROVE  /\ by[m] = d /\ tab[m] = "offered" /\ pc'[Negotiation(m)] = "out"
                          /\ \A j \in DOMAIN inbox'[d] : inbox'[d][j].to = m => j = i
      BY DEF ReplyInv
    <3>2. CASE d # c
      BY <2>2, <3>1, <3>2 DEF CapInv, ReplyInv
    <3>3. CASE d = c /\ m = n
      <4>1. \A j \in DOMAIN inbox[c] : inbox[c][j].to # m
        BY <1>2, <3>3, ClickFacts DEF CapInv, ReplyInv
      <4>2. \A j \in DOMAIN inbox'[c] : inbox'[c][j].to = m => j = l + 1
        BY <2>3, <2>4, <4>1
      <4>3. QED
        BY <1>2, <3>1, <3>3, <4>2, ClickFacts
    <3>4. CASE d = c /\ m # n
      <4>1. \A j \in DOMAIN inbox'[c] :
              inbox'[c][j].to = m => j \in DOMAIN inbox[c] /\ inbox[c][j].to = m
        BY <2>1, <2>3, <2>4, <3>4
      <4>2. QED
        BY <3>1, <3>4, <4>1 DEF CapInv, ReplyInv
    <3>5. QED
      BY <3>2, <3>3, <3>4
  <2>6. CardInv'
    BY <1>2, <2>2 DEF CapInv, CardInv
  <2>7. CaptureInv'
    <3>1. SUFFICES ASSUME task' # NoPeer
                   PROVE  /\ tab[task] # "acknowledged"
                          /\ \A d \in Cards : by[task] = d =>
                               \A i \in DOMAIN inbox'[d] : Acknowledges(inbox'[d][i]) =>
                                 /\ tab[task] = "offered"
                                 /\ \A j \in 1 .. i : inbox'[d][j].to # task
      BY DEF CaptureInv
    <3>2. task # NoPeer /\ ~Acknowledges(e)
      BY <1>2, <2>1, <3>1 DEF Acknowledges
    <3>3. tab[task] # "acknowledged"
      BY <3>2 DEF CapInv, CaptureInv
    <3>4. ASSUME NEW d \in Cards, by[task] = d, NEW i \in DOMAIN inbox'[d],
                 Acknowledges(inbox'[d][i])
          PROVE  /\ tab[task] = "offered"
                 /\ \A j \in 1 .. i : inbox'[d][j].to # task
      <4>1. CASE d # c
        BY <2>2, <3>2, <3>4, <4>1 DEF CapInv, CaptureInv
      <4>2. CASE d = c
        <5>1. i \in DOMAIN inbox[c] /\ Acknowledges(inbox[c][i])
          BY <2>3, <2>4, <3>2, <3>4, <4>2
        <5>2. tab[task] = "offered" /\ \A j \in 1 .. i : inbox[c][j].to # task
          BY <3>2, <3>4, <4>2, <5>1 DEF CapInv, CaptureInv
        <5>3. \A j \in 1 .. i : j \in DOMAIN inbox[c]
          BY <2>3, <5>1
        <5>4. QED
          BY <2>3, <4>2, <5>2, <5>3
      <4>3. QED
        BY <4>1, <4>2
    <3>5. QED
      BY <3>3, <3>4
  <2>8. QED
    BY <2>5, <2>6, <2>7 DEF CapInv
<1>3. ASSUME NEW c \in Cards, NEW ok \in BOOLEAN, Reply(c, NoPeer, ok), ok => task' = NoPeer
      PROVE  CapInv'
  BY <1>1, <1>2, <1>3 DEF Reply
<1>4. ASSUME NEW n \in Clicks, NEW ok \in BOOLEAN, by[n] # None,
             pc[Negotiation(n)] # "out", pc'[Negotiation(n)] = "out", Reply(by[n], n, ok)
      PROVE  CapInv'
  <2>1. by[n] \in Cards /\ n # NoPeer
    BY <1>4, ClickFacts DEF Types, TypeOK
  <2>2. CASE by[n] \in gone
    BY <1>1, <1>4, <2>2 DEF Reply
  <2>3. CASE by[n] \notin gone
    <3>1. tab[n] = "offered"
      BY <1>4, <2>3 DEF CapInv, CardInv
    <3>2. QED
      BY <1>2, <1>4, <2>1, <2>3, <3>1 DEF Reply
  <2>4. QED
    BY <2>2, <2>3
<1>5. QED
  BY <1>1, <1>3, <1>4

(* An offer's track is forwarded: nothing that its card still has to receive *)
(* is about it.                                                             *)
LEMMA TrackKeepsCapture ==
  ASSUME Types, OwnInv, CapInv, NEW n \in Clicks, TrackReceived(n)
  PROVE  CapInv'
<1>1. /\ pc[Negotiation(n)] = "offering" /\ task' = n /\ inbox' = inbox
      /\ UNCHANGED <<by, tab, shown, gone>>
      /\ pc' = [pc EXCEPT ![Negotiation(n)] = "enabling"]
  BY DEF TrackReceived, At, browser
<1>2. \A m \in Clicks : pc[Negotiation(m)] = "out" => pc'[Negotiation(m)] = "out"
  BY <1>1, TaskFacts DEF Types, TypeOK
<1>3. \A m \in Clicks : pc'[Negotiation(m)] # "out" => pc[Negotiation(m)] # "out"
  BY <1>1, TaskFacts DEF Types, TypeOK
<1>4. ReplyInv'
  BY <1>1, <1>2 DEF CapInv, ReplyInv
<1>5. CardInv'
  BY <1>1, <1>3 DEF CapInv, CardInv
<1>6. tab[n] = "offered" \/ (tab[n] = "aborted" /\ by[n] \in gone)
  BY <1>1 DEF CapInv, CardInv
<1>7. ASSUME NEW c \in Cards, by[n] = c, NEW i \in DOMAIN inbox[c]
      PROVE  tab[n] = "offered" /\ \A j \in 1 .. i : inbox[c][j].to # n
  <2>1. tab[n] = "offered"
    BY <1>6, <1>7 DEF CapInv, CardInv
  <2>2. i \in Nat /\ DOMAIN inbox[c] = 1 .. Len(inbox[c]) /\ i \in 1 .. Len(inbox[c])
    BY <1>7 DEF Types
  <2>3. \A j \in 1 .. i : j \in DOMAIN inbox[c]
    BY <2>2
  <2>4. QED
    BY <1>1, <2>1, <2>3 DEF CapInv, ReplyInv
<1>8. CaptureInv'
  BY <1>1, <1>6, <1>7 DEF CaptureInv
<1>9. QED
  BY <1>4, <1>5, <1>8 DEF CapInv

LEMMA ClickKeepsCapture ==
  ASSUME Types, OwnInv, CapInv, NEW c \in Cards, NEW n \in Clicks, ClickOn(c, n)
  PROVE  CapInv'
<1>1. /\ c \notin gone /\ by[n] = None
      /\ by' = [by EXCEPT ![n] = c] /\ tab' = [tab EXCEPT ![n] = "offered"]
      /\ pc' = [pc EXCEPT ![Negotiation(n)] = "queued"]
      /\ UNCHANGED <<task, shown, gone, inbox>>
  BY DEF ClickOn, At, uplink
<1>2. /\ by \in [Clicks -> Cards \cup {None}] /\ tab \in [Clicks -> Tabs]
      /\ shown \in [Cards -> {NoPeer} \cup Clicks] /\ c # None /\ None \notin Cards
  BY UplinkAssumption DEF Types, TypeOK
<1>3. \A m \in Clicks : m # n => /\ by'[m] = by[m] /\ tab'[m] = tab[m]
                               /\ pc'[Negotiation(m)] = pc[Negotiation(m)]
  BY <1>1, <1>2, TaskFacts DEF Types, TypeOK
<1>4. \A d \in Cards : \A i \in DOMAIN inbox[d] : inbox[d][i].to # n
  BY <1>1, <1>2 DEF CapInv, ReplyInv
<1>5. ReplyInv'
  <2>1. SUFFICES ASSUME NEW d \in Cards, NEW m \in Clicks, NEW i \in DOMAIN inbox[d],
                        inbox[d][i].to = m
                 PROVE  /\ by'[m] = d /\ tab'[m] = "offered" /\ pc'[Negotiation(m)] = "out"
                        /\ \A j \in DOMAIN inbox[d] : inbox[d][j].to = m => j = i
    BY <1>1 DEF ReplyInv
  <2>2. m # n
    BY <1>4, <2>1
  <2>3. QED
    BY <1>3, <2>1, <2>2 DEF CapInv, ReplyInv
<1>6. pc[Negotiation(n)] = "out" /\ tab'[n] = "offered"
  BY <1>1, <1>2 DEF OwnInv
<1>7. CardInv'
  <2>1. \A d \in Cards : d \in gone => inbox[d] = <<>>
    BY DEF CapInv, CardInv
  <2>2. ASSUME NEW d \in Cards, shown[d] # NoPeer
        PROVE  tab'[shown[d]] = "on" /\ by'[shown[d]] = d
    <3>1. shown[d] \in Clicks /\ tab[shown[d]] = "on" /\ by[shown[d]] = d
      BY <1>2, <2>2 DEF CapInv, CardInv
    <3>2. shown[d] # n
      BY <1>1, <3>1 DEF CapInv, CardInv
    <3>3. QED
      BY <1>3, <3>1, <3>2
  <2>3. ASSUME NEW m \in Clicks
        PROVE  /\ by'[m] = None => tab'[m] = "none"
               /\ pc'[Negotiation(m)] # "out" =>
                    tab'[m] = "offered" \/ (tab'[m] = "aborted" /\ by'[m] \in gone)
    <3>1. by'[n] # None
      BY <1>1, <1>2
    <3>2. QED
      BY <1>3, <1>6, <3>1 DEF CapInv, CardInv
  <2>4. QED
    BY <1>1, <2>1, <2>2, <2>3 DEF CardInv
<1>8. CaptureInv'
  <2>1. task # NoPeer => task \in Clicks /\ by[task] # None
    BY DEF Types, TypeOK, OwnInv
  <2>2. task # NoPeer => by'[task] = by[task] /\ tab'[task] = tab[task]
    BY <1>1, <1>3, <2>1
  <2>3. QED
    BY <1>1, <2>2 DEF CapInv, CaptureInv
<1>9. QED
  BY <1>5, <1>7, <1>8 DEF CapInv

(* The head of the inbox leaves it: every other reply keeps its place.      *)
LEMMA InboxAdvances ==
  ASSUME Types, NEW c \in Cards, inbox[c] # <<>>, inbox' = [inbox EXCEPT ![c] = Tail(@)]
  PROVE  /\ 1 \in DOMAIN inbox[c] /\ Head(inbox[c]) = inbox[c][1] /\ Head(inbox[c]) \in Replies
         /\ \A d \in Cards : d # c => inbox'[d] = inbox[d]
         /\ \A i \in DOMAIN inbox'[c] :
              /\ i \in Nat /\ i + 1 \in DOMAIN inbox[c] /\ inbox'[c][i] = inbox[c][i + 1]
              /\ 1 .. i \subseteq DOMAIN inbox'[c] /\ i >= 1
         /\ \A i \in DOMAIN inbox[c] : i \in Nat /\ i >= 1
<1>1. inbox[c] \in Seq(Replies) /\ inbox'[c] = Tail(inbox[c])
  BY DEF Types
<1>2. Head(inbox[c]) \in Replies /\ DOMAIN inbox[c] = 1 .. Len(inbox[c])
  BY <1>1
<1>3. QED
  BY <1>1, <1>2, TailFacts DEF Types

LEMMA ReceivesKeepsCapture ==
  ASSUME Types, OwnInv, CapInv, NEW c \in Cards, Receives(c)
  PROVE  CapInv'
<1> DEFINE r == Head(inbox[c])
<1>1. /\ inbox[c] # <<>> /\ inbox' = [inbox EXCEPT ![c] = Tail(@)]
      /\ UNCHANGED <<task, pc, by, gone>>
      /\ r.to = NoPeer => DisableReplied(c, r.ok)
      /\ r.to # NoPeer => NegotiateReplied(r.to, r.ok)
  BY DEF Receives, uplink
<1>2. /\ 1 \in DOMAIN inbox[c] /\ r = inbox[c][1] /\ r.to \in {NoPeer} \cup Clicks /\ r.ok \in BOOLEAN
      /\ \A d \in Cards : d # c => inbox'[d] = inbox[d]
      /\ \A i \in DOMAIN inbox'[c] :
           /\ i \in Nat /\ i + 1 \in DOMAIN inbox[c] /\ inbox'[c][i] = inbox[c][i + 1]
           /\ 1 .. i \subseteq DOMAIN inbox'[c]
      /\ \A i \in DOMAIN inbox[c] : i \in Nat /\ i >= 1
  BY <1>1, InboxAdvances DEF Replies
<1>3. /\ tab \in [Clicks -> Tabs] /\ shown \in [Cards -> {NoPeer} \cup Clicks]
      /\ by \in [Clicks -> Cards \cup {None}] /\ None \notin Cards
  BY UplinkAssumption DEF Types, TypeOK
<1> HIDE DEF r
(* One track changes at most: that of the reply, or the one that is shown.  *)
<1>4. PICK m \in {NoPeer} \cup Clicks :
        /\ \A n \in Clicks : n # m => tab'[n] = tab[n]
        /\ m # NoPeer => /\ m = r.to \/ (r.to = NoPeer /\ r.ok /\ m = shown[c])
                         /\ m = r.to => tab'[m] \in {"joining", "aborted"}
        /\ r.to # NoPeer => m = r.to /\ shown' = shown
        /\ r.to = NoPeer /\ m # NoPeer => shown' = [shown EXCEPT ![c] = NoPeer]
        /\ m = NoPeer => shown' = shown
  <2>1. CASE r.to # NoPeer
    <3>1. /\ tab' = [tab EXCEPT ![r.to] = IF r.ok THEN "joining" ELSE "aborted"]
          /\ shown' = shown
      BY <1>1, <2>1 DEF NegotiateReplied
    <3>2. QED
      BY <1>2, <1>3, <2>1, <3>1
  <2>2. CASE r.to = NoPeer /\ r.ok /\ shown[c] # NoPeer
    <3>1. /\ tab' = [tab EXCEPT ![shown[c]] = "acknowledged"]
          /\ shown' = [shown EXCEPT ![c] = NoPeer]
      BY <1>1, <2>2 DEF DisableReplied
    <3>2. QED
      BY <1>3, <2>2, <3>1
  <2>3. CASE r.to = NoPeer /\ ~(r.ok /\ shown[c] # NoPeer)
    <3>1. tab' = tab /\ shown' = shown
      BY <1>1, <2>3 DEF DisableReplied
    <3>2. QED
      BY <2>3, <3>1
  <2>4. QED
    BY <2>1, <2>2, <2>3
<1>5. m # NoPeer => /\ tab[m] # "none" /\ pc[Negotiation(m)] = "out"
                    /\ m = r.to => tab[m] = "offered" /\ by[m] = c
                    /\ m # r.to => tab[m] = "on"
  <2>1. CASE m # NoPeer /\ m = r.to
    BY <1>2, <2>1 DEF CapInv, ReplyInv
  <2>2. CASE m # NoPeer /\ m # r.to
    <3>1. tab[m] = "on"
      BY <1>4, <2>2 DEF CapInv, CardInv
    <3>2. QED
      BY <1>4, <2>2, <3>1 DEF CapInv, CardInv
  <2>3. QED
    BY <2>1, <2>2
(* A reply that stays is not about the track that changes.                  *)
<1>6. \A d \in Cards : \A i \in DOMAIN inbox'[d] : m # NoPeer => inbox'[d][i].to # m
  <2>1. SUFFICES ASSUME NEW d \in Cards, NEW i \in DOMAIN inbox'[d], m # NoPeer, inbox'[d][i].to = m
                 PROVE  FALSE
    OBVIOUS
  <2>2. PICK k \in DOMAIN inbox[d] : inbox[d][k].to = m /\ (d = c => k # 1)
    <3>1. CASE d = c
      <4>1. i \in Nat /\ i + 1 \in DOMAIN inbox[c] /\ inbox[c][i + 1].to = m /\ i >= 1
        BY <1>1, <1>2, <2>1, <3>1, InboxAdvances
      <4>2. i + 1 # 1
        BY <4>1
      <4>3. QED
        BY <3>1, <4>1, <4>2
    <3>2. CASE d # c
      BY <1>2, <2>1, <3>2
    <3>3. QED
      BY <3>1, <3>2
  <2>3. tab[m] = "offered" /\ by[m] = d
    BY <2>1, <2>2 DEF CapInv, ReplyInv
  <2>4. m = r.to /\ d = c
    BY <1>5, <2>1, <2>3
  <2>5. k = 1
    BY <1>2, <2>1, <2>2, <2>4 DEF CapInv, ReplyInv
  <2>6. QED
    BY <2>2, <2>4, <2>5
<1>7. ReplyInv'
  <2>1. SUFFICES ASSUME NEW d \in Cards, NEW n \in Clicks, NEW i \in DOMAIN inbox'[d],
                        inbox'[d][i].to = n
                 PROVE  /\ by[n] = d /\ tab'[n] = "offered" /\ pc[Negotiation(n)] = "out"
                        /\ \A j \in DOMAIN inbox'[d] : inbox'[d][j].to = n => j = i
    BY <1>1 DEF ReplyInv
  <2>2. n # m /\ tab'[n] = tab[n]
    BY <1>4, <1>6, <2>1, ClickFacts
  <2>3. CASE d # c
    BY <1>2, <2>1, <2>2, <2>3 DEF CapInv, ReplyInv
  <2>4. CASE d = c
    <3>1. /\ i \in Nat /\ i + 1 \in DOMAIN inbox[c] /\ inbox[c][i + 1].to = n
      BY <1>2, <2>1, <2>4
    <3>2. \A k \in DOMAIN inbox[c] : inbox[c][k].to = n => k = i + 1
      BY <3>1 DEF CapInv, ReplyInv
    <3>3. ASSUME NEW j \in DOMAIN inbox'[c], inbox'[c][j].to = n PROVE j = i
      <4>1. j \in Nat /\ j + 1 = i + 1
        BY <1>2, <3>2, <3>3
      <4>2. QED
        BY <3>1, <4>1
    <3>4. by[n] = c /\ tab[n] = "offered" /\ pc[Negotiation(n)] = "out"
      BY <3>1 DEF CapInv, ReplyInv
    <3>5. QED
      BY <2>2, <2>4, <3>3, <3>4
  <2>5. QED
    BY <2>3, <2>4
<1>8. CardInv'
  <2>1. ASSUME NEW d \in Cards, d \in gone PROVE inbox'[d] = <<>>
    <3>1. inbox[d] = <<>>
      BY <2>1 DEF CapInv, CardInv
    <3>2. QED
      BY <1>1, <1>2, <3>1
  <2>2. ASSUME NEW d \in Cards, shown'[d] # NoPeer
        PROVE  tab'[shown'[d]] = "on" /\ by[shown'[d]] = d
    <3>1. shown'[d] = shown[d] /\ shown[d] \in Clicks /\ tab[shown[d]] = "on" /\ by[shown[d]] = d
      BY <1>3, <1>4, <2>2 DEF CapInv, CardInv
    <3>2. CASE m # shown[d]
      BY <1>4, <3>1, <3>2
    <3>3. CASE m = shown[d]
      <4>1. m # NoPeer /\ m # r.to /\ r.to = NoPeer /\ m = shown[c]
        BY <1>4, <1>5, <3>1, <3>3, ClickFacts
      <4>2. shown' = [shown EXCEPT ![c] = NoPeer] /\ d # c
        BY <1>3, <1>4, <2>2, <4>1
      <4>3. by[m] = c /\ by[m] = d
        BY <3>1, <3>3, <4>1 DEF CapInv, CardInv
      <4>4. QED
        BY <4>2, <4>3
    <3>4. QED
      BY <3>2, <3>3
  <2>3. ASSUME NEW n \in Clicks
        PROVE  /\ by[n] = None => tab'[n] = "none"
               /\ pc[Negotiation(n)] # "out" =>
                    tab'[n] = "offered" \/ (tab'[n] = "aborted" /\ by[n] \in gone)
    <3>1. CASE n # m
      BY <1>4, <3>1 DEF CapInv, CardInv
    <3>2. CASE n = m
      BY <1>5, <3>2, ClickFacts DEF CapInv, CardInv
    <3>3. QED
      BY <3>1, <3>2
  <2>4. QED
    BY <1>1, <2>1, <2>2, <2>3 DEF CardInv
<1>9. CaptureInv'
  <2>1. SUFFICES ASSUME task # NoPeer
                 PROVE  /\ tab'[task] # "acknowledged"
                        /\ \A d \in Cards : by[task] = d =>
                             \A i \in DOMAIN inbox'[d] : Acknowledges(inbox'[d][i]) =>
                               /\ tab'[task] = "offered"
                               /\ \A j \in 1 .. i : inbox'[d][j].to # task
    BY <1>1 DEF CaptureInv
  <2>2. task \in Clicks /\ tab[task] # "acknowledged"
    BY <2>1 DEF Types, TypeOK, CapInv, CaptureInv
  <2>3. tab'[task] # "acknowledged"
    <3>1. CASE task # m
      BY <1>4, <2>2, <3>1
    <3>2. CASE task = m /\ m = r.to
      BY <1>4, <2>1, <3>2
    <3>3. CASE task = m /\ m # r.to
      <4>1. r.to = NoPeer /\ r.ok /\ m = shown[c] /\ tab[m] = "on" /\ by[m] = c
        BY <1>4, <1>5, <2>1, <3>3 DEF CapInv, CardInv
      <4>2. tab[task] = "offered"
        BY <1>2, <2>1, <3>3, <4>1 DEF CapInv, CaptureInv, Acknowledges
      <4>3. QED
        BY <3>3, <4>1, <4>2
    <3>4. QED
      BY <3>1, <3>2, <3>3
  <2>4. ASSUME NEW d \in Cards, by[task] = d, NEW i \in DOMAIN inbox'[d], Acknowledges(inbox'[d][i])
        PROVE  /\ tab'[task] = "offered"
               /\ \A j \in 1 .. i : inbox'[d][j].to # task
    <3>1. /\ \A k \in DOMAIN inbox[d] : Acknowledges(inbox[d][k]) =>
                tab[task] = "offered" /\ \A j \in 1 .. k : inbox[d][j].to # task
      BY <2>1, <2>4 DEF CapInv, CaptureInv
    <3>2. CASE d # c
      <4>1. tab[task] = "offered" /\ by[task] # c
        BY <1>2, <2>4, <3>1, <3>2
      <4>2. task # m
        BY <1>5, <2>1, <4>1
      <4>3. tab'[task] = "offered"
        BY <1>4, <2>2, <4>1, <4>2
      <4>4. QED
        BY <1>2, <2>4, <3>1, <3>2, <4>3
    <3>3. CASE d = c
      <4>1. i \in Nat /\ i + 1 \in DOMAIN inbox[c] /\ Acknowledges(inbox[c][i + 1])
        BY <1>2, <2>4, <3>3
      <4>2. tab[task] = "offered" /\ \A j \in 1 .. i + 1 : inbox[c][j].to # task
        BY <3>1, <3>3, <4>1
      <4>3. r.to # task
        BY <1>2, <4>1, <4>2
      <4>4. task # m
        BY <1>5, <2>1, <4>2, <4>3
      <4>5. ASSUME NEW j \in 1 .. i PROVE inbox'[c][j].to # task
        <5>1. j \in DOMAIN inbox'[c]
          BY <1>2, <2>4, <3>3, <4>5
        <5>2. inbox'[c][j] = inbox[c][j + 1] /\ j + 1 \in 1 .. i + 1
          BY <1>2, <4>1, <5>1
        <5>3. QED
          BY <4>2, <5>2
      <4>6. QED
        BY <1>4, <2>2, <3>3, <4>2, <4>4, <4>5
    <3>4. QED
      BY <3>2, <3>3
  <2>5. QED
    BY <2>3, <2>4
<1>10. QED
  BY <1>7, <1>8, <1>9 DEF CapInv

LEMMA JoinsKeepsCapture ==
  ASSUME Types, CapInv, NEW n \in Clicks, Joins(n) \/ JoinFails(n)
  PROVE  CapInv'
<1>1. /\ tab[n] = "joining"
      /\ \/ tab' = [tab EXCEPT ![n] = "on"] /\ shown' = [shown EXCEPT ![by[n]] = n]
         \/ tab' = [tab EXCEPT ![n] = "aborted"] /\ shown' = shown
      /\ UNCHANGED <<task, pc, by, gone, inbox>>
  BY DEF Joins, JoinFails, uplink
<1>2. /\ tab \in [Clicks -> Tabs] /\ shown \in [Cards -> {NoPeer} \cup Clicks]
      /\ by \in [Clicks -> Cards \cup {None}]
  BY DEF Types, TypeOK
<1>3. \A m \in Clicks : m # n => tab'[m] = tab[m]
  BY <1>1, <1>2
<1>4. tab'[n] \in {"on", "aborted"}
  BY <1>1, <1>2
<1>5. ReplyInv'
  BY <1>1, <1>3 DEF CapInv, ReplyInv
<1>6. CardInv'
  <2>1. ASSUME NEW c \in Cards, shown'[c] # NoPeer
        PROVE  tab'[shown'[c]] = "on" /\ by[shown'[c]] = c
    <3>1. CASE shown'[c] = shown[c]
      <4>1. shown[c] \in Clicks /\ tab[shown[c]] = "on" /\ by[shown[c]] = c
        BY <1>2, <2>1, <3>1 DEF CapInv, CardInv
      <4>2. QED
        BY <1>1, <1>3, <3>1, <4>1
    <3>2. CASE shown'[c] # shown[c]
      <4>1. c = by[n] /\ shown'[c] = n /\ tab' = [tab EXCEPT ![n] = "on"]
        BY <1>1, <1>2, <3>2
      <4>2. QED
        BY <1>2, <4>1
    <3>3. QED
      BY <3>1, <3>2
  <2>2. ASSUME NEW m \in Clicks
        PROVE  /\ by[m] = None => tab'[m] = "none"
               /\ pc[Negotiation(m)] # "out" =>
                    tab'[m] = "offered" \/ (tab'[m] = "aborted" /\ by[m] \in gone)
    <3>1. CASE m = n
      BY <1>1, <3>1 DEF CapInv, CardInv
    <3>2. CASE m # n
      BY <1>3, <3>2 DEF CapInv, CardInv
    <3>3. QED
      BY <3>1, <3>2
  <2>3. \A c \in Cards : c \in gone => inbox[c] = <<>>
    BY DEF CapInv, CardInv
  <2>4. QED
    BY <1>1, <2>1, <2>2, <2>3 DEF CardInv
<1>7. CaptureInv'
  <2>1. task # NoPeer => task \in Clicks
    BY DEF Types, TypeOK
  <2>2. CASE task = n
    BY <1>1, <1>4, <2>2 DEF CapInv, CaptureInv
  <2>3. CASE task # n
    BY <1>1, <1>3, <2>1, <2>3 DEF CapInv, CaptureInv
  <2>4. QED
    BY <2>2, <2>3
<1>8. QED
  BY <1>5, <1>6, <1>7 DEF CapInv

LEMMA PageKeepsCapture ==
  ASSUME Types, OwnInv, CapInv, NEW c \in Cards, PageCloses(c)
  PROVE  CapInv'
<1>1. /\ gone' = gone \cup {c} /\ shown' = [shown EXCEPT ![c] = NoPeer]
      /\ inbox' = [inbox EXCEPT ![c] = <<>>]
      /\ \A n \in Clicks :
           /\ by[n] # c \/ tab[n] \notin Capturing => tab'[n] = tab[n]
           /\ by[n] = c /\ tab[n] = "offered" => tab'[n] = "aborted"
           /\ tab'[n] \in {tab[n], "left", "aborted"}
      /\ UNCHANGED <<task, pc, by>>
  BY DEF PageCloses, Capturing, uplink
<1>2. /\ shown \in [Cards -> {NoPeer} \cup Clicks] /\ DOMAIN inbox = Cards /\ c # None
  BY UplinkAssumption DEF Types, TypeOK
<1>3. /\ inbox'[c] = <<>> /\ DOMAIN inbox'[c] = {}
      /\ \A d \in Cards : d # c => inbox'[d] = inbox[d] /\ shown'[d] = shown[d]
      /\ shown'[c] = NoPeer
  BY <1>1, <1>2
<1>4. ReplyInv'
  <2>1. SUFFICES ASSUME NEW d \in Cards, NEW n \in Clicks, NEW i \in DOMAIN inbox'[d],
                        inbox'[d][i].to = n
                 PROVE  /\ by[n] = d /\ tab'[n] = "offered" /\ pc[Negotiation(n)] = "out"
                        /\ \A j \in DOMAIN inbox'[d] : inbox'[d][j].to = n => j = i
    BY <1>1 DEF ReplyInv
  <2>2. d # c /\ inbox'[d] = inbox[d]
    BY <1>3, <2>1
  <2>3. QED
    BY <1>1, <2>1, <2>2 DEF CapInv, ReplyInv
<1>5. CardInv'
  <2>1. ASSUME NEW d \in Cards, d \in gone' PROVE inbox'[d] = <<>>
    BY <1>1, <1>3, <2>1 DEF CapInv, CardInv
  <2>2. ASSUME NEW d \in Cards, shown'[d] # NoPeer
        PROVE  tab'[shown'[d]] = "on" /\ by[shown'[d]] = d
    <3>1. d # c /\ shown'[d] = shown[d]
      BY <1>3, <2>2
    <3>2. shown[d] \in Clicks /\ tab[shown[d]] = "on" /\ by[shown[d]] = d
      BY <1>2, <2>2, <3>1 DEF CapInv, CardInv
    <3>3. QED
      BY <1>1, <3>1, <3>2
  <2>3. ASSUME NEW n \in Clicks
        PROVE  /\ by[n] = None => tab'[n] = "none"
               /\ pc[Negotiation(n)] # "out" =>
                    tab'[n] = "offered" \/ (tab'[n] = "aborted" /\ by[n] \in gone')
    <3>1. CASE by[n] = c
      <4>1. pc[Negotiation(n)] # "out" => tab[n] \in {"offered", "aborted"}
        BY DEF CapInv, CardInv
      <4>2. pc[Negotiation(n)] # "out" => tab'[n] = "aborted"
        BY <1>1, <3>1, <4>1 DEF Capturing
      <4>3. QED
        BY <1>1, <1>2, <3>1, <4>2
    <3>2. CASE by[n] # c
      BY <1>1, <3>2 DEF CapInv, CardInv
    <3>3. QED
      BY <3>1, <3>2
  <2>4. QED
    BY <1>1, <2>1, <2>2, <2>3 DEF CardInv
<1>6. CaptureInv'
  <2>1. SUFFICES ASSUME task # NoPeer
                 PROVE  /\ tab'[task] # "acknowledged"
                        /\ \A d \in Cards : by[task] = d =>
                             \A i \in DOMAIN inbox'[d] : Acknowledges(inbox'[d][i]) =>
                               /\ tab'[task] = "offered"
                               /\ \A j \in 1 .. i : inbox'[d][j].to # task
    BY <1>1 DEF CaptureInv
  <2>2. task \in Clicks /\ tab[task] # "acknowledged"
    BY <2>1 DEF Types, TypeOK, CapInv, CaptureInv
  <2>3. tab'[task] # "acknowledged"
    BY <1>1, <2>2
  <2>4. ASSUME NEW d \in Cards, by[task] = d, NEW i \in DOMAIN inbox'[d], Acknowledges(inbox'[d][i])
        PROVE  /\ tab'[task] = "offered"
               /\ \A j \in 1 .. i : inbox'[d][j].to # task
    <3>1. d # c /\ inbox'[d] = inbox[d]
      BY <1>3, <2>4
    <3>2. tab'[task] = tab[task]
      BY <1>1, <2>2, <2>4, <3>1
    <3>3. QED
      BY <2>1, <2>4, <3>1, <3>2 DEF CapInv, CaptureInv
  <2>5. QED
    BY <2>3, <2>4
<1>7. QED
  BY <1>4, <1>5, <1>6 DEF CapInv

LEMMA CaptureInit ==
  ASSUME Init
  PROVE  CapInv
<1>1. \A c \in Cards : inbox[c] = <<>> /\ DOMAIN inbox[c] = {} /\ shown[c] = NoPeer
  BY DEF Init
<1>2. \A n \in Clicks : tab[n] = "none" /\ pc[Negotiation(n)] = "out"
  BY TaskFacts DEF Init
<1>3. task = NoPeer
  BY DEF Init
<1>4. QED
  BY <1>1, <1>2, <1>3 DEF CapInv, ReplyInv, CardInv, CaptureInv

LEMMA StepCapture ==
  ASSUME Types, OwnInv, CapInv, [Next]_vars
  PROVE  CapInv'
(* What At and ClosedPeer do to a negotiation other than their own: nothing. *)
<1>1. ASSUME NEW t \in Tasks, NEW stage, At(t, stage) \/ ClosedPeer(t, stage)
      PROVE  /\ \A n \in Clicks : t # Negotiation(n) => pc'[Negotiation(n)] = pc[Negotiation(n)]
             /\ \A n \in Clicks : t = Negotiation(n) => pc'[Negotiation(n)] = stage
  <2>1. \A n \in Clicks : Negotiation(n) # Handler(peer) /\ Negotiation(n) \in Tasks
    BY TaskFacts DEF Negotiation, Handler
  <2>2. QED
    BY <1>1, <2>1 DEF At, ClosedPeer, Types, TypeOK
<1>2. ASSUME NEW t \in Tasks, NEW stage, CloseBegins(t, stage), pc[t] # "out", UNCHANGED inbox
      PROVE  CapInv'
  <2>1. /\ UNCHANGED browser /\ task' = NoPeer
        /\ \A n \in Clicks : pc[Negotiation(n)] = "out" => pc'[Negotiation(n)] = "out"
    BY <1>1, <1>2 DEF CloseBegins
  <2>2. QED
    BY <1>2, <2>1, ServerKeeps
<1>3. ASSUME NEW n \in Clicks, NegotiateStep(n) PROVE CapInv'
  <2> DEFINE t == Negotiation(n)
  <2>1. t \in Tasks /\ \A m \in Clicks : t = Negotiation(m) => m = n
    BY TaskFacts
  <2>2. TrackReceived(n) \/ pc[t] # "out"
    BY <1>3 DEF NegotiateStep, NegotiateRefused, NegotiateBegins, Enters, PeerReplaced, OfferFails,
                NoTrack, GivesUp, MicrophoneEnabled, MicrophoneRefused
  <2>3. CASE \E stage : CloseBegins(t, stage) /\ UNCHANGED inbox
    <3>1. CASE TrackReceived(n)
      BY <3>1, TrackKeepsCapture
    <3>2. QED
      BY <1>2, <2>1, <2>2, <2>3, <3>1
  <2>4. ASSUME NEW stage, At(t, stage) \/ ClosedPeer(t, stage), UNCHANGED <<task, browser>>,
               UNCHANGED inbox \/ (stage = "out" /\ \E ok \in BOOLEAN : Reply(by[n], n, ok)),
               pc[t] # "out"
        PROVE  CapInv'
    <3>1. \A m \in Clicks : pc[Negotiation(m)] = "out" => pc'[Negotiation(m)] = "out"
      BY <1>1, <2>1, <2>4
    <3>2. by[n] # None /\ task' = task
      BY <2>4 DEF OwnInv
    <3>3. CASE UNCHANGED inbox
      BY <2>4, <3>1, <3>2, <3>3, ServerKeeps
    <3>4. CASE stage = "out" /\ \E ok \in BOOLEAN : Reply(by[n], n, ok)
      <4>1. pc'[t] = "out"
        BY <1>1, <2>1, <2>4, <3>4
      <4>2. QED
        BY <2>4, <3>1, <3>2, <3>4, <4>1, ServerKeeps
    <3>5. QED
      BY <2>4, <3>3, <3>4
  <2>5. CASE NegotiateRefused(n) \/ OfferFails(n) \/ MicrophoneRefused(n) \/ MicrophoneEnabled(n)
    <3>1. /\ At(t, "out") /\ UNCHANGED <<task, browser>>
          /\ pc[t] # "out" /\ \E ok \in BOOLEAN : Reply(by[n], n, ok)
      BY <2>5 DEF NegotiateRefused, OfferFails, MicrophoneRefused, MicrophoneEnabled, Enters, uplink
    <3>2. QED
      BY <2>4, <3>1
  <2>6. CASE NegotiateBegins(n)
    <3>1. pc[t] # "out" /\ UNCHANGED inbox
      BY <2>6 DEF NegotiateBegins, Enters
    <3>2. CASE At(t, "offering") /\ UNCHANGED <<task, browser>>
      BY <2>4, <3>1, <3>2
    <3>3. QED
      BY <2>3, <2>6, <3>1, <3>2 DEF NegotiateBegins
  <2>7. CASE PeerReplaced(n)
    <3>1. ClosedPeer(t, "offering") /\ UNCHANGED <<task, browser, inbox>> /\ pc[t] # "out"
      BY <2>7 DEF PeerReplaced
    <3>2. QED
      BY <2>4, <3>1
  <2>8. CASE NoTrack(n)
    BY <2>3, <2>8 DEF NoTrack
  <2>9. CASE GivesUp(n)
    <3>1. /\ ClosedPeer(t, "out") /\ UNCHANGED <<task, browser>> /\ pc[t] # "out"
          /\ Reply(by[n], n, FALSE)
      BY <2>9 DEF GivesUp
    <3>2. QED
      BY <2>4, <3>1
  <2>10. QED
    BY <1>3, <2>5, <2>6, <2>7, <2>8, <2>9, TrackKeepsCapture DEF NegotiateStep
(* The closers are no negotiations, and a positive reply follows a closing.  *)
<1>4. ASSUME NEW t \in Tasks, \A n \in Clicks : t # Negotiation(n), NEW stage,
             At(t, stage) \/ ClosedPeer(t, stage), UNCHANGED <<task, browser>>,
             \/ UNCHANGED inbox
             \/ \E c \in Cards, ok \in BOOLEAN : Reply(c, NoPeer, ok) /\ (ok => task = NoPeer)
      PROVE  CapInv'
  <2>1. \A n \in Clicks : pc[Negotiation(n)] = "out" => pc'[Negotiation(n)] = "out"
    BY <1>1, <1>4
  <2>2. task' = task
    BY <1>4
  <2>3. QED
    BY <1>4, <2>1, <2>2, ServerKeeps
<1>5. ASSUME NEW n \in Clicks, HandlerStep(n) PROVE CapInv'
  <2>1. Handler(n) \in Tasks /\ \A m \in Clicks : Handler(n) # Negotiation(m)
    BY TaskFacts
  <2>2. CASE HandlerRuns(n)
    <3>1. pc[Handler(n)] # "out" /\ UNCHANGED inbox
      BY <2>2 DEF HandlerRuns, Enters
    <3>2. CASE At(Handler(n), "out") /\ UNCHANGED <<sessionVars, uplink, browser>>
      BY <1>4, <2>1, <3>1, <3>2 DEF uplink
    <3>3. QED
      BY <1>2, <2>1, <2>2, <3>1, <3>2 DEF HandlerRuns
  <2>3. CASE HandlerCloses(n)
    BY <1>4, <2>1, <2>3 DEF HandlerCloses
  <2>4. QED
    BY <1>5, <2>2, <2>3 DEF HandlerStep
<1>6. ASSUME NEW c \in Cards, DisableStep(c) PROVE CapInv'
  <2>1. Disable(c) \in Tasks /\ \A m \in Clicks : Disable(c) # Negotiation(m)
    BY TaskFacts
  <2>2. CASE DisableRuns(c)
    <3>1. pc[Disable(c)] # "out"
      BY <2>2 DEF DisableRuns, Enters
    <3>2. CASE CloseBegins(Disable(c), "closing") /\ UNCHANGED inbox
      BY <1>2, <2>1, <3>1, <3>2
    <3>3. CASE /\ At(Disable(c), "out") /\ Reply(c, NoPeer, FALSE)
               /\ UNCHANGED <<sessionVars, uplink, browser>>
      BY <1>4, <2>1, <3>3 DEF uplink
    <3>4. QED
      BY <2>2, <3>2, <3>3 DEF DisableRuns
  <2>3. CASE DisableCloses(c)
    <3>1. task = NoPeer
      BY <2>1, <2>3 DEF DisableCloses, OwnInv
    <3>2. QED
      BY <1>4, <2>1, <2>3, <3>1 DEF DisableCloses
  <2>4. QED
    BY <1>6, <2>2, <2>3 DEF DisableStep
<1>7. CASE EndPressed \/ EndStep
  <2>1. EndCommand \in Tasks /\ \A m \in Clicks : EndCommand # Negotiation(m)
    BY TaskFacts
  <2>2. CASE EndRuns
    <3>1. pc[EndCommand] # "out" /\ UNCHANGED inbox
      BY <2>2 DEF EndRuns, Enters
    <3>2. CASE At(EndCommand, "hangingUp") /\ UNCHANGED <<sessionVars, uplink, browser>>
      BY <1>4, <2>1, <3>1, <3>2 DEF uplink
    <3>3. QED
      BY <1>2, <2>1, <2>2, <3>1, <3>2 DEF EndRuns
  <2>3. CASE EndPressed \/ EndCloses \/ EndEnds
    <3>1. /\ \E stage : At(EndCommand, stage) \/ ClosedPeer(EndCommand, stage)
          /\ UNCHANGED <<task, browser, inbox>>
      BY <2>3 DEF EndPressed, EndCloses, EndEnds, uplink
    <3>2. QED
      BY <1>4, <2>1, <3>1
  <2>4. QED
    BY <1>7, <2>2, <2>3 DEF EndStep
<1>8. ASSUME NEW n \in Clicks, PeerFails(n) PROVE CapInv'
  <2>1. /\ Handler(n) \in Tasks /\ (\A m \in Clicks : Handler(n) # Negotiation(m))
        /\ At(Handler(n), "queued") /\ UNCHANGED <<task, browser, inbox>>
    BY <1>8, TaskFacts DEF PeerFails, uplink
  <2>2. QED
    BY <1>4, <2>1
<1>9. ASSUME NEW c \in Cards, ClickOff(c) PROVE CapInv'
  <2>1. /\ Disable(c) \in Tasks /\ (\A m \in Clicks : Disable(c) # Negotiation(m))
        /\ At(Disable(c), "queued") /\ UNCHANGED <<task, browser, inbox>>
    BY <1>9, TaskFacts DEF ClickOff, uplink
  <2>2. QED
    BY <1>4, <2>1
<1>10. CASE SessionStep \/ UNCHANGED vars
  <2>1. UNCHANGED <<browser, task, pc, inbox>>
    BY <1>10 DEF SessionStep, vars, uplink, browser
  <2>2. QED
    BY <2>1, ServerKeeps
<1>11. QED
  BY <1>3, <1>5, <1>6, <1>7, <1>8, <1>9, <1>10,
     ClickKeepsCapture, ReceivesKeepsCapture, JoinsKeepsCapture, PageKeepsCapture
  DEF Next, ClickStep, CardStep

-----------------------------------------------------------------------------
(* Theorems *)

THEOREM UplinkInvariant == Spec => [](Types /\ LockInv /\ OwnInv /\ CapInv)
<1>1. Init => Types /\ LockInv /\ OwnInv /\ CapInv
  BY InvInit, CaptureInit
<1>2. Types /\ LockInv /\ OwnInv /\ CapInv /\ [Next]_vars => (Types /\ LockInv /\ OwnInv /\ CapInv)'
  BY StepTypes, StepOwn, StepCapture
<1>3. QED
  BY <1>1, <1>2, PTL DEF Spec

(* The uplink, its tasks and the cards keep to their types: of MicrophoneUplink *)
(* (uplink.py) the owner, the peer and the task, and the card's peer.       *)
THEOREM TypeCorrect == Spec => []TypeOK
<1>1. Types => TypeOK
  BY DEF Types
<1>2. QED
  BY <1>1, UplinkInvariant, PTL

(* Audio goes to the door station only from the peer of the uplink's owner  *)
(* (uplink.py: owner, peer and task change together under the lock, and the *)
(* microphone is muted first).                                              *)
THEOREM TransmitsOwners == Spec => []TransmitsOwnersTrack
<1>1. OwnInv => TransmitsOwnersTrack
  BY DEF OwnInv, TransmitsOwnersTrack
<1>2. QED
  BY <1>1, UplinkInvariant, PTL

(* "Capture stops only after acknowledgement" (the card): no track whose     *)
(* capture was stopped on an acknowledgement is being transmitted, although *)
(* a disable, a later negotiation and their replies may overtake each other *)
(* between the card and the uplink.                                         *)
THEOREM CaptureOutlives == Spec => []CaptureOutlivesTransmission
<1>1. OwnInv /\ CapInv => CaptureOutlivesTransmission
  BY DEF OwnInv, CapInv, CaptureInv, CaptureOutlivesTransmission
<1>2. QED
  BY <1>1, UplinkInvariant, PTL

=============================================================================
