--------------------------- MODULE MicrophoneUplink ---------------------------
(***************************************************************************)
(* The browser's microphone: the card that captures it, the websocket       *)
(* commands, and the uplink that forwards it to the call (card, websocket.py *)
(* and uplink.py, class MicrophoneUplink), on a session as in UplinkSession. *)
(*                                                                          *)
(* Every click on "Microphone" is numbered.  The number stands for the      *)
(* browser's tracks and peer, for the negotiate command it sends, and for   *)
(* the server's peer that the command creates.  pc[t] is where a task of    *)
(* the server is suspended; the uplink's lock is held where pc[t] is        *)
(* not in Unlocked.                                                         *)
(***************************************************************************)
EXTENDS UplinkSession, Naturals, Sequences

CONSTANTS
  Cards,     \* cards shown in browsers; each is an owner of its own
  None,      \* Python's None as an owner
  Leavers,   \* bound: cards whose page may be closed
  MaxClicks  \* bound: how often the microphone is turned on

ASSUME UplinkAssumption == None \notin Cards /\ Leavers \subseteq Cards /\ MaxClicks \in Nat

Clicks == 1 .. MaxClicks
NoPeer == 0

Negotiation(n) == <<"negotiate", n>>   \* ws_microphone_negotiate
Handler(n)     == <<"closed", n>>      \* state_changed of the peer of click n
Disable(c)     == <<"disable", c>>     \* ws_microphone_set of card c
EndCommand     == <<"end", None>>      \* async_end_monitoring

Tasks ==
  {Negotiation(n) : n \in Clicks} \cup {Handler(n) : n \in Clicks}
    \cup {Disable(c) : c \in Cards} \cup {EndCommand}

VARIABLES
  owner, peer, task,  \* MicrophoneUplink: task is the click it forwards
  pc,                 \* where each task of the server is suspended
  by,                 \* the card that clicked
  tab,                \* what the browser has made of a click
  shown,              \* this.peer of each card, by its click
  inbox,              \* replies on the way to each card, in order
  gone                \* cards whose page has been closed

uplink == <<owner, peer, task>>
browser == <<by, tab, shown, gone>>
vars == <<sessionVars, uplink, pc, browser, inbox>>

Stages ==
  {"out", "queued", "closing", "givingUp", "offering", "enabling", "hangingUp"}

\* capture has stopped: on an acknowledged disable, with the page, or before
\* the browser's peer was connected
Capturing == {"offered", "joining", "on"}
Left == {"acknowledged", "left"}
Tabs == {"none", "aborted"} \cup Capturing \cup Left

\* a reply to the negotiation of a click, or (NoPeer) to a disable
Replies == [to : {NoPeer} \cup Clicks, ok : BOOLEAN]

TypeOK ==
  /\ streaming \in BOOLEAN /\ mic \in BOOLEAN
  /\ owner \in Cards \cup {None}
  /\ peer \in {NoPeer} \cup Clicks /\ task \in {NoPeer} \cup Clicks
  /\ pc \in [Tasks -> Stages]
  /\ by \in [Clicks -> Cards \cup {None}]
  /\ tab \in [Clicks -> Tabs]
  /\ shown \in [Cards -> {NoPeer} \cup Clicks]
  /\ \A c \in Cards : inbox[c] \in Seq(Replies)
  /\ gone \subseteq Cards

Init ==
  /\ SessionInit
  /\ owner = None /\ peer = NoPeer /\ task = NoPeer
  /\ pc = [t \in Tasks |-> "out"]
  /\ by = [n \in Clicks |-> None]
  /\ tab = [n \in Clicks |-> "none"]
  /\ shown = [c \in Cards |-> NoPeer]
  /\ inbox = [c \in Cards |-> <<>>]
  /\ gone = {}

-----------------------------------------------------------------------------
(* The uplink's lock, and _close_locked under it *)

\* close has let go of the lock before End goes on to the session
Unlocked == {"out", "queued", "hangingUp"}

LockFree == \A t \in Tasks : pc[t] \in Unlocked

Enters(t) == pc[t] = "queued" /\ LockFree

At(t, stage) == pc' = [pc EXCEPT ![t] = stage]

\* a reply is sent, unless its page is gone
Reply(c, n, ok) ==
  inbox' = IF c \in gone THEN inbox
           ELSE [inbox EXCEPT ![c] = Append(@, [to |-> n, ok |-> ok])]

\* mutant: the peer is closed without muting
CloseUnmuted(t, stage) ==
  /\ task' = NoPeer
  /\ At(t, stage)
  /\ UNCHANGED <<sessionVars, owner, peer, browser>>

(* _close_locked up to its wait for the forwarding task and for the peer.   *)
(* The microphone is on only in a session that streams, whose lock is free: *)
(* muting does not suspend.                                                 *)
CloseBegins(t, stage) ==
  /\ mic' = FALSE
  /\ task' = NoPeer
  /\ At(t, stage)
  /\ UNCHANGED <<streaming, owner, peer, browser>>

\* task t goes on at stage; the closed peer may have announced that it closed
ClosedPeer(t, stage) ==
  pc' \in {[pc EXCEPT ![t] = stage],
           [[pc EXCEPT ![t] = stage] EXCEPT ![Handler(peer)] = "queued"]}

Forgotten == owner' = None /\ peer' = NoPeer

-----------------------------------------------------------------------------
(* negotiate *)

NegotiateRefused(n) ==
  /\ Enters(Negotiation(n))
  /\ owner \notin {None, by[n]}
  /\ At(Negotiation(n), "out")
  /\ Reply(by[n], n, FALSE)
  /\ UNCHANGED <<sessionVars, uplink, browser>>

TakesOver(n) == owner' = by[n] /\ peer' = n

NegotiateBegins(n) ==
  /\ Enters(Negotiation(n))
  /\ owner \in {None, by[n]}
  /\ UNCHANGED inbox
  /\ IF peer # NoPeer
     THEN CloseBegins(Negotiation(n), "closing")
     ELSE /\ TakesOver(n)
          /\ At(Negotiation(n), "offering")
          /\ UNCHANGED <<sessionVars, task, browser>>

\* the owner's earlier peer is closed; a new one takes its place
PeerReplaced(n) ==
  /\ pc[Negotiation(n)] = "closing"
  /\ TakesOver(n)
  /\ ClosedPeer(Negotiation(n), "offering")
  /\ UNCHANGED <<sessionVars, task, browser, inbox>>

\* the offer has an audio track: it is forwarded from now on
TrackReceived(n) ==
  /\ pc[Negotiation(n)] = "offering"
  /\ task' = n
  /\ At(Negotiation(n), "enabling")
  /\ UNCHANGED <<sessionVars, owner, peer, browser, inbox>>

\* the offer cannot be parsed or answered: owner and peer stay as they are
OfferFails(n) ==
  /\ pc[Negotiation(n)] = "offering"
  /\ At(Negotiation(n), "out")
  /\ Reply(by[n], n, FALSE)
  /\ UNCHANGED <<sessionVars, uplink, browser>>

\* no audio track within ten seconds
NoTrack(n) ==
  /\ pc[Negotiation(n)] = "offering"
  /\ CloseBegins(Negotiation(n), "givingUp")
  /\ UNCHANGED inbox

GivesUp(n) ==
  /\ pc[Negotiation(n)] = "givingUp"
  /\ Forgotten
  /\ ClosedPeer(Negotiation(n), "out")
  /\ Reply(by[n], n, FALSE)
  /\ UNCHANGED <<sessionVars, task, browser>>

MicrophoneEnabled(n) ==
  /\ pc[Negotiation(n)] = "enabling"
  /\ MicrophoneSet(TRUE)
  /\ At(Negotiation(n), "out")
  /\ Reply(by[n], n, TRUE)
  /\ UNCHANGED <<uplink, browser>>

\* mutant: the uplink waits until the session accepts the microphone
RefusalAwaited(n) == FALSE

\* the session or the runtime raises: owner, peer and task stay as they are
MicrophoneRefused(n) ==
  /\ pc[Negotiation(n)] = "enabling"
  /\ At(Negotiation(n), "out")
  /\ Reply(by[n], n, FALSE)
  /\ UNCHANGED <<sessionVars, uplink, browser>>

-----------------------------------------------------------------------------
(* close, by its callers *)

\* mutant: the state change of a peer is not acted upon
HandlerIgnores(n) ==
  /\ Enters(Handler(n))
  /\ At(Handler(n), "out")
  /\ UNCHANGED <<sessionVars, uplink, browser, inbox>>

\* state_changed: close whatever peer the owner has by now
HandlerRuns(n) ==
  /\ Enters(Handler(n))
  /\ UNCHANGED inbox
  /\ IF owner = by[n] THEN CloseBegins(Handler(n), "closing")
     ELSE At(Handler(n), "out") /\ UNCHANGED <<sessionVars, uplink, browser>>

HandlerCloses(n) ==
  /\ pc[Handler(n)] = "closing"
  /\ Forgotten
  /\ ClosedPeer(Handler(n), "out")
  /\ UNCHANGED <<sessionVars, task, browser, inbox>>

\* mutant: the coroutine of close is created and not awaited
DisableNotAwaited(c) ==
  /\ Enters(Disable(c))
  /\ At(Disable(c), "out")
  /\ Reply(c, NoPeer, TRUE)
  /\ UNCHANGED <<sessionVars, uplink, browser>>

DisableRuns(c) ==
  /\ Enters(Disable(c))
  /\ IF owner = c
     THEN CloseBegins(Disable(c), "closing") /\ UNCHANGED inbox
     ELSE /\ At(Disable(c), "out")
          /\ Reply(c, NoPeer, FALSE)
          /\ UNCHANGED <<sessionVars, uplink, browser>>

DisableCloses(c) ==
  /\ pc[Disable(c)] = "closing"
  /\ Forgotten
  /\ ClosedPeer(Disable(c), "out")
  /\ Reply(c, NoPeer, TRUE)
  /\ UNCHANGED <<sessionVars, task, browser>>

EndPressed ==
  /\ pc[EndCommand] = "out"
  /\ At(EndCommand, "queued")
  /\ UNCHANGED <<sessionVars, uplink, browser, inbox>>

\* close without an owner closes whoever owns the uplink
EndRuns ==
  /\ Enters(EndCommand)
  /\ UNCHANGED inbox
  /\ IF peer # NoPeer THEN CloseBegins(EndCommand, "closing")
     ELSE At(EndCommand, "hangingUp") /\ UNCHANGED <<sessionVars, uplink, browser>>

EndCloses ==
  /\ pc[EndCommand] = "closing"
  /\ Forgotten
  /\ ClosedPeer(EndCommand, "hangingUp")
  /\ UNCHANGED <<sessionVars, task, browser, inbox>>

\* MediaSession.end comes to its end, whatever the uplink has done meanwhile
EndEnds ==
  /\ pc[EndCommand] = "hangingUp"
  /\ streaming' = FALSE /\ mic' = FALSE
  /\ At(EndCommand, "out")
  /\ UNCHANGED <<uplink, browser, inbox>>

-----------------------------------------------------------------------------
(* The card *)

\* enableMicrophone up to its request, which another click does not prevent
ClickOn(c, n) ==
  /\ c \notin gone /\ shown[c] = NoPeer
  /\ by[n] = None /\ \A m \in 1 .. n - 1 : by[m] # None
  /\ by' = [by EXCEPT ![n] = c]
  /\ tab' = [tab EXCEPT ![n] = "offered"]
  /\ At(Negotiation(n), "queued")
  /\ UNCHANGED <<sessionVars, uplink, shown, gone, inbox>>

\* bound: a card waits for one disable at a time
Disabling(c) ==
  pc[Disable(c)] # "out" \/ \E i \in DOMAIN inbox[c] : inbox[c][i].to = NoPeer

\* disableMicrophone: by a click, after "End", or because the card is removed
ClickOff(c) ==
  /\ c \notin gone /\ shown[c] # NoPeer /\ ~Disabling(c)
  /\ At(Disable(c), "queued")
  /\ UNCHANGED <<sessionVars, uplink, browser, inbox>>

\* the reply to a disable: capture stops only if it was obeyed
DisableReplied(c, ok) ==
  IF ok /\ shown[c] # NoPeer
  THEN /\ tab' = [tab EXCEPT ![shown[c]] = "acknowledged"]
       /\ shown' = [shown EXCEPT ![c] = NoPeer]
  ELSE UNCHANGED <<tab, shown>>

NegotiateReplied(n, ok) ==
  /\ tab' = [tab EXCEPT ![n] = IF ok THEN "joining" ELSE "aborted"]
  /\ UNCHANGED shown

Receives(c) ==
  /\ inbox[c] # <<>>
  /\ LET reply == Head(inbox[c])
     IN IF reply.to = NoPeer THEN DisableReplied(c, reply.ok)
        ELSE NegotiateReplied(reply.to, reply.ok)
  /\ inbox' = [inbox EXCEPT ![c] = Tail(@)]
  /\ UNCHANGED <<sessionVars, uplink, pc, by, gone>>

\* the answer is set, and the peers connect
Joins(n) ==
  /\ tab[n] = "joining"
  /\ tab' = [tab EXCEPT ![n] = "on"]
  /\ shown' = [shown EXCEPT ![by[n]] = n]
  /\ UNCHANGED <<sessionVars, uplink, pc, by, gone, inbox>>

JoinFails(n) ==
  /\ tab[n] = "joining"
  /\ tab' = [tab EXCEPT ![n] = "aborted"]
  /\ UNCHANGED <<sessionVars, uplink, pc, by, shown, gone, inbox>>

PageCloses(c) ==
  /\ c \in Leavers \ gone
  /\ gone' = gone \cup {c}
  /\ tab' = [n \in Clicks |->
               IF by[n] # c \/ tab[n] \notin Capturing THEN tab[n]
               ELSE IF tab[n] = "on" THEN "left" ELSE "aborted"]
  /\ shown' = [shown EXCEPT ![c] = NoPeer]
  /\ inbox' = [inbox EXCEPT ![c] = <<>>]
  /\ UNCHANGED <<sessionVars, uplink, pc, by>>

-----------------------------------------------------------------------------
(* The peers and the session *)

\* a peer of the server fails, or finds that its browser has closed
PeerFails(n) ==
  /\ peer = n /\ pc[Negotiation(n)] # "offering"
  /\ \A t \in Tasks : pc[t] \notin {"closing", "givingUp"}
  /\ pc[Handler(n)] = "out"
  /\ At(Handler(n), "queued")
  /\ UNCHANGED <<sessionVars, uplink, browser, inbox>>

SessionStep == SessionMoves /\ UNCHANGED <<uplink, pc, browser, inbox>>

NegotiateStep(n) ==
  \/ NegotiateRefused(n) \/ NegotiateBegins(n)
  \/ PeerReplaced(n) \/ TrackReceived(n) \/ OfferFails(n) \/ NoTrack(n)
  \/ GivesUp(n) \/ MicrophoneEnabled(n) \/ MicrophoneRefused(n)

HandlerStep(n) == HandlerRuns(n) \/ HandlerCloses(n)

DisableStep(c) == DisableRuns(c) \/ DisableCloses(c)

EndStep == EndRuns \/ EndCloses \/ EndEnds

ClickStep(n) ==
  Joins(n) \/ JoinFails(n) \/ PeerFails(n) \/ \E c \in Cards : ClickOn(c, n)

CardStep(c) == ClickOff(c) \/ Receives(c) \/ PageCloses(c)

Next ==
  \/ \E n \in Clicks : NegotiateStep(n) \/ HandlerStep(n) \/ ClickStep(n)
  \/ \E c \in Cards : DisableStep(c) \/ CardStep(c)
  \/ EndPressed \/ EndStep
  \/ SessionStep

Spec == Init /\ [][Next]_vars

(* Every await of the uplink is bounded (ten seconds for the track, the     *)
(* session's own start and end, the closing of a peer), its lock and the    *)
(* session's are FIFO (hence SF), and a connected peer notices that its     *)
(* browser has closed.  Nothing is assumed of users, cards and peers that   *)
(* were never connected.                                                    *)
Fairness ==
  /\ \A n \in Clicks :
       /\ SF_vars(NegotiateStep(n)) /\ SF_vars(HandlerStep(n))
       /\ WF_vars(tab[n] \in Left /\ PeerFails(n))
  /\ \A c \in Cards : SF_vars(DisableStep(c))
  /\ SF_vars(EndStep)

FairSpec == Spec /\ Fairness

-----------------------------------------------------------------------------
\* Audio is sent only from the track of the peer of the owner, whoever has
\* negotiated, renegotiated, failed or closed in between (uplink.py: "single-
\* owner browser microphone uplink").
TransmitsOwnersTrack ==
  mic => peer # NoPeer /\ task = peer /\ owner = by[peer]

\* The card: "Server disables SRTP transmission first; capture stops only after
\* acknowledgement".  A track whose capture was stopped on an acknowledgement is
\* not being transmitted, not even by a negotiation that overtook the disable.
CaptureOutlivesTransmission ==
  mic => tab[task] # "acknowledged"

\* End gets the uplink and the session in the end, whatever negotiations,
\* handlers and disables compete with it.
EndGetsThrough == pc[EndCommand] = "queued" ~> pc[EndCommand] = "out"

\* A browser that was connected and has stopped, for whatever reason, does not
\* keep the uplink: its peer is closed and its owner is free again.
ClosedBrowserLetsGo ==
  \A n \in Clicks :
    (peer = n /\ tab[n] \in Left) ~> peer # n

=============================================================================
