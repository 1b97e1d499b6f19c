---------------------------- MODULE GatewayManager ----------------------------
(***************************************************************************)
(* The life of a config entry (__init__.py) and of its manager (manager.py): *)
(* a start provisions an identity, connects a SipClient and leaves it to a  *)
(* supervisor, which replaces the connection whenever it is lost; a stop    *)
(* takes everything down; the process may be lost at any time.  Rings reach *)
(* the manager through the client it has and the one it is connecting; those *)
(* of an orphan go to the manager that left it, which is not followed.      *)
(***************************************************************************)
EXTENDS Provisioning

CONSTANTS
  Clients,       \* SipClient objects; one that is closed is used again
  Calls,         \* Call-IDs of rings
  MaxSeen,       \* how many of them the manager remembers (100 in the code)
  MaxOrphans     \* bound: clients that are left connected without an owner

ASSUME ClientsAssumption == None \notin Clients /\ MaxSeen \in Nat /\ MaxOrphans \in Nat

VARIABLES
  entry,       \* of the config entry; it is being set up while step # "none"
  dial,        \* _connect: "none", or what it waits for
  dialled,     \* the client that it makes
  link,        \* each client
  sip,         \* _sip
  session,     \* the client that _runtime, media_session and microphone_uplink use
  registered,
  boss,        \* the supervisor task
  orphans,     \* clients that nobody will close
  seen,        \* _seen_call_ids
  told,        \* history: how often this manager announced each, up to twice
  ringing,     \* the ringing state on show
  reset        \* whether the timer is armed that clears it

connecting == <<dial, dialled, link>>
owned == <<sip, session, registered>>
rings == <<seen, told, ringing, reset>>
vars == <<provisioning, entry, connecting, owned, boss, orphans, rings>>

Alive == {"dialling", "registering", "live", "lost"}

TypeOK ==
  /\ ProvisioningTypeOK
  /\ entry \in {"not loaded", "loaded", "stopping", "closing"}
  /\ dial \in {"none", "dialling", "registering", "undoing"}
  /\ dialled \in Clients \cup {None}
  /\ link \in [Clients -> {"unused"} \cup Alive]
  /\ sip \in Clients \cup {None} /\ session \in Clients \cup {None}
  /\ registered \in BOOLEAN
  /\ boss \in {"none", "watching", "closing runtime", "closing client", "sleeping",
               "connecting"}
  /\ orphans \subseteq Clients /\ Cardinality(orphans) <= MaxOrphans
  /\ seen \subseteq Calls /\ Cardinality(seen) <= MaxSeen
  /\ told \in [Calls -> 0 .. 2]
  /\ ringing \in BOOLEAN /\ reset \in BOOLEAN

NoRings ==
  /\ seen = {} /\ told = [c \in Calls |-> 0]
  /\ ringing = FALSE /\ reset = FALSE

Init ==
  /\ ProvisioningInit
  /\ entry = "not loaded"
  /\ dial = "none" /\ dialled = None
  /\ link = [k \in Clients |-> "unused"]
  /\ sip = None /\ session = None /\ registered = FALSE
  /\ boss = "none" /\ orphans = {}
  /\ NoRings

-----------------------------------------------------------------------------
(* _connect *)

Link(k, state) == link' = [link EXCEPT ![k] = state]

\* a client is made and its TLS connection asked for
DialBegins ==
  \E k \in Clients :
    /\ link[k] = "unused"
    /\ Link(k, "dialling")
    /\ dial' = "dialling" /\ dialled' = k

TlsUp ==
  /\ dial = "dialling"
  /\ dial' = "registering"
  /\ Link(dialled, "registering")
  /\ UNCHANGED <<provisioning, entry, dialled, owned, boss, orphans, rings>>

\* connect raises: certificate, network, registration; or FFmpeg is missing
ConnectRaises ==
  /\ dial \in {"dialling", "registering"}
  /\ dial' = "undoing"
  /\ UNCHANGED <<provisioning, entry, dialled, link, owned, boss, orphans, rings>>

\* mutant: the client of a connect that failed is just forgotten
DialForgotten == dial' = "none" /\ dialled' = None /\ UNCHANGED link

\* the client is closed
DialUndone == dial' = "none" /\ dialled' = None /\ Link(dialled, "unused")

\* registered, and FFmpeg is there: the manager takes the client over
Connected ==
  /\ dial = "registering"
  /\ dial' = "none" /\ dialled' = None
  /\ Link(dialled, "live")
  /\ sip' = dialled /\ session' = dialled /\ registered' = TRUE

-----------------------------------------------------------------------------
(* Setting the entry up *)

\* the manager is new; what an earlier one left is not its own
SetupBegins ==
  /\ entry = "not loaded" /\ dial = "none"
  /\ StartBegins
  /\ sip' = None /\ session' = None /\ registered' = FALSE
  /\ seen' = {} /\ told' = [c \in Calls |-> 0]
  /\ ringing' = FALSE /\ reset' = FALSE
  /\ UNCHANGED <<entry, connecting, boss, orphans>>

SetupGoesOn ==
  /\ StartGoesOn
  /\ UNCHANGED <<entry, connecting, owned, boss, orphans, rings>>

SetupDials ==
  /\ step = "ready" /\ dial = "none"
  /\ DialBegins
  /\ UNCHANGED <<provisioning, entry, owned, boss, orphans, rings>>

SetupConnected ==
  /\ step = "ready"
  /\ Connected
  /\ boss' = "watching" /\ entry' = "loaded"
  /\ Over
  /\ UNCHANGED <<tokenStore, idStore, material, accounts, orphans, rings>>

SetupUndone ==
  /\ step = "ready" /\ dial = "undoing"
  /\ DialUndone
  /\ Over
  /\ UNCHANGED <<tokenStore, idStore, material, accounts, entry, owned, boss,
                 orphans, rings>>

\* The manager has started, but the card resource or a platform cannot be set
\* up: nobody stops the manager, and its client is not followed further.
SetupFailsLate ==
  /\ step = "ready" /\ dial = "registering"
  /\ Cardinality(orphans) < MaxOrphans
  /\ dial' = "none" /\ dialled' = None
  /\ Link(dialled, "live")
  /\ orphans' = orphans \cup {dialled}
  /\ Over
  /\ UNCHANGED <<tokenStore, idStore, material, accounts, entry, owned, boss, rings>>

-----------------------------------------------------------------------------
(* _supervise *)

LinkLost(k) ==
  /\ link[k] = "live"
  /\ Link(k, "lost")
  /\ UNCHANGED <<provisioning, entry, dial, dialled, owned, boss, orphans, rings>>

\* wait_closed returns or raises.  After a reconnect that failed there is no
\* client, and no session, and the assertion at the top of the loop does it.
BossWakes ==
  /\ boss = "watching"
  /\ \A k \in Clients : k = sip => link[k] = "lost"
  /\ registered' = FALSE
  /\ boss' = CASE session # None -> "closing runtime"
               [] session = None /\ sip # None -> "closing client"
               [] OTHER -> "sleeping"
  /\ UNCHANGED <<provisioning, entry, connecting, sip, session, orphans, rings>>

\* the runtime is closed; session and uplink are dropped with it
RuntimeClosed ==
  /\ boss = "closing runtime"
  /\ boss' = "closing client"
  /\ session' = None
  /\ UNCHANGED <<provisioning, entry, connecting, sip, registered, orphans, rings>>

ClientClosed ==
  /\ boss = "closing client"
  /\ boss' = "sleeping"
  /\ Link(sip, "unused")
  /\ sip' = None
  /\ UNCHANGED <<provisioning, entry, dial, dialled, session, registered, orphans, rings>>

\* thirty seconds later
BossDials ==
  /\ boss = "sleeping"
  /\ DialBegins
  /\ boss' = "connecting"
  /\ UNCHANGED <<provisioning, entry, owned, orphans, rings>>

BossConnected ==
  /\ boss = "connecting"
  /\ Connected
  /\ boss' = "watching"
  /\ UNCHANGED <<provisioning, entry, orphans, rings>>

\* mutant: the loop is left
BossGivesUp ==
  /\ boss = "connecting" /\ dial = "undoing"
  /\ DialUndone
  /\ boss' = "none"
  /\ UNCHANGED <<provisioning, entry, owned, orphans, rings>>

BossUndone ==
  /\ boss = "connecting" /\ dial = "undoing"
  /\ DialUndone
  /\ boss' = "watching"
  /\ UNCHANGED <<provisioning, entry, owned, orphans, rings>>

-----------------------------------------------------------------------------
(* async_stop: unload or reload *)

\* The ring timer and the supervisor are cancelled.  Cancellation passes by the
\* handler that would close the client of a connect under way.
StopBegins ==
  /\ entry = "loaded"
  /\ dial \in {"registering", "undoing"} => Cardinality(orphans) < MaxOrphans
  /\ entry' = "stopping"
  /\ reset' = FALSE
  /\ boss' = "none"
  /\ dial' = "none" /\ dialled' = None
  /\ orphans' = IF dial \in {"registering", "undoing"} THEN orphans \cup {dialled} ELSE orphans
  /\ link' = IF dial = "dialling" THEN [link EXCEPT ![dialled] = "unused"] ELSE link
  /\ UNCHANGED <<provisioning, owned, seen, told, ringing>>

\* uplink and session are ended, then the runtime is closed
StopEnds ==
  /\ entry = "stopping"
  /\ entry' = "closing"
  /\ session' = None
  /\ UNCHANGED <<provisioning, connecting, sip, registered, boss, orphans, rings>>

StopCloses ==
  /\ entry = "closing"
  /\ entry' = "not loaded"
  /\ link' = [k \in Clients |-> IF k = sip THEN "unused" ELSE link[k]]
  /\ sip' = None /\ registered' = FALSE
  /\ UNCHANGED <<provisioning, dial, dialled, session, boss, orphans, rings>>

-----------------------------------------------------------------------------
(* Rings *)

\* mutant: the announcement does not look at what was seen
RingIsNew(c) == TRUE

IsNew(c) == c \notin seen

\* mutant: the limit is not looked at
RememberedAll(c) == seen' = seen \cup {c}

\* One more is remembered; above the limit any of them is forgotten, be it the
\* new one.
Remembered(c) ==
  IF Cardinality(seen \cup {c}) > MaxSeen
  THEN \E d \in seen \cup {c} : seen' = (seen \cup {c}) \ {d}
  ELSE seen' = seen \cup {c}

\* the read loop begins before the registration, and may outlive it
Listening(k) == link[k] \in {"registering", "live", "lost"}

\* _async_ring: an INVITE of the gateway, or one that is repeated, reaches a
\* client of this manager
Rings(c) ==
  /\ \E k \in {sip, dialled} \ {None} : Listening(k)
  /\ IsNew(c)
  /\ Remembered(c)
  /\ told' = [told EXCEPT ![c] = IF @ < 2 THEN @ + 1 ELSE @]
  /\ ringing' = TRUE /\ reset' = TRUE
  /\ UNCHANGED <<provisioning, entry, connecting, owned, boss, orphans>>

\* _clear_ring, five seconds after the last ring
RingCleared ==
  /\ reset
  /\ reset' = FALSE /\ ringing' = FALSE
  /\ UNCHANGED <<provisioning, entry, connecting, owned, boss, orphans, seen, told>>

-----------------------------------------------------------------------------
\* the process stops, and starts again
Restart ==
  /\ ProcessLost
  /\ entry' = "not loaded"
  /\ dial' = "none" /\ dialled' = None
  /\ link' = [k \in Clients |-> "unused"]
  /\ sip' = None /\ session' = None /\ registered' = FALSE
  /\ boss' = "none" /\ orphans' = {}
  /\ seen' = {} /\ told' = [c \in Calls |-> 0]
  /\ ringing' = FALSE /\ reset' = FALSE

BossGoesOn ==
  BossWakes \/ RuntimeClosed \/ ClientClosed \/ BossDials \/ BossUndone

Next ==
  \/ SetupBegins \/ SetupGoesOn \/ SetupDials \/ SetupConnected \/ SetupUndone
  \/ SetupFailsLate \/ TlsUp \/ ConnectRaises \/ BossGoesOn \/ BossConnected
  \/ StopBegins \/ StopEnds \/ StopCloses \/ RingCleared \/ Restart
  \/ \E k \in Clients : LinkLost(k)
  \/ \E c \in Calls : Rings(c)
  \/ Surroundings /\ UNCHANGED <<entry, connecting, owned, boss, orphans, rings>>

Spec == Init /\ [][Next]_vars

(* The supervisor runs, and a server that is asked again and again answers  *)
(* at last.  Nothing is assumed of users, of the link and of the process.   *)
FairSpec ==
  /\ Spec
  /\ WF_vars(BossGoesOn) /\ WF_vars(ConnectRaises)
  /\ SF_vars(TlsUp) /\ SF_vars(BossConnected)

-----------------------------------------------------------------------------
\* Every client that may hold a connection is the manager's own or one that is
\* being made, apart from the orphans of the two ways described above; and the
\* session on which commands act belongs to the client the manager has now.
ConnectionIsOwned ==
  /\ \A k \in Clients : link[k] # "unused" => k \in {sip, dialled} \cup orphans
  /\ session # None => session = sip
  /\ registered => sip # None
  /\ entry = "loaded" /\ registered => session = sip

\* README.md: the integration keeps its "separate SIP account".  Once its
\* client id has been saved no start, however it was interrupted, takes another
\* or registers an account for another.
SavedIdentityKept ==
  [][idStore # None => idStore' = idStore /\ accounts' \subseteq accounts \cup {idStore}]_vars

\* tests/test_manager.py, test_ring_is_deduplicated_and_fired_on_bus: a ring is
\* announced once, unless more calls have rung than the manager remembers; and
\* what is on show as ringing will be cleared, unless the manager was stopped.
RingAnnouncedOnce ==
  /\ \A c \in Calls : told[c] > 1 => Cardinality({d \in Calls : told[d] > 0}) > MaxSeen
  /\ entry = "loaded" /\ ringing => reset

\* A connection that was lost is replaced, through any number of failures, as
\* long as the entry stays loaded.
Reconnects == entry = "loaded" /\ ~registered ~> registered \/ entry # "loaded"

=============================================================================
