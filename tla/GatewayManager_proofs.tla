------------------------ MODULE GatewayManager_proofs ------------------------
(***************************************************************************)
(* Theorems about GatewayManager, for any number of client ids, clients,    *)
(* rings and restarts.                                                      *)
(***************************************************************************)
EXTENDS GatewayManager, FiniteSetTheorems, TLAPS

(* The types of the manager's own variables, without the sizes of sets. *)
ManagerTypes ==
  /\ entry \in {"not loaded", "loaded", "stopping", "closing"}
  /\ dial \in {"none", "dialling", "registering", "undoing"}
  /\ dialled \in Clients \cup {None}
  /\ link \in [Clients -> {"unused"} \cup Alive]
  /\ sip \in Clients \cup {None} /\ session \in Clients \cup {None}
  /\ registered \in BOOLEAN
  /\ boss \in {"none", "watching", "closing runtime", "closing client", "sleeping",
               "connecting"}
  /\ orphans \subseteq Clients
  /\ seen \subseteq Calls
  /\ told \in [Calls -> 0 .. 2]
  /\ ringing \in BOOLEAN /\ reset \in BOOLEAN

(* From the listing of the modules on, a start has an identity, and it is the *)
(* saved one if there is one.                                               *)
IdentityKnown ==
  /\ step \notin {"none", "modules"} => ident # None
  /\ ident # None /\ idStore # None => ident = idStore

(* What is remembered and what is left over is finite and bounded. *)
Sizes ==
  /\ IsFiniteSet(orphans) /\ Cardinality(orphans) <= MaxOrphans
  /\ IsFiniteSet(seen) /\ Cardinality(seen) <= MaxSeen

(* Who does what at which time: a start works on an entry that is not loaded, *)
(* the supervisor on one that is, and only one of them has a client made.   *)
Turns ==
  /\ step # "none" => entry = "not loaded"
  /\ boss # "none" => entry = "loaded"
  /\ dial # "none" <=> dialled # None
  /\ dial # "none" => step = "ready" \/ boss = "connecting"

(* What the manager holds in each of these phases. *)
Holdings ==
  /\ entry = "not loaded" => sip = None /\ ~registered
  /\ boss \in {"sleeping", "connecting"} => sip = None
  /\ boss = "closing client" \/ entry = "closing" => session = None
  /\ boss \notin {"none", "watching"} => ~registered

OwnInv == Turns /\ Holdings /\ ConnectionIsOwned

(* Everything that was announced is remembered until it is too much, and    *)
(* a ring that comes while the entry is set up has its timer as well.       *)
Ringed == {d \in Calls : told[d] > 0}

RingInv ==
  /\ IsFiniteSet(Ringed)
  /\ seen \subseteq Ringed
  /\ Cardinality(Ringed) <= MaxSeen => seen = Ringed
  /\ step # "none" /\ ringing => reset
  /\ RingAnnouncedOnce

IInv == ProvisioningTypeOK /\ ManagerTypes /\ Sizes /\ IdentityKnown /\ OwnInv /\ RingInv

-----------------------------------------------------------------------------
(* Types *)

LEMMA StartTypes ==
  ASSUME ProvisioningTypeOK, IdentityKnown, StartGoesOn
  PROVE  ProvisioningTypeOK'
<1>1. CASE TokenRefreshed \/ RefreshRefused \/ LoggedIn \/ TokensSaved
  <2>1. /\ step' = step /\ ident' = ident /\ idStore' = idStore
        /\ cert' = cert /\ current' = current /\ key' = key /\ ca' = ca
        /\ accounts' = accounts
    BY <1>1 DEF TokenRefreshed, RefreshRefused, LoggedIn, TokensSaved, Exchanged, material
  <2>2. CASE TokenRefreshed \/ LoggedIn
    <3>1. Exchanged
      BY <2>2 DEF TokenRefreshed, LoggedIn
    <3>2. /\ access' \in BOOLEAN /\ unsaved' \in BOOLEAN
          /\ refresh' \in {"none", "current", "spent"}
          /\ tokenStore' \in {"none", "current", "spent"}
      BY <3>1 DEF Exchanged, ProvisioningTypeOK
    <3>3. QED
      BY <2>1, <3>2 DEF ProvisioningTypeOK
  <2>3. CASE RefreshRefused \/ TokensSaved
    <3>1. /\ access' \in BOOLEAN /\ unsaved' \in BOOLEAN
          /\ refresh' \in {"none", "current", "spent"}
          /\ tokenStore' \in {"none", "current", "spent"}
      BY <2>3 DEF RefreshRefused, TokensSaved, ProvisioningTypeOK
    <3>2. QED
      BY <2>1, <3>1 DEF ProvisioningTypeOK
  <2>4. QED
    BY <1>1, <2>2, <2>3
<1> USE DEF ProvisioningTypeOK, tokens, material, Goes, Over, Steps
<1>2. CASE ModulesListed
  <2>1. Identity \subseteq Ids
    BY DEF Identity
  <2>2. QED
    BY <1>2, <2>1 DEF ModulesListed
<1>3. CASE AccountsListed
  <2>1. step' \in Steps \cup {"none"}
    BY <1>3 DEF AccountsListed
  <2>2. /\ ident' = ident /\ idStore' = idStore /\ access' = access
        /\ refresh' = refresh /\ unsaved' = unsaved /\ tokenStore' = tokenStore
        /\ cert' = cert /\ current' = current /\ key' = key /\ ca' = ca
        /\ accounts' = accounts
    BY <1>3 DEF AccountsListed
  <2>3. QED
    BY ZenonT(30), <2>1, <2>2
<1>4. CASE AccountRegistered \/ RegistrationUnconfirmed
  <2>1. ident \in Ids
    BY <1>4 DEF AccountRegistered, RegistrationUnconfirmed, Calling, IdentityKnown
  <2>2. QED
    BY <1>4, <2>1 DEF AccountRegistered, RegistrationUnconfirmed
<1>5. CASE Inspected \/ CertificateIssued
  <2>1. step' \in Steps \cup {"none"}
    BY <1>5 DEF Inspected, CertificateIssued
  <2>2. /\ ident' = ident /\ idStore' = idStore /\ access' = access
        /\ refresh' = refresh /\ unsaved' = unsaved /\ tokenStore' = tokenStore
        /\ cert' = cert /\ current' = current /\ key' = key /\ ca' = ca
        /\ accounts' = accounts
    BY <1>5 DEF Inspected, CertificateIssued
  <2>3. QED
    BY ZenonT(30), <2>1, <2>2
<1>6. CASE CertificateWritten
  BY <1>6 DEF CertificateWritten
<1>7. CASE KeyWritten
  BY <1>7 DEF KeyWritten
<1>8. CASE CaWritten
  BY <1>8 DEF CaWritten
<1>9. CASE IdentitySaved
  BY <1>9 DEF IdentitySaved
<1>10. CASE StartFails
  BY <1>10 DEF StartFails
<1>11. QED
  BY <1>1, <1>2, <1>3, <1>4, <1>5, <1>6, <1>7, <1>8, <1>9, <1>10 DEF StartGoesOn

-----------------------------------------------------------------------------
(* The identity *)

LEMMA StartKeepsIdentity ==
  ASSUME ProvisioningTypeOK, IdentityKnown, StartGoesOn
  PROVE  /\ IdentityKnown'
         /\ idStore # None => idStore' = idStore /\ accounts' \subseteq accounts \cup {idStore}
<1> USE IdsAssumption DEF ProvisioningTypeOK, IdentityKnown, tokens, material, Goes, Over, Steps
<1>1. CASE TokenRefreshed
  BY <1>1 DEF TokenRefreshed, Exchanged
<1>2. CASE RefreshRefused
  BY <1>2 DEF RefreshRefused
<1>3. CASE LoggedIn
  BY <1>3 DEF LoggedIn, Exchanged
<1>4. CASE TokensSaved
  BY <1>4 DEF TokensSaved
<1>5. CASE ModulesListed
  <2>1. /\ ident' \in Identity /\ step' = "accounts"
        /\ idStore' = idStore /\ accounts' = accounts
    BY <1>5 DEF ModulesListed
  <2>2. ident' \in Ids /\ (idStore # None => ident' = idStore)
    BY <2>1 DEF Identity
  <2>3. QED
    BY <2>1, <2>2
<1>6. CASE AccountsListed
  BY <1>6 DEF AccountsListed, Calling
<1>7. CASE AccountRegistered \/ RegistrationUnconfirmed
  BY <1>7 DEF AccountRegistered, RegistrationUnconfirmed, Calling
<1>8. CASE Inspected
  BY <1>8 DEF Inspected
<1>9. CASE CertificateIssued
  BY <1>9 DEF CertificateIssued, Calling
<1>10. CASE CertificateWritten
  BY <1>10 DEF CertificateWritten
<1>11. CASE KeyWritten
  BY <1>11 DEF KeyWritten
<1>12. CASE CaWritten
  BY <1>12 DEF CaWritten
<1>13. CASE IdentitySaved
  BY <1>13 DEF IdentitySaved
<1>14. CASE StartFails
  BY <1>14 DEF StartFails
<1>15. QED
  BY <1>1, <1>2, <1>3, <1>4, <1>5, <1>6, <1>7, <1>8, <1>9, <1>10, <1>11, <1>12,
     <1>13, <1>14 DEF StartGoesOn

(* A start that goes on is one that was under way, and one that is ready to *)
(* connect stays so.                                                        *)
LEMMA StartKeepsPhase ==
  ASSUME StartGoesOn
  PROVE  /\ step' # "none" => step # "none"
         /\ step = "ready" => step' = "ready"
BY DEF StartGoesOn, TokenRefreshed, RefreshRefused, LoggedIn, Exchanged, TokensSaved, ModulesListed,
   AccountsListed, AccountRegistered, RegistrationUnconfirmed, Inspected, CertificateIssued,
   CertificateWritten, KeyWritten, CaWritten, IdentitySaved, StartFails, Calling, NeedsToken, Goes, Over

-----------------------------------------------------------------------------
(* Ownership *)

LEMMA InitOwns == Init => OwnInv
BY DEF Init, ProvisioningInit, OwnInv, Turns, Holdings, ConnectionIsOwned

LEMMA StepOwns ==
  ASSUME ProvisioningTypeOK, ManagerTypes, OwnInv, [Next]_vars
  PROVE  OwnInv'
<1> USE ClientsAssumption DEF ManagerTypes, OwnInv, Turns, Holdings, ConnectionIsOwned,
      connecting, owned, Goes, Over
<1>1. CASE SetupBegins
  BY <1>1 DEF SetupBegins, StartBegins
<1>2. CASE SetupGoesOn
  BY <1>2, StartKeepsPhase DEF SetupGoesOn
<1>3. CASE SetupDials
  BY <1>3 DEF SetupDials, DialBegins, Link, provisioning
<1>4. CASE SetupConnected
  BY <1>4 DEF SetupConnected, Connected, Link
<1>5. CASE SetupUndone
  BY <1>5 DEF SetupUndone, DialUndone, Link
<1>6. CASE SetupFailsLate
  BY <1>6 DEF SetupFailsLate, Link
<1>7. CASE TlsUp
  BY <1>7 DEF TlsUp, Link, provisioning
<1>8. CASE ConnectRaises
  BY <1>8 DEF ConnectRaises, provisioning
<1>9. CASE BossWakes
  BY <1>9 DEF BossWakes, provisioning
<1>10. CASE RuntimeClosed
  BY <1>10 DEF RuntimeClosed, provisioning
<1>11. CASE ClientClosed
  BY <1>11 DEF ClientClosed, Link, provisioning
<1>12. CASE BossDials
  BY <1>12 DEF BossDials, DialBegins, Link, provisioning
<1>13. CASE BossUndone
  BY <1>13 DEF BossUndone, DialUndone, Link, provisioning
<1>14. CASE BossConnected
  BY <1>14 DEF BossConnected, Connected, Link, provisioning
<1>15. CASE StopBegins
  BY <1>15 DEF StopBegins, provisioning
<1>16. CASE StopEnds
  BY <1>16 DEF StopEnds, provisioning
<1>17. CASE StopCloses
  BY <1>17 DEF StopCloses, provisioning
<1>18. CASE RingCleared
  BY <1>18 DEF RingCleared, provisioning
<1>19. CASE Restart
  BY <1>19 DEF Restart, ProcessLost
<1>20. ASSUME NEW k \in Clients, LinkLost(k) PROVE OwnInv'
  BY <1>20 DEF LinkLost, Link, provisioning
<1>21. ASSUME NEW c \in Calls, Rings(c) PROVE OwnInv'
  BY <1>21 DEF Rings, provisioning
<1>22. CASE Surroundings /\ UNCHANGED <<entry, connecting, owned, boss, orphans, rings>>
  BY <1>22 DEF Surroundings, TokenExpires, CertificateAges, AccountRemoved
<1>23. CASE UNCHANGED vars
  BY <1>23 DEF vars, provisioning
<1>24. QED
  BY <1>1, <1>2, <1>3, <1>4, <1>5, <1>6, <1>7, <1>8, <1>9, <1>10, <1>11, <1>12, <1>13, <1>14,
     <1>15, <1>16, <1>17, <1>18, <1>19, <1>20, <1>21, <1>22, <1>23 DEF Next, BossGoesOn

-----------------------------------------------------------------------------
(* Rings *)

(* A step that announces nothing keeps what is said about announcements.    *)
LEMMA QuietKeepsRings ==
  ASSUME RingInv, UNCHANGED <<seen, told>>, step' # "none" \/ entry' = "loaded" => (ringing' => reset')
  PROVE  RingInv'
<1>1. Ringed' = Ringed
  BY DEF Ringed
<1>2. QED
  BY <1>1 DEF RingInv, RingAnnouncedOnce, Ringed

(* A manager that is new has announced nothing.                             *)
LEMMA NewManagerRings ==
  ASSUME seen' = {}, told' = [d \in Calls |-> 0], ringing' = FALSE
  PROVE  RingInv' /\ IsFiniteSet(seen') /\ Cardinality(seen') = 0
<1>1. Ringed' = {}
  BY DEF Ringed
<1>2. IsFiniteSet({}) /\ Cardinality({}) = 0
  BY FS_EmptySet
<1>3. \A d \in Calls : told'[d] = 0
  OBVIOUS
<1>4. QED
  BY <1>1, <1>2, <1>3 DEF RingInv, RingAnnouncedOnce

LEMMA RingKeepsRings ==
  ASSUME ManagerTypes, Sizes, OwnInv, RingInv, NEW c \in Calls, Rings(c)
  PROVE  RingInv' /\ seen' \subseteq Calls /\ IsFiniteSet(seen') /\ Cardinality(seen') <= MaxSeen
<1> USE ClientsAssumption
<1>1. /\ c \notin seen /\ Remembered(c) /\ ringing' /\ reset' /\ step' = step
      /\ told' = [told EXCEPT ![c] = IF @ < 2 THEN @ + 1 ELSE @]
      /\ entry' = entry
  BY DEF Rings, IsNew, provisioning
<1>2. told \in [Calls -> 0 .. 2] /\ seen \subseteq Calls
  BY DEF ManagerTypes
<1>3. Ringed' = Ringed \cup {c}
  BY <1>1, <1>2 DEF Ringed
<1>4. /\ IsFiniteSet(Ringed) /\ Cardinality(Ringed) \in Nat
      /\ IsFiniteSet(seen) /\ Cardinality(seen) \in Nat /\ Cardinality(seen) <= MaxSeen
  BY FS_CardinalityType DEF RingInv, Sizes
<1>5. /\ IsFiniteSet(Ringed') /\ Cardinality(Ringed') \in Nat
      /\ Cardinality(Ringed) <= Cardinality(Ringed')
  <2>1. /\ IsFiniteSet(Ringed \cup {c})
        /\ Cardinality(Ringed \cup {c}) \in {Cardinality(Ringed), Cardinality(Ringed) + 1}
    BY <1>4, FS_AddElement
  <2>2. QED
    BY <1>3, <1>4, <2>1
<1>6. /\ IsFiniteSet(seen \cup {c}) /\ Cardinality(seen \cup {c}) = Cardinality(seen) + 1
  BY <1>1, <1>4, FS_AddElement
<1>7. seen' \subseteq seen \cup {c} /\ IsFiniteSet(seen') /\ Cardinality(seen') <= MaxSeen
  <2>1. CASE Cardinality(seen \cup {c}) > MaxSeen
    <3>1. PICK d \in seen \cup {c} : seen' = (seen \cup {c}) \ {d}
      BY <1>1, <2>1 DEF Remembered
    <3>2. IsFiniteSet(seen') /\ Cardinality(seen') = Cardinality(seen \cup {c}) - 1
      BY <1>6, <3>1, FS_RemoveElement
    <3>3. QED
      BY <1>4, <1>6, <3>1, <3>2
  <2>2. CASE ~(Cardinality(seen \cup {c}) > MaxSeen)
    <3>1. seen' = seen \cup {c}
      BY <1>1, <2>2 DEF Remembered
    <3>2. QED
      BY <1>4, <1>6, <2>2, <3>1
  <2>3. QED
    BY <2>1, <2>2
<1>8. seen' \subseteq Ringed'
  BY <1>3, <1>7 DEF RingInv
<1>9. ASSUME Cardinality(Ringed') <= MaxSeen PROVE seen' = Ringed'
  <2>1. seen = Ringed
    BY <1>4, <1>5, <1>9 DEF RingInv
  <2>2. Cardinality(seen \cup {c}) <= MaxSeen
    BY <1>3, <1>9, <2>1
  <2>3. seen' = seen \cup {c}
    BY <1>1, <1>4, <1>6, <2>2 DEF Remembered
  <2>4. QED
    BY <1>3, <2>1, <2>3
<1>10. ASSUME NEW d \in Calls, told'[d] > 1 PROVE Cardinality(Ringed') > MaxSeen
  <2>1. CASE d = c
    <3>1. c \in Ringed
      BY <1>1, <1>2, <1>10, <2>1 DEF Ringed
    <3>2. ~(Cardinality(Ringed) <= MaxSeen)
      BY <1>1, <3>1 DEF RingInv
    <3>3. QED
      BY <1>4, <1>5, <3>2
  <2>2. CASE d # c
    <3>1. Cardinality(Ringed) > MaxSeen
      BY <1>1, <1>2, <1>10, <2>2 DEF RingInv, RingAnnouncedOnce, Ringed
    <3>2. QED
      BY <1>4, <1>5, <3>1
  <2>3. QED
    BY <2>1, <2>2
<1>11. RingAnnouncedOnce'
  BY <1>1, <1>10 DEF RingAnnouncedOnce, Ringed
<1>12. QED
  BY <1>1, <1>2, <1>5, <1>7, <1>8, <1>9, <1>11 DEF RingInv

-----------------------------------------------------------------------------
(* The invariant *)

LEMMA ZeroTold == 0 \in 0 .. 2
OBVIOUS

LEMMA OnceMoreTold ==
  ASSUME NEW f \in [Calls -> 0 .. 2], NEW c \in Calls
  PROVE  [f EXCEPT ![c] = IF f[c] < 2 THEN f[c] + 1 ELSE f[c]] \in [Calls -> 0 .. 2]
<1>1. ASSUME NEW n \in 0 .. 2 PROVE (IF n < 2 THEN n + 1 ELSE n) \in 0 .. 2
  OBVIOUS
<1>2. f[c] \in 0 .. 2
  OBVIOUS
<1>3. (IF f[c] < 2 THEN f[c] + 1 ELSE f[c]) \in 0 .. 2
  BY <1>1, <1>2
<1>4. QED
  BY <1>3

LEMMA InvInit == Init => IInv
<1> SUFFICES ASSUME Init PROVE IInv
  OBVIOUS
<1> USE ClientsAssumption
<1>1. OwnInv
  BY InitOwns
<1>2. IsFiniteSet({}) /\ Cardinality({}) = 0
  BY FS_EmptySet
<1>3. seen = {} /\ \A d \in Calls : told[d] = 0
  BY DEF Init, NoRings
<1>4. Ringed = {}
  BY <1>3 DEF Ringed
<1>5. entry = "not loaded"
  BY DEF Init
<1>6. RingAnnouncedOnce
  <2>1. entry = "loaded" /\ ringing => reset
    BY <1>5
  <2>2. \A c \in Calls : told[c] > 1 => Cardinality({d \in Calls : told[d] > 0}) > MaxSeen
    BY <1>3
  <2>3. QED
    BY <2>1, <2>2 DEF RingAnnouncedOnce
<1>7. step = "none"
  BY DEF Init, ProvisioningInit
<1>8. RingInv
  BY <1>2, <1>3, <1>4, <1>6, <1>7 DEF RingInv
<1>9. ProvisioningTypeOK /\ IdentityKnown
  BY DEF Init, ProvisioningInit, ProvisioningTypeOK, IdentityKnown
<1>10. ManagerTypes
  <2>1. told = [c \in Calls |-> 0]
    BY DEF Init, NoRings
  <2>2. told \in [Calls -> 0 .. 2]
    BY <2>1, ZeroTold
  <2>3. QED
    BY <2>2 DEF Init, NoRings, ManagerTypes
<1>11. Sizes
  <2>1. orphans = {}
    BY DEF Init
  <2>2. QED
    BY <1>2, <1>3, <2>1 DEF Sizes
<1>12. QED
  BY <1>1, <1>8, <1>9, <1>10, <1>11 DEF IInv

(* What a step does to the provisioning of a start. *)
LEMMA StepProvisions ==
  ASSUME ProvisioningTypeOK, IdentityKnown, [Next]_vars
  PROVE  /\ ProvisioningTypeOK' /\ IdentityKnown'
         /\ idStore # None => idStore' = idStore /\ accounts' \subseteq accounts \cup {idStore}
<1>1. CASE SetupBegins
  BY <1>1 DEF SetupBegins, StartBegins, ProvisioningTypeOK, IdentityKnown, Goes, material, Steps
<1>2. CASE SetupGoesOn
  BY <1>2, StartTypes, StartKeepsIdentity DEF SetupGoesOn
<1>3. CASE SetupConnected \/ SetupUndone \/ SetupFailsLate \/ Restart
  BY <1>3 DEF SetupConnected, SetupUndone, SetupFailsLate, Restart, ProcessLost, Over, Goes,
              ProvisioningTypeOK, IdentityKnown, material, Steps
<1>4. CASE UNCHANGED provisioning
  <2>1. /\ step' = step /\ ident' = ident /\ idStore' = idStore /\ access' = access
        /\ refresh' = refresh /\ unsaved' = unsaved /\ tokenStore' = tokenStore
        /\ cert' = cert /\ current' = current /\ key' = key /\ ca' = ca
        /\ accounts' = accounts
    BY <1>4 DEF provisioning, tokens, material
  <2>2. QED
    BY <2>1 DEF ProvisioningTypeOK, IdentityKnown
<1>5. CASE TokenExpires \/ CertificateAges
  <2>1. /\ step' = step /\ ident' = ident /\ idStore' = idStore
        /\ refresh' = refresh /\ unsaved' = unsaved /\ tokenStore' = tokenStore
        /\ cert' = cert /\ key' = key /\ ca' = ca /\ accounts' = accounts
    BY <1>5 DEF TokenExpires, CertificateAges, tokens, material
  <2>2. access' \in {access, FALSE} /\ current' \in {current, FALSE}
    BY <1>5 DEF TokenExpires, CertificateAges, tokens, material
  <2>3. access' \in BOOLEAN /\ current' \in BOOLEAN
    BY <2>2 DEF ProvisioningTypeOK
  <2>4. QED
    BY <2>1, <2>3 DEF ProvisioningTypeOK, IdentityKnown
<1>6. CASE AccountRemoved
  <2>1. /\ step' = step /\ ident' = ident /\ idStore' = idStore /\ access' = access
        /\ refresh' = refresh /\ unsaved' = unsaved /\ tokenStore' = tokenStore
        /\ cert' = cert /\ current' = current /\ key' = key /\ ca' = ca
    BY <1>6 DEF AccountRemoved, tokens, material
  <2>2. accounts' \subseteq accounts
    BY <1>6 DEF AccountRemoved
  <2>3. QED
    BY <2>1, <2>2 DEF ProvisioningTypeOK, IdentityKnown
<1>7. QED
  BY <1>1, <1>2, <1>3, <1>4, <1>5, <1>6
  DEF Surroundings, Next, vars, BossGoesOn, SetupDials, TlsUp, ConnectRaises, BossWakes, RuntimeClosed, ClientClosed,
      BossDials, BossUndone, BossConnected, StopBegins, StopEnds, StopCloses, RingCleared, LinkLost, Rings

LEMMA StepTypes ==
  ASSUME ManagerTypes, Sizes, OwnInv, RingInv, [Next]_vars
  PROVE  ManagerTypes'
<1> USE ClientsAssumption DEF ManagerTypes, Alive, connecting, owned, rings, OwnInv, Turns, Holdings
<1>1. CASE SetupBegins
  <2>1. told' = [c \in Calls |-> 0]
    BY <1>1 DEF SetupBegins
  <2>2. told' \in [Calls -> 0 .. 2]
    BY <2>1, ZeroTold
  <2>3. QED
    BY <1>1, <2>2 DEF SetupBegins
<1>2. CASE SetupGoesOn
  BY <1>2 DEF SetupGoesOn
<1>3. CASE SetupDials
  BY <1>3 DEF SetupDials, DialBegins, Link
<1>4. CASE SetupConnected
  BY <1>4 DEF SetupConnected, Connected, Link
<1>5. CASE SetupUndone
  BY <1>5 DEF SetupUndone, DialUndone, Link
<1>6. CASE SetupFailsLate
  BY <1>6 DEF SetupFailsLate, Link
<1>7. CASE TlsUp
  BY <1>7 DEF TlsUp, Link
<1>8. CASE ConnectRaises
  BY <1>8 DEF ConnectRaises
<1>9. CASE BossWakes
  <2>1. boss' \in {"closing runtime", "closing client", "sleeping"}
    BY <1>9 DEF BossWakes
  <2>2. QED
    BY <1>9, <2>1 DEF BossWakes
<1>10. CASE RuntimeClosed
  BY <1>10 DEF RuntimeClosed
<1>11. CASE ClientClosed
  BY <1>11 DEF ClientClosed, Link
<1>12. CASE BossDials
  BY <1>12 DEF BossDials, DialBegins, Link
<1>13. CASE BossUndone
  BY <1>13 DEF BossUndone, DialUndone, Link
<1>14. CASE BossConnected
  BY <1>14 DEF BossConnected, Connected, Link
<1>15. CASE StopBegins
  BY <1>15 DEF StopBegins
<1>16. CASE StopEnds
  BY <1>16 DEF StopEnds
<1>17. CASE StopCloses
  BY <1>17 DEF StopCloses
<1>18. CASE RingCleared
  BY <1>18 DEF RingCleared
<1>19. CASE Restart
  <2>1. told' = [c \in Calls |-> 0]
    BY <1>19 DEF Restart
  <2>2. told' \in [Calls -> 0 .. 2]
    BY <2>1, ZeroTold
  <2>3. QED
    BY <1>19, <2>2 DEF Restart
<1>20. ASSUME NEW k \in Clients, LinkLost(k) PROVE ManagerTypes'
  BY <1>20 DEF LinkLost, Link
<1>21. ASSUME NEW c \in Calls, Rings(c) PROVE ManagerTypes'
  <2>1. seen' \subseteq Calls
    BY <1>21, RingKeepsRings
  <2>2. told' \in [Calls -> 0 .. 2]
    <3>1. told[c] \in 0 .. 2 /\ told' = [told EXCEPT ![c] = IF told[c] < 2 THEN told[c] + 1 ELSE told[c]]
      BY <1>21 DEF Rings
    <3>2. QED
      BY <3>1, OnceMoreTold
  <2>3. QED
    BY <1>21, <2>1, <2>2 DEF Rings
<1>22. CASE UNCHANGED <<entry, connecting, owned, boss, orphans, rings>>
  BY <1>22
<1>23. QED
  BY <1>1, <1>2, <1>3, <1>4, <1>5, <1>6, <1>7, <1>8, <1>9, <1>10, <1>11, <1>12, <1>13, <1>14,
     <1>15, <1>16, <1>17, <1>18, <1>19, <1>20, <1>21, <1>22 DEF Next, BossGoesOn, vars

(* The sets that grow stay within their bounds. *)
LEMMA StepSizes ==
  ASSUME ManagerTypes, Sizes, OwnInv, RingInv, [Next]_vars
  PROVE  Sizes'
<1> USE ClientsAssumption
<1>1. IsFiniteSet({}) /\ Cardinality({}) = 0
  BY FS_EmptySet
<1>2. CASE UNCHANGED <<orphans, seen>>
  BY <1>2 DEF Sizes
<1>3. CASE seen' = {} /\ (orphans' = orphans \/ orphans' = {})
  BY <1>1, <1>3 DEF Sizes
<1>4. CASE seen' = seen /\ orphans' = orphans \cup {dialled} /\ Cardinality(orphans) < MaxOrphans
  <2>1. Cardinality(orphans) \in Nat
    BY FS_CardinalityType DEF Sizes
  <2>2. /\ IsFiniteSet(orphans \cup {dialled})
        /\ Cardinality(orphans \cup {dialled}) \in {Cardinality(orphans), Cardinality(orphans) + 1}
    BY FS_AddElement DEF Sizes
  <2>3. QED
    BY <1>4, <2>1, <2>2 DEF Sizes
<1>5. ASSUME NEW c \in Calls, Rings(c) PROVE Sizes'
  <2>1. orphans' = orphans
    BY <1>5 DEF Rings
  <2>2. IsFiniteSet(seen') /\ Cardinality(seen') <= MaxSeen
    BY <1>5, RingKeepsRings
  <2>3. QED
    BY <2>1, <2>2 DEF Sizes
<1>6. CASE SetupBegins \/ Restart
  BY <1>3, <1>6 DEF SetupBegins, Restart
<1>7. CASE SetupFailsLate \/ StopBegins
  BY <1>2, <1>4, <1>7 DEF SetupFailsLate, StopBegins, rings
<1>8. QED
  BY <1>2, <1>5, <1>6, <1>7
  DEF Next, vars, rings, BossGoesOn, SetupGoesOn, SetupDials, SetupConnected, SetupUndone, TlsUp,
      ConnectRaises, BossWakes, RuntimeClosed, ClientClosed, BossDials, BossUndone, BossConnected,
      StopEnds, StopCloses, RingCleared, LinkLost

LEMMA StepRings ==
  ASSUME ProvisioningTypeOK, ManagerTypes, Sizes, OwnInv, RingInv, [Next]_vars
  PROVE  RingInv'
<1> USE DEF provisioning, rings, OwnInv, Turns, RingInv
<1>1. entry = "loaded" /\ ringing => reset
  BY DEF RingAnnouncedOnce
<1>2. CASE SetupBegins \/ Restart
  BY <1>2, NewManagerRings DEF SetupBegins, Restart
<1>3. CASE SetupGoesOn
  BY <1>1, <1>3, StartKeepsPhase, QuietKeepsRings DEF SetupGoesOn
<1>4. CASE SetupConnected \/ SetupUndone \/ SetupFailsLate
  <2>1. /\ ringing => reset
        /\ UNCHANGED <<seen, told, ringing, reset>>
    BY <1>4 DEF SetupConnected, SetupUndone, SetupFailsLate, Over, Goes
  <2>2. QED
    BY <2>1, QuietKeepsRings
<1>5. CASE StopBegins \/ StopEnds \/ StopCloses
  BY <1>1, <1>5, QuietKeepsRings DEF StopBegins, StopEnds, StopCloses
<1>6. CASE RingCleared
  BY <1>6, QuietKeepsRings DEF RingCleared
<1>7. ASSUME NEW c \in Calls, Rings(c) PROVE RingInv'
  BY <1>7, RingKeepsRings
<1>8. CASE UNCHANGED <<provisioning, entry, rings>>
  BY <1>1, <1>8, QuietKeepsRings
<1>9. CASE Surroundings /\ UNCHANGED <<entry, connecting, owned, boss, orphans, rings>>
  BY <1>1, <1>9, QuietKeepsRings DEF Surroundings, TokenExpires, CertificateAges, AccountRemoved
<1>10. QED
  BY <1>2, <1>3, <1>4, <1>5, <1>6, <1>7, <1>8, <1>9
  DEF Next, vars, BossGoesOn, SetupDials, TlsUp, ConnectRaises, BossWakes, RuntimeClosed, ClientClosed,
      BossDials, BossUndone, BossConnected, LinkLost

LEMMA InvStep == IInv /\ [Next]_vars => IInv'
BY StepProvisions, StepTypes, StepSizes, StepOwns, StepRings DEF IInv

LEMMA InvAlways == Spec => []IInv
BY InvInit, InvStep, PTL DEF Spec

-----------------------------------------------------------------------------
(* Theorems *)

(* Every variable of the entry keeps its type, and neither the rings that are *)
(* remembered nor the clients that are left over exceed their bounds.        *)
THEOREM TypeCorrect == Spec => []TypeOK
<1>1. IInv => TypeOK
  BY DEF IInv, ProvisioningTypeOK, ManagerTypes, Sizes, TypeOK
<1>2. QED
  BY <1>1, InvAlways, PTL

(* _connect, _supervise, async_stop and async_setup_entry together: a client *)
(* that may hold a connection is the manager's own, or is being made, or is  *)
(* one of the orphans of the two ways that the model names; and the session  *)
(* in use is that of the current client.                                    *)
THEOREM ConnectionAlwaysOwned == Spec => []ConnectionIsOwned
<1>1. IInv => ConnectionIsOwned
  BY DEF IInv, OwnInv
<1>2. QED
  BY <1>1, InvAlways, PTL

(* _async_ring: a ring is announced once unless more calls have rung than are *)
(* remembered, and in a loaded entry the ringing state will be cleared.      *)
THEOREM RingsAnnouncedOnce == Spec => []RingAnnouncedOnce
<1>1. IInv => RingAnnouncedOnce
  BY DEF IInv, RingInv
<1>2. QED
  BY <1>1, InvAlways, PTL

(* _prepare_account_and_certificate: after its client id has been saved no   *)
(* start takes another, nor registers an account for another, whatever was   *)
(* lost or interrupted before.                                              *)
THEOREM SavedIdentityAlwaysKept == Spec => SavedIdentityKept
<1>1. IInv /\ [Next]_vars
      => [idStore # None => idStore' = idStore /\ accounts' \subseteq accounts \cup {idStore}]_vars
  BY StepProvisions DEF IInv
<1>2. QED
  BY <1>1, InvAlways, PTL DEF Spec, SavedIdentityKept

=============================================================================
