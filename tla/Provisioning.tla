----------------------------- MODULE Provisioning -----------------------------
(***************************************************************************)
(* How a start of the integration comes by its identity: tokens of the      *)
(* account (auth.py), the SIP account of this client (api.py), a certificate *)
(* for it (certificate.py), and the store that remembers the client id      *)
(* (manager.py, async_start and _prepare_account_and_certificate).  What is  *)
(* on disk and in the cloud outlives a crash; the rest does not.            *)
(*                                                                          *)
(* step is what the start is waiting for; "none" if no start is under way,  *)
(* "ready" when the connection can be made.                                 *)
(***************************************************************************)
EXTENDS Naturals, FiniteSets

CONSTANTS
  Ids,    \* client ids that may be drawn
  None

ASSUME IdsAssumption == None \notin Ids

VARIABLES
  step,
  ident,        \* the client id of this start
  access,       \* whether the access token is valid for five minutes more
  refresh,      \* the refresh token: "none", "current", or "spent" once rotated
  unsaved,      \* whether new tokens are still to be saved
  tokenStore,   \* the refresh token of the token store
  idStore,      \* the client id of the manager's store
  cert,         \* client.crt: whose certificate it is
  current,      \* whether it is valid for thirty days more
  key,          \* client.key: "own" if it is the key of that certificate
  ca,           \* whether ca-chain.crt is there
  accounts      \* the SIP accounts of the gateway, in the cloud

tokens == <<access, refresh, unsaved, tokenStore>>
material == <<cert, current, key, ca>>
provisioning == <<step, ident, tokens, idStore, material, accounts>>

Steps == {"modules", "accounts", "registration", "inspection", "certificate",
          "writing certificate", "writing key", "writing CA", "save", "ready"}

ProvisioningTypeOK ==
  /\ step \in Steps \cup {"none"}
  /\ ident \in Ids \cup {None} /\ idStore \in Ids \cup {None}
  /\ access \in BOOLEAN /\ unsaved \in BOOLEAN
  /\ refresh \in {"none", "current", "spent"}
  /\ tokenStore \in {"none", "current", "spent"}
  /\ cert \in Ids \cup {None} /\ current \in BOOLEAN /\ ca \in BOOLEAN
  /\ key \in {"none", "own", "other"}
  /\ accounts \subseteq Ids

ProvisioningInit ==
  /\ step = "none" /\ ident = None /\ idStore = None
  /\ access = FALSE /\ refresh = "none" /\ unsaved = FALSE /\ tokenStore = "none"
  /\ cert = None /\ current = FALSE /\ key = "none" /\ ca = FALSE
  /\ accounts = {}

-----------------------------------------------------------------------------
(* Tokens *)

\* a request is under way, and has its token
Calling(s) == step = s /\ access /\ ~unsaved

NeedsToken ==
  /\ step \in {"modules", "accounts", "registration", "certificate"}
  /\ ~access /\ ~unsaved

\* _exchange was accepted; the cloud may rotate the refresh token
Exchanged ==
  /\ access' = TRUE /\ refresh' = "current" /\ unsaved' = TRUE
  /\ tokenStore' \in {tokenStore, IF tokenStore = "current" THEN "spent" ELSE tokenStore}
  /\ UNCHANGED <<step, ident, idStore, material, accounts>>

TokenRefreshed == NeedsToken /\ refresh = "current" /\ Exchanged

\* the password is tried next
RefreshRefused ==
  /\ NeedsToken /\ refresh # "none"
  /\ refresh' = "none"
  /\ UNCHANGED <<step, ident, access, unsaved, tokenStore, idStore, material, accounts>>

LoggedIn == NeedsToken /\ refresh = "none" /\ Exchanged

TokensSaved ==
  /\ unsaved
  /\ unsaved' = FALSE /\ tokenStore' = refresh
  /\ UNCHANGED <<step, ident, access, refresh, idStore, material, accounts>>

TokenExpires ==
  /\ access /\ ~unsaved
  /\ access' = FALSE
  /\ UNCHANGED <<step, ident, refresh, unsaved, tokenStore, idStore, material, accounts>>

-----------------------------------------------------------------------------
(* The steps of a start *)

Goes(next) == step' = next

\* the start is over; its identity and its tokens are not used again
Over ==
  /\ Goes("none")
  /\ ident' = None
  /\ access' = FALSE /\ refresh' = "none" /\ unsaved' = FALSE

\* async_setup_entry: the stored tokens are restored; they may have expired
StartBegins ==
  /\ step = "none"
  /\ Goes("modules")
  /\ ident' = None
  /\ refresh' = tokenStore /\ unsaved' = FALSE
  /\ access' \in {FALSE, tokenStore # "none"}
  /\ UNCHANGED <<tokenStore, idStore, material, accounts>>

\* mutant: the stored id is not used
IdentityNew == {i \in Ids : i \notin accounts}

\* the stored id, or one that nobody has drawn before
Identity == IF idStore # None THEN {idStore} ELSE {i \in Ids : i \notin accounts}

\* there is a door release to show, and the store is read
ModulesListed ==
  /\ Calling("modules")
  /\ Goes("accounts")
  /\ ident' \in Identity
  /\ UNCHANGED <<tokens, idStore, material, accounts>>

AccountsListed ==
  /\ Calling("accounts")
  /\ Goes(IF ident \in accounts THEN "inspection" ELSE "registration")
  /\ UNCHANGED <<ident, tokens, idStore, material, accounts>>

AccountRegistered ==
  /\ Calling("registration")
  /\ Goes("inspection")
  /\ accounts' = accounts \cup {ident}
  /\ UNCHANGED <<ident, tokens, idStore, material>>

\* The request reached the cloud but each of its three attempts was answered
\* with an error, or with nothing.
RegistrationUnconfirmed ==
  /\ Calling("registration")
  /\ Over
  /\ accounts' = accounts \cup {ident}
  /\ UNCHANGED <<tokenStore, idStore, material>>

CertificateIsCurrent == cert # None /\ key # "none" /\ ca /\ current

Inspected ==
  /\ step = "inspection"
  /\ Goes(IF CertificateIsCurrent THEN "save" ELSE "certificate")
  /\ UNCHANGED <<ident, tokens, idStore, material, accounts>>

\* a key is made, its certificate and the CA chain are fetched
CertificateIssued ==
  /\ Calling("certificate")
  /\ Goes("writing certificate")
  /\ UNCHANGED <<ident, tokens, idStore, material, accounts>>

\* _write_material, one file after the other
CertificateWritten ==
  /\ step = "writing certificate"
  /\ Goes("writing key")
  /\ cert' = ident /\ current' = TRUE
  /\ key' = IF key = "none" THEN "none" ELSE "other"
  /\ UNCHANGED <<ident, tokens, idStore, ca, accounts>>

KeyWritten ==
  /\ step = "writing key"
  /\ Goes("writing CA")
  /\ key' = "own"
  /\ UNCHANGED <<ident, tokens, idStore, cert, current, ca, accounts>>

CaWritten ==
  /\ step = "writing CA"
  /\ Goes("save")
  /\ ca' = TRUE
  /\ UNCHANGED <<ident, tokens, idStore, cert, current, key, accounts>>

IdentitySaved ==
  /\ step = "save"
  /\ Goes("ready")
  /\ idStore' = ident
  /\ UNCHANGED <<ident, tokens, material, accounts>>

\* An error of the cloud, of the login or of the disk ends the start; Home
\* Assistant tries again, or asks for the password and then tries again.
StartFails ==
  /\ step \notin {"none", "ready"}
  /\ Over
  /\ UNCHANGED <<tokenStore, idStore, material, accounts>>

-----------------------------------------------------------------------------
(* What happens meanwhile *)

CertificateAges ==
  /\ current
  /\ current' = FALSE
  /\ UNCHANGED <<step, ident, tokens, idStore, cert, key, ca, accounts>>

\* the user of the official app removes a client
AccountRemoved ==
  /\ \E i \in accounts : accounts' = accounts \ {i}
  /\ UNCHANGED <<step, ident, tokens, idStore, material>>

\* the process stops, at whatever point
ProcessLost ==
  /\ Over
  /\ UNCHANGED <<tokenStore, idStore, material, accounts>>

StartGoesOn ==
  \/ TokenRefreshed \/ RefreshRefused \/ LoggedIn \/ TokensSaved
  \/ ModulesListed \/ AccountsListed \/ AccountRegistered \/ RegistrationUnconfirmed
  \/ Inspected \/ CertificateIssued \/ CertificateWritten \/ KeyWritten
  \/ CaWritten \/ IdentitySaved \/ StartFails

Surroundings == TokenExpires \/ CertificateAges \/ AccountRemoved

=============================================================================
