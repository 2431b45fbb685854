---------------------------- MODULE ClientTable ----------------------------
(***************************************************************************)
(* The OAuthClient table (contrib/oauth/models.py) and everyone who writes *)
(* to it: the operator through the admin site, dynamic registration, and   *)
(* the token endpoint when it auto-registers a PKCE client.  The OAuth     *)
(* modules extend this one; it has no next-state relation of its own.      *)
(*                                                                         *)
(* A tier is its index in the ladder read < read_write < admin, which ends *)
(* at TopTier = 2.                                                         *)
(***************************************************************************)
EXTENDS Naturals

CONSTANTS
  ClientIds,        \* client_id values that occur
  WalkUpIds,        \* those a connector made up; the others come out of secrets
  Uris,             \* redirect URIs that pass _redirect_uri_is_safe
  TopTier,          \* the highest rung of the tier ladder
  DefaultTier,      \* FRISIAN_MCP_OAUTH_PKCE_DEFAULT_PERMISSION, validated
  RegistrationOpen, \* FRISIAN_MCP_OAUTH_REGISTRATION_OPEN
  AutoRegister,     \* FRISIAN_MCP_OAUTH_PKCE_AUTO_REGISTER
  Allowlisted,      \* URIs whose host is on the auto-register allowlist
  MaxGen,           \* bound: rows ever created for one client_id
  MaxEdits          \* bound: operator steps

Tiers == 0..TopTier
GrantSets == {{}, {"client_credentials"}, {"authorization_code"}}

ASSUME TableAssumption ==
  /\ WalkUpIds \subseteq ClientIds
  /\ TopTier \in Nat /\ DefaultTier \in Tiers
  /\ RegistrationOpen \in BOOLEAN /\ AutoRegister \in BOOLEAN
  /\ Allowlisted \subseteq Uris
  /\ MaxGen \in Nat /\ MaxEdits \in Nat

VARIABLES
  clients,  \* the row of each client_id, or NoRow
  gens,     \* rows ever created per client_id: the primary key of its row
  edits     \* operator steps taken

tableVars == <<clients, gens, edits>>

Row == [gen: Nat, active: BOOLEAN, tier: Tiers, uris: SUBSET Uris,
        grants: GrantSets]

NoRow == [gen |-> 0, active |-> FALSE, tier |-> 0, uris |-> {}, grants |-> {}]

Exists(id) == clients[id].gen > 0

\* OAuthClient.objects.get(client_id=id, is_active=True) finds a row.
ActiveRow(id) == clients[id].active

\* An empty grant_types list restricts nothing (RFC 7591).
Allows(row, grant) == row.grants = {} \/ grant \in row.grants

\* _validate_authorize_params: an unknown or inactive client_id is let through
\* only to be auto-registered, and only for an allowlisted URI.
KnownClient(id, uri) == ActiveRow(id) /\ uri \in clients[id].uris
FirstTouch(id, uri) == ~ActiveRow(id) /\ AutoRegister /\ uri \in Allowlisted
Validated(id, uri) == KnownClient(id, uri) \/ FirstTouch(id, uri)

TableTypeOK ==
  /\ clients \in [ClientIds -> Row]
  /\ gens \in [ClientIds -> Nat]
  /\ edits \in Nat

TableInit ==
  /\ clients = [id \in ClientIds |-> NoRow]
  /\ gens = [id \in ClientIds |-> 0]
  /\ edits = 0

-----------------------------------------------------------------------------

\* Seeded defect: an existing row is written over (update_or_create).
InsertOrReplace(id, tier, uris, grants) ==
  /\ gens[id] < MaxGen
  /\ gens' = [gens EXCEPT ![id] = @ + 1]
  /\ clients' = [clients EXCEPT ![id] =
       [gen |-> gens[id] + 1, active |-> TRUE, tier |-> tier, uris |-> uris,
        grants |-> grants]]

\* A new row: the unique constraint on client_id lets one exist at a time.
Insert(id, tier, uris, grants) ==
  /\ ~Exists(id)
  /\ gens[id] < MaxGen
  /\ gens' = [gens EXCEPT ![id] = @ + 1]
  /\ clients' = [clients EXCEPT ![id] =
       [gen |-> gens[id] + 1, active |-> TRUE, tier |-> tier, uris |-> uris,
        grants |-> grants]]

\* A client_id that secrets.token_hex has just drawn was never seen before.
Fresh(id) == id \notin WalkUpIds /\ gens[id] = 0

\* Nobody presents an identifier that has not been drawn.
Known(id) == id \in WalkUpIds \/ gens[id] > 0

OperatorStep == edits < MaxEdits /\ edits' = edits + 1

\* The admin's add form leaves grant_types empty; a management script sets it.
OperatorCreate(id, tier, uris, grants) ==
  /\ OperatorStep
  /\ Fresh(id)
  /\ Insert(id, tier, uris, grants)

\* The change form saves every editable column; grant_types is not one.
OperatorSave(id, active, tier, uris) ==
  /\ OperatorStep
  /\ Exists(id)
  /\ clients' = [clients EXCEPT ![id] =
       [@ EXCEPT !.active = active, !.tier = tier, !.uris = uris]]
  /\ clients' # clients
  /\ UNCHANGED gens

OperatorDelete(id) ==
  /\ OperatorStep
  /\ Exists(id)
  /\ clients' = [clients EXCEPT ![id] = NoRow]
  /\ UNCHANGED gens

\* POST /oauth/register/: the tier is the operator's default whatever is asked.
Register(id, uris) ==
  /\ RegistrationOpen
  /\ Fresh(id)
  /\ Insert(id, DefaultTier, uris, {})
  /\ UNCHANGED edits

=============================================================================
