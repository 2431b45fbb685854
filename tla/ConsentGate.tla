---------------------------- MODULE ConsentGate ----------------------------
(***************************************************************************)
(* The authorize endpoint (AuthorizeView in contrib/oauth/views.py) and    *)
(* its consent gate (_consent_gate.py).  A GET answers with a code at once *)
(* (the fast path, for a remembered consent) or with the consent form; the *)
(* POST of the form records the consent and issues the code.  Every read   *)
(* and write of the database is a step: requests overlap, and the operator *)
(* edits clients and revokes consents between their steps.  The server     *)
(* remembers no form, so a POST may come without one.                      *)
(***************************************************************************)
EXTENDS ClientTable

CONSTANTS
  Users,        \* authenticated Django users
  Anonymous,    \* request.user of a request without a session
  Requests,     \* worker threads serving the endpoint
  None,
  AutoApprove   \* FRISIAN_MCP_OAUTH_AUTO_APPROVE

ASSUME ConsentAssumption ==
  /\ Anonymous \notin Users /\ None \notin ClientIds \cup Uris
  /\ AutoApprove \in BOOLEAN

VARIABLES
  consents,  \* rows of OAuthAuthorizeConsent; (user, fingerprint) is unique
  coded,     \* the client and URI of every code issued so far
  request,   \* what each thread is serving
  approved,  \* history: tuples a user allowed by a POST, or an operator entered
  witness    \* history: what the database held since each request came in

consentVars == <<consents, coded, request, approved, witness>>
vars == <<tableVars, consentVars>>

Consent == [user: Users, client: ClientIds, uri: Uris, scope: Tiers]
Coded == [client: ClientIds, uri: Uris]

Idle == [pc |-> "idle", user |-> Anonymous, client |-> None, uri |-> None, scope |-> 0]

GetSteps == {"tier", "consent", "fast"}
PostSteps == {"scope", "find", "insert", "refind", "issue"}

Request == [pc: GetSteps \cup PostSteps, user: Users \cup {Anonymous},
            client: ClientIds, uri: Uris, scope: Tiers]

\* The consent tuple a request is about.
Grant(r) == [user |-> r.user, client |-> r.client, uri |-> r.uri, scope |-> r.scope]

TypeOK ==
  /\ TableTypeOK
  /\ consents \subseteq Consent
  /\ coded \subseteq Coded
  /\ request \in [Requests -> Request \cup {Idle}]
  /\ \A r \in Requests :
       request[r].pc \in GetSteps \cup {"find", "insert", "refind"} => request[r].user \in Users
  /\ approved \subseteq Consent
  /\ witness \in [Requests ->
       [tiers: SUBSET Tiers, rowless: BOOLEAN, scopes: SUBSET Tiers, known: BOOLEAN]]

Nothing == [tiers |-> {}, rowless |-> FALSE, scopes |-> {}, known |-> FALSE]

Init ==
  /\ TableInit
  /\ consents = {} /\ coded = {} /\ approved = {}
  /\ request = [r \in Requests |-> Idle]
  /\ witness = [r \in Requests |-> Nothing]

\* The last conjunct of every action: the tiers its client had, and those its
\* user had consented to, since each request came in.
Remember ==
  witness' = [r \in Requests |->
    LET new == request[r].pc = "idle"
        row == clients'[request'[r].client]
        about(g) == [g EXCEPT !.scope = 0] = [Grant(request'[r]) EXCEPT !.scope = 0]
    IN IF request'[r].pc = "idle" THEN Nothing ELSE
       [tiers |-> witness[r].tiers \cup IF row.active THEN {row.tier} ELSE {},
        rowless |-> witness[r].rowless \/ ~row.active,
        scopes |-> witness[r].scopes \cup {g.scope : g \in {g \in consents' : about(g)}},
        known |-> IF new THEN KnownClient(request'[r].client, request'[r].uri)
                         ELSE witness[r].known]]

-----------------------------------------------------------------------------
(* GET                                                                      *)

Finish(r) == request' = [request EXCEPT ![r] = Idle]
Goto(r, pc) == request' = [request EXCEPT ![r].pc = pc]
Start(r, pc, user, id, uri) ==
  request' = [request EXCEPT ![r] =
    [pc |-> pc, user |-> user, client |-> id, uri |-> uri, scope |-> 0]]

\* Seeded defect: just_auto_registered is ignored, as before T9.
GoesOnUnregistered(user, id, uri) == AutoApprove /\ user \in Users /\ Validated(id, uri)

\* Anything else ends in the form or in an error, and leaves no trace here.
GoesOn(user, id, uri) == AutoApprove /\ user \in Users /\ KnownClient(id, uri)

Get(r, user, id, uri) ==
  /\ request[r].pc = "idle"
  /\ Known(id) /\ GoesOn(user, id, uri)
  /\ Start(r, "tier", user, id, uri)
  /\ UNCHANGED <<tableVars, consents, coded, approved>>
  /\ Remember

\* has_prior_consent: the row of the client is read again for its tier ...
ReadTier(r) ==
  LET row == clients[request[r].client] IN
  /\ request[r].pc = "tier"
  /\ IF row.active
     THEN request' = [request EXCEPT ![r].pc = "consent", ![r].scope = row.tier]
     ELSE Finish(r)
  /\ UNCHANGED <<tableVars, consents, coded, approved>>
  /\ Remember

\* Seeded defect: a consent counts whatever tier it was given for.
AnyScopeConsented(grant) == \E s \in Tiers : [grant EXCEPT !.scope = s] \in consents
Consented(grant) == grant \in consents

\* ... and a consent to exactly that tuple is looked up.
ReadConsent(r) ==
  /\ request[r].pc = "consent"
  /\ IF Consented(Grant(request[r])) THEN Goto(r, "fast") ELSE Finish(r)
  /\ UNCHANGED <<tableVars, consents, coded, approved>>
  /\ Remember

\* _issue_code_redirect.
Issue(r) ==
  /\ request[r].pc \in {"fast", "issue"}
  /\ coded' = coded \cup {[client |-> request[r].client, uri |-> request[r].uri]}
  /\ Finish(r)
  /\ UNCHANGED <<tableVars, consents, approved>>
  /\ Remember

-----------------------------------------------------------------------------
(* POST with allow=true.  A refusal, or an error, leaves no trace here.     *)

Post(r, user, id, uri) ==
  /\ request[r].pc = "idle"
  /\ Known(id) /\ Validated(id, uri)
  /\ Start(r, "scope", user, id, uri)
  /\ UNCHANGED <<tableVars, consents, coded, approved>>
  /\ Remember

ScopeNow(id) == IF clients[id].active THEN clients[id].tier ELSE DefaultTier

\* Seeded defect: the default tier is recorded whatever the client's.
ReadDefaultScope(r) ==
  /\ request[r].pc = "scope" /\ request[r].user # Anonymous
  /\ request' = [request EXCEPT ![r].pc = "find", ![r].scope = DefaultTier]
  /\ UNCHANGED <<tableVars, consents, coded, approved>>
  /\ Remember

\* Seeded defect: an anonymous approval is recorded too.
ReadScopeOfAnyone(r) ==
  /\ request[r].pc = "scope"
  /\ request' = [request EXCEPT ![r].pc = "find", ![r].scope = ScopeNow(request[r].client)]
  /\ UNCHANGED <<tableVars, consents, coded, approved>>
  /\ Remember

\* The tier is read again; a client without an active row is about to be
\* registered at the default tier.  record_consent ignores anonymous requests.
ReadScope(r) ==
  LET scope == ScopeNow(request[r].client) IN
  /\ request[r].pc = "scope"
  /\ IF request[r].user = Anonymous
     THEN Goto(r, "issue") /\ UNCHANGED approved
     ELSE /\ request' = [request EXCEPT ![r].pc = "find", ![r].scope = scope]
          /\ approved' = approved \cup {[Grant(request[r]) EXCEPT !.scope = scope]}
  /\ UNCHANGED <<tableVars, consents, coded>>
  /\ Remember

\* get_or_create: look, insert, and look again when another one was faster.
FindConsent(r) ==
  /\ request[r].pc = "find"
  /\ Goto(r, IF Grant(request[r]) \in consents THEN "issue" ELSE "insert")
  /\ UNCHANGED <<tableVars, consents, coded, approved>>
  /\ Remember

\* Seeded defect: the row is inserted with the default tier.
InsertAtDefault(r) ==
  /\ request[r].pc = "insert"
  /\ consents' = consents \cup {[Grant(request[r]) EXCEPT !.scope = DefaultTier]}
  /\ Goto(r, "issue")
  /\ UNCHANGED <<tableVars, coded, approved>>
  /\ Remember

InsertConsent(r) ==
  /\ request[r].pc = "insert"
  /\ IF Grant(request[r]) \in consents
     THEN Goto(r, "refind") /\ UNCHANGED consents
     ELSE Goto(r, "issue") /\ consents' = consents \cup {Grant(request[r])}
  /\ UNCHANGED <<tableVars, coded, approved>>
  /\ Remember

\* Revoked in between: the IntegrityError is raised again, a server error.
FindAgain(r) ==
  /\ request[r].pc = "refind"
  /\ IF Grant(request[r]) \in consents THEN Goto(r, "issue") ELSE Finish(r)
  /\ UNCHANGED <<tableVars, consents, coded, approved>>
  /\ Remember

-----------------------------------------------------------------------------
(* The operator, and the token endpoint.                                    *)

\* (grant_types play no part at this endpoint.)
ChangeTable(id) ==
  /\ \/ \E tier \in Tiers, uris \in SUBSET Uris : OperatorCreate(id, tier, uris, {})
     \/ \E active \in BOOLEAN, tier \in Tiers, uris \in SUBSET Uris :
          OperatorSave(id, active, tier, uris)
     \/ OperatorDelete(id)
     \/ \E uris \in SUBSET Uris : Register(id, uris)
  /\ UNCHANGED <<consents, coded, request, approved>>
  /\ Remember

\* A consent names its client by client_id, without a foreign key: it stays
\* when the client is deleted.
GrantConsent(grant) ==
  /\ OperatorStep
  /\ grant \notin consents
  /\ consents' = consents \cup {grant}
  /\ approved' = approved \cup {grant}
  /\ UNCHANGED <<clients, gens, coded, request>>
  /\ Remember

RevokeConsents(revoked) ==
  /\ OperatorStep
  /\ revoked # {}
  /\ consents' = consents \ revoked
  /\ UNCHANGED <<clients, gens, coded, request, approved>>
  /\ Remember

\* The exchange of a code whose client has no row (CodeExchange!CreateRow).
Exchange(c) ==
  /\ AutoRegister
  /\ Insert(c.client, DefaultTier, {c.uri}, {"authorization_code"})
  /\ UNCHANGED <<edits, consents, coded, request, approved>>
  /\ Remember

Serve(r) ==
  \/ ReadTier(r) \/ ReadConsent(r) \/ Issue(r)
  \/ ReadScope(r) \/ FindConsent(r) \/ InsertConsent(r) \/ FindAgain(r)

Next ==
  \/ \E r \in Requests, user \in Users \cup {Anonymous}, id \in ClientIds, uri \in Uris :
       Get(r, user, id, uri) \/ Post(r, user, id, uri)
  \/ \E r \in Requests : Serve(r)
  \/ \E id \in ClientIds : ChangeTable(id)
  \/ \E grant \in Consent : GrantConsent(grant)
  \/ \E revoked \in SUBSET consents : RevokeConsents(revoked)
  \/ \E c \in coded : Exchange(c)

Spec == Init /\ [][Next]_vars

-----------------------------------------------------------------------------
(* Properties.                                                              *)

\* T9: a code is issued without the form only on a consent of this very user
\* to this client, this URI and a tier the client had while the GET was being
\* served; a consent revoked before the GET came in, or given for another
\* tier, does not count.
FastPathIsConsented ==
  \A r \in Requests : request[r].pc = "fast" =>
    request[r].scope \in witness[r].tiers \cap witness[r].scopes

\* T9, rule 2: first touch always renders the form.  A client that had no
\* active row when the GET came in gets no code from it, even if the exchange
\* of another code registers it meanwhile and an old consent still names it.
FirstTouchRendersForm ==
  \A r \in Requests : request[r].pc = "fast" => witness[r].known

\* Consents are only what users approved and operators entered, tier included:
\* no interleaving of submissions, retiering and revocation invents one.
ConsentsAreApproved == consents \subseteq approved

\* What a user approves is a tier the client had during the submission, or the
\* default tier when it had no active row.
ApprovedTierIsCurrent ==
  \A r \in Requests : request[r].pc \in {"find", "insert", "refind"} =>
    request[r].scope \in
      witness[r].tiers \cup IF witness[r].rowless THEN {DefaultTier} ELSE {}

=============================================================================
