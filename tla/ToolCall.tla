------------------------------ MODULE ToolCall ------------------------------
(***************************************************************************)
(* A tools/call from its bearer credential to the running tool: DRF        *)
(* authentication, the tier that McpView.post stamps on the request, the   *)
(* agent gate of _handle_tools_call, the tier check of                     *)
(* ToolRegistry.dispatch.  Authentication reads the token and its client   *)
(* in one joined query; the agent gate is two queries later on.  Between   *)
(* any two of them the operator edits the store.                           *)
(***************************************************************************)
EXTENDS CredentialStore

CONSTANTS
  Handlers,        \* worker threads
  Anonymous,       \* the caller of a request that no class authenticates
  AnonymousTier,   \* FRISIAN_MCP_UNAUTHENTICATED_TIER, or None where the host's
                   \* permission classes turn anonymous requests away
  Ceilings,        \* ceilings of the endpoints, None for an endpoint without
  TierOf           \* permission_tier of each tool

ASSUME CallAssumption ==
  /\ Anonymous \notin Credentials
  /\ AnonymousTier \in Tiers \cup {None}
  /\ Ceilings \subseteq Tiers \cup {None}
  /\ TierOf \in [Tools -> Tiers]

VARIABLES
  call,    \* what each thread is serving
  witness  \* history: what the store allowed since each call came in

vars == <<storeVars, call, witness>>

Idle == [pc |-> "idle", caller |-> Anonymous, tool |-> None, tier |-> 0]

Call == [pc: {"active", "inactive", "dispatch", "run"},
         caller: Credentials \cup {Anonymous}, tool: Tools, tier: Tiers]

TypeOK ==
  /\ StoreTypeOK
  /\ call \in [Handlers -> Call \cup {Idle}]
  /\ witness \in [Handlers -> [valid: BOOLEAN, tools: SUBSET Tools,
                               validTools: SUBSET Tools, tiers: SUBSET Tiers]]

Nothing == [valid |-> FALSE, tools |-> {}, validTools |-> {}, tiers |-> {}]

Init ==
  /\ StoreInit
  /\ call = [h \in Handlers |-> Idle]
  /\ witness = [h \in Handlers |-> Nothing]

\* The policy at one moment: what the agent connections of a credential allow.
Allowed(c) ==
  IF Linked(c) = {} THEN Tools ELSE AllowedByNewest(c)

\* The tier that a credential's present rows stand for.
LiveTier(c) == IF c \in OAuthTokens THEN clients[ClientOf[c]].tier ELSE tokens[c].tier

Policy == [c \in Credentials |->
  [valid |-> Valid(c), tools |-> Allowed(c),
   validTools |-> IF Valid(c) THEN Allowed(c) ELSE {},
   tiers |-> IF Valid(c) THEN {LiveTier(c)} ELSE {}]]

Join(w, v) ==
  [valid |-> w.valid \/ v.valid, tools |-> w.tools \cup v.tools,
   validTools |-> w.validTools \cup v.validTools, tiers |-> w.tiers \cup v.tiers]

\* The last conjunct of every action.
Remember ==
  witness' = [h \in Handlers |->
    IF call'[h].caller = Anonymous THEN Nothing
    ELSE Join(witness[h], Policy'[call'[h].caller])]

-----------------------------------------------------------------------------

\* Seeded defect: the release before T7 took the tier of the client.
PresentTier(c) == LiveTier(c)

\* request.auth.permission: an access token's is the snapshot of its issuance.
\* (_effective_tier, the lesser of the snapshot and the client's tier, goes into
\* the principal only; nothing on this path reads it.)
TokenTier(c) == tokens[c].tier

\* Seeded defect: the endpoint's ceiling replaces the tier.
CapAlone(tier, ceiling) == ceiling
Capped(tier, ceiling) == IF ceiling = None THEN tier
                         ELSE IF tier <= ceiling THEN tier ELSE ceiling

\* Seeded defect: the activation of the client is not looked at.
RejectsExpired(c) == c \in OAuthTokens /\ tokens[c].exists /\ ~tokens[c].active

\* A row that matches but may not be used ends the chain of authenticators.
Rejects(c) == c \in OAuthTokens /\ tokens[c].exists /\ ~Valid(c)

Start(h, caller, tool, tier, ceiling, pc) ==
  call' = [call EXCEPT ![h] =
    [pc |-> pc, caller |-> caller, tool |-> tool, tier |-> Capped(tier, ceiling)]]

\* A static token that is inactive, and any value without a row, is no error:
\* the request goes on as an anonymous one.
Authenticate(h, c, tool, ceiling) ==
  /\ call[h].pc = "idle"
  /\ \/ /\ tokens[c].exists /\ ~Rejects(c)
        /\ c \in StaticTokens => tokens[c].active
        /\ Start(h, c, tool, TokenTier(c), ceiling, "active")
     \/ /\ ~tokens[c].exists \/ (c \in StaticTokens /\ ~tokens[c].active)
        /\ AnonymousTier # None
        /\ Start(h, Anonymous, tool, AnonymousTier, ceiling, "dispatch")
  /\ UNCHANGED storeVars
  /\ Remember

Goto(h, pc) == call' = [call EXCEPT ![h].pc = pc]
Refuse(h) == call' = [call EXCEPT ![h] = Idle]

\* _resolve_agent_connection_state, first query: the newest active connection.
FindActive(h) ==
  LET c == call[h].caller IN
  /\ call[h].pc = "active"
  /\ \/ /\ LinkedActive(c) = {}
        /\ Goto(h, "inactive")
     \/ /\ LinkedActive(c) # {}
        /\ IF call[h].tool \in AllowedByNewest(c)
           THEN Goto(h, "dispatch") ELSE Refuse(h)
  /\ UNCHANGED storeVars
  /\ Remember

\* Seeded defect: filtering disappears with the last active connection.
IgnoreInactive(h) ==
  /\ call[h].pc = "inactive"
  /\ Goto(h, "dispatch")
  /\ UNCHANGED storeVars
  /\ Remember

\* Second query: linked, but only to inactive ones?  Then fail closed (SEC-5).
FindInactive(h) ==
  /\ call[h].pc = "inactive"
  /\ IF Linked(call[h].caller) = {} THEN Goto(h, "dispatch") ELSE Refuse(h)
  /\ UNCHANGED storeVars
  /\ Remember

Dispatch(h) ==
  /\ call[h].pc = "dispatch"
  /\ IF TierOf[call[h].tool] <= call[h].tier THEN Goto(h, "run") ELSE Refuse(h)
  /\ UNCHANGED storeVars
  /\ Remember

Return(h) ==
  /\ call[h].pc = "run"
  /\ Refuse(h)
  /\ UNCHANGED storeVars
  /\ Remember

Edit == EditStore /\ UNCHANGED call /\ Remember

Next ==
  \/ \E h \in Handlers, c \in Credentials, tool \in Tools, ceiling \in Ceilings :
       Authenticate(h, c, tool, ceiling)
  \/ \E h \in Handlers : FindActive(h) \/ FindInactive(h) \/ Dispatch(h) \/ Return(h)
  \/ Edit

Spec == Init /\ [][Next]_vars

-----------------------------------------------------------------------------
(* Properties.                                                              *)

Running == {h \in Handlers : call[h].pc = "run"}
RunningFor(S) == {h \in Running : call[h].caller \in S}

\* The agent gate is two queries, and yet no interleaving with the operator
\* lets a tool run that the connections of its caller did not allow at some
\* moment of the call (PKG-6, SEC-5).
AgentPolicyHolds == \A h \in RunningFor(Credentials) : call[h].tool \in witness[h].tools

\* ADR-009, T7: a token's authority is fixed when it is issued.  Whatever
\* happens to its client afterwards, it never runs a tool above that tier.
AuthorityFixedAtIssue ==
  \A h \in RunningFor(OAuthTokens) : TierOf[call[h].tool] <= issued[call[h].caller]

\* A deactivated client or token, or an expired token, runs nothing in calls
\* that come in later.
RevocationStopsCalls == \A h \in RunningFor(Credentials) : witness[h].valid

\* ADR-009, T7: "An operator admin-console downgrade of the issuing client takes
\* effect live".  (It does not: see the findings.)
DowngradeIsLive ==
  \A h \in RunningFor(OAuthTokens) :
    \E tier \in witness[h].tiers : TierOf[call[h].tool] <= tier

=============================================================================
