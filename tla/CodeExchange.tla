---------------------------- MODULE CodeExchange ----------------------------
(***************************************************************************)
(* The token endpoint (TokenView in contrib/oauth/views.py): concurrent    *)
(* handlers exchange authorization codes, or client credentials, for       *)
(* access tokens.  A handler's shared accesses, two cache keys with a time *)
(* to live and the database, are separate steps; between two of them other *)
(* handlers run, the operator edits the client table, time passes, or the  *)
(* worker dies.                                                            *)
(***************************************************************************)
EXTENDS ClientTable, Sequences

CONSTANTS
  Codes,         \* authorization codes, each drawn at most once
  Verifiers,     \* PKCE verifiers; a verifier stands for its challenge too
  Handlers,      \* worker threads serving the token endpoint
  None,
  Ttl,           \* _AUTH_CODE_TTL
  Stall,         \* a worker stuck in a request for longer is killed
  MaxTime        \* bound: the clock

ASSUME ExchangeAssumption ==
  /\ None \notin Codes \cup ClientIds \cup Uris \cup Verifiers
  /\ Ttl \in Nat /\ Stall \in Nat /\ MaxTime \in Nat
  /\ 2 * Stall < Ttl

VARIABLES
  now,
  codes,     \* what each code is bound to, and until when the cache holds it
  consumed,  \* until when the cache holds the consumed marker of each code
  handler,   \* the request each handler is serving
  tokens,    \* rows of OAuthAccessToken
  minted,    \* history: the clients a token was minted for, per code
  witness    \* history: the rows of its client since a request came in

exchangeVars == <<now, codes, consumed, handler, tokens, minted, witness>>
vars == <<tableVars, exchangeVars>>

OrNone(S) == S \cup {None}

\* A cache entry is there until the clock reaches its deadline (0: never set,
\* or deleted).  An unbound entry is a code nobody has drawn.
Unbound == [client |-> None, uri |-> None, verifier |-> None, until |-> 0]
Cached(c) == codes[c].until > now
Marked(c) == consumed[c] > now

Binding == [client: OrNone(ClientIds), uri: OrNone(Uris),
            verifier: OrNone(Verifiers), until: Nat]

Idle == [pc |-> "idle", code |-> None, client |-> None, uri |-> None,
         at |-> 0, gen |-> 0, tier |-> 0]

Steps == {"consume", "discard", "lookup", "exists", "create", "mint"}

Fields == [pc: Steps \cup {"idle"}, code: OrNone(Codes),
           client: OrNone(ClientIds), uri: OrNone(Uris), at: Nat,
           gen: Nat, tier: Tiers]

\* A request has a client; one that exchanges a code has its code and URI.
Request == {r \in Fields :
  /\ r.pc # "idle" => r.client \in ClientIds
  /\ r.pc \notin {"idle", "mint"} => r.code \in Codes /\ r.uri \in Uris}

Token == [code: OrNone(Codes), client: ClientIds, gen: Nat, tier: Tiers]

\* What a handler takes from a row.
Glimpse == [gen: Nat, active: BOOLEAN, tier: Tiers]
Seen(row) == [gen |-> row.gen, active |-> row.active, tier |-> row.tier]

TypeOK ==
  /\ TableTypeOK
  /\ now \in Nat
  /\ codes \in [Codes -> Binding]
  /\ consumed \in [Codes -> Nat]
  /\ handler \in [Handlers -> Request]
  /\ tokens \subseteq Token
  /\ minted \in [Codes -> Seq(ClientIds)]
  /\ witness \in [Handlers -> SUBSET Glimpse]

Init ==
  /\ TableInit
  /\ now = 0
  /\ codes = [c \in Codes |-> Unbound]
  /\ consumed = [c \in Codes |-> 0]
  /\ handler = [h \in Handlers |-> Idle]
  /\ tokens = {}
  /\ minted = [c \in Codes |-> <<>>]
  /\ witness = [h \in Handlers |-> {}]

\* The last conjunct of every action: the rows each request could have read.
Remember ==
  witness' = [h \in Handlers |->
    IF handler'[h].pc = "idle" THEN {}
    ELSE {Seen(clients[handler'[h].client]), Seen(clients'[handler'[h].client])}
         \cup (IF handler[h].pc = "idle" THEN {} ELSE witness[h])]

-----------------------------------------------------------------------------
(* AuthorizeView, as far as this endpoint depends on it: a code is drawn    *)
(* and cached for a client and a URI that pass its validation.              *)

StoreCode(c, id, uri, v) ==
  /\ codes[c] = Unbound
  /\ codes' = [codes EXCEPT ![c] =
       [client |-> id, uri |-> uri, verifier |-> v, until |-> now + Ttl]]

Authorize(c, id, uri, v) ==
  /\ Validated(id, uri)
  /\ StoreCode(c, id, uri, v)
  /\ UNCHANGED <<tableVars, now, consumed, handler, tokens, minted>>
  /\ Remember

-----------------------------------------------------------------------------
(* _handle_authorization_code.                                              *)

\* Seeded defect: the client_id comparison is forgotten.
PresentsAnyClient(c, id, uri, v) == codes[c].uri = uri /\ codes[c].verifier = v

\* The checks on the cached entry.  Any mismatch is answered invalid_grant.
Presents(c, id, uri, v) ==
  /\ codes[c].client = id
  /\ codes[c].uri = uri
  /\ codes[c].verifier = v

Goto(h, step) == handler' = [handler EXCEPT ![h].pc = step]
Finish(h) == handler' = [handler EXCEPT ![h] = Idle]

ReadCode(h, c, id, uri, v) ==
  /\ handler[h].pc = "idle"
  /\ Cached(c)
  /\ Presents(c, id, uri, v)
  /\ handler' = [handler EXCEPT ![h] =
       [Idle EXCEPT !.pc = "consume", !.code = c, !.client = id, !.uri = uri,
                    !.at = now]]
  /\ UNCHANGED <<tableVars, now, codes, consumed, tokens, minted>>
  /\ Remember

\* Seeded defect: the code is only deleted, not marked (the release before T11).
ConsumeUnmarked(h) ==
  /\ handler[h].pc = "consume"
  /\ Goto(h, "discard")
  /\ UNCHANGED <<tableVars, now, codes, consumed, tokens, minted>>
  /\ Remember

\* cache.add: the marker goes in unless it is there; whoever finds it is late.
Consume(h) ==
  /\ handler[h].pc = "consume"
  /\ IF Marked(handler[h].code)
     THEN Finish(h) /\ UNCHANGED consumed
     ELSE /\ Goto(h, "discard")
          /\ consumed' = [consumed EXCEPT ![handler[h].code] = now + Ttl]
  /\ UNCHANGED <<tableVars, now, codes, tokens, minted>>
  /\ Remember

DiscardCode(h) ==
  /\ handler[h].pc = "discard"
  /\ codes' = [codes EXCEPT ![handler[h].code].until = 0]
  /\ Goto(h, "lookup")
  /\ UNCHANGED <<tableVars, now, consumed, tokens, minted>>
  /\ Remember

\* The row as this request remembers it from here on.
Holding(h, row, tier) ==
  handler' = [handler EXCEPT ![h] =
    [@ EXCEPT !.pc = "mint", !.gen = row.gen, !.tier = tier]]

\* Seeded defect: the lookup forgets is_active=True.
FindsInactiveToo(id) == Exists(id)
FindsClient(id) == ActiveRow(id)

Lookup(h) ==
  LET id == handler[h].client IN
  /\ handler[h].pc = "lookup"
  /\ \/ /\ FindsClient(id)
        /\ Allows(clients[id], "authorization_code")
        /\ Holding(h, clients[id], clients[id].tier)
     \/ /\ FindsClient(id)
        /\ ~Allows(clients[id], "authorization_code")
        /\ Finish(h)
     \/ /\ ~FindsClient(id)
        /\ AutoRegister
        /\ Goto(h, "exists")
     \/ /\ ~FindsClient(id)
        /\ ~AutoRegister
        /\ Finish(h)
  /\ UNCHANGED <<tableVars, now, codes, consumed, tokens, minted>>
  /\ Remember

\* A deactivated row is never resurrected.
CheckNoRow(h) ==
  /\ handler[h].pc = "exists"
  /\ IF Exists(handler[h].client) THEN Finish(h) ELSE Goto(h, "create")
  /\ UNCHANGED <<tableVars, now, codes, consumed, tokens, minted>>
  /\ Remember

CreateRow(h) ==
  LET id == handler[h].client IN
  /\ handler[h].pc = "create"
  /\ \/ /\ Insert(id, DefaultTier, {handler[h].uri}, {"authorization_code"})
        /\ Holding(h, clients'[id], DefaultTier)
     \/ /\ Exists(id)                  \* IntegrityError: another one was faster
        /\ Finish(h)
        /\ UNCHANGED <<clients, gens>>
  /\ UNCHANGED <<edits, now, codes, consumed, tokens, minted>>
  /\ Remember

\* Seeded defect: the row is found again by its client_id.
SomeRow(r) == Exists(r.client)
SameRow(r) == clients[r.client].gen = r.gen

\* The INSERT names the row read earlier; the foreign key rejects a row that
\* is gone, and the request ends in a server error.
Mint(h) ==
  LET r == handler[h] IN
  /\ r.pc = "mint"
  /\ IF SameRow(r)
     THEN /\ tokens' = tokens \cup
               {[code |-> r.code, client |-> r.client, gen |-> r.gen, tier |-> r.tier]}
          /\ minted' = IF r.code = None THEN minted
                       ELSE [minted EXCEPT ![r.code] = Append(@, r.client)]
     ELSE UNCHANGED <<tokens, minted>>
  /\ Finish(h)
  /\ UNCHANGED <<tableVars, now, codes, consumed>>
  /\ Remember

-----------------------------------------------------------------------------
(* The client_credentials branch of post().                                 *)

\* _resolve_scope_permission: no scope asks for the whole tier (None); a
\* scope within it narrows the token; anything else is refused.
\* Seeded defect: an absent scope is stored as it came.
EffectiveAsAsked(scope, tier) == scope
Effective(scope, tier) == IF scope = None THEN tier ELSE scope
ScopeAllowed(scope, tier) == IF scope = None THEN TRUE ELSE scope <= tier

\* A connector knows the secret of a client only if it was handed out: an
\* auto-registered row has a secret nobody has seen.
KnowsSecret(id) == id \notin WalkUpIds /\ clients[id].gen = 1

ReadCredentials(h, id, scope) ==
  /\ handler[h].pc = "idle"
  /\ Exists(id) /\ KnowsSecret(id)
  /\ FindsClient(id)
  /\ Allows(clients[id], "client_credentials")
  /\ ScopeAllowed(scope, clients[id].tier)
  /\ handler' = [handler EXCEPT ![h] =
       [Idle EXCEPT !.pc = "mint", !.client = id, !.at = now,
                    !.gen = clients[id].gen,
                    !.tier = Effective(scope, clients[id].tier)]]
  /\ UNCHANGED <<tableVars, now, codes, consumed, tokens, minted>>
  /\ Remember

-----------------------------------------------------------------------------
(* The surroundings: dying workers, the clock, the operator, registration.  *)

Crash(h) ==
  /\ handler[h].pc # "idle"
  /\ Finish(h)
  /\ UNCHANGED <<tableVars, now, codes, consumed, tokens, minted>>
  /\ Remember

Tick ==
  /\ now < MaxTime
  /\ \A h \in Handlers : handler[h].pc # "idle" => now < handler[h].at + Stall
  /\ now' = now + 1
  /\ UNCHANGED <<tableVars, codes, consumed, handler, tokens, minted, witness>>

\* Tokens go with their client (on_delete=CASCADE).
ChangeTable(id) ==
  /\ \/ \E tier \in Tiers, uris \in SUBSET Uris, grants \in GrantSets :
          OperatorCreate(id, tier, uris, grants)
     \/ \E active \in BOOLEAN, tier \in Tiers, uris \in SUBSET Uris :
          OperatorSave(id, active, tier, uris)
     \/ OperatorDelete(id)
     \/ \E uris \in SUBSET Uris : Register(id, uris)
  /\ tokens' = {t \in tokens : clients'[t.client].gen = t.gen}
  /\ UNCHANGED <<now, codes, consumed, handler, minted>>
  /\ Remember

Serve(h) ==
  \/ Consume(h) \/ DiscardCode(h) \/ Lookup(h) \/ CheckNoRow(h)
  \/ CreateRow(h) \/ Mint(h)

Next ==
  \/ \E c \in Codes, id \in ClientIds, uri \in Uris, v \in Verifiers :
       Authorize(c, id, uri, v)
  \/ \E h \in Handlers, c \in Codes, id \in ClientIds, uri \in Uris, v \in Verifiers :
       ReadCode(h, c, id, uri, v)
  \/ \E h \in Handlers, id \in ClientIds, scope \in OrNone(Tiers) :
       ReadCredentials(h, id, scope)
  \/ \E h \in Handlers : Serve(h) \/ Crash(h)
  \/ Tick
  \/ \E id \in ClientIds : ChangeTable(id)

Spec == Init /\ [][Next]_vars

-----------------------------------------------------------------------------
(* Properties.                                                              *)

\* No interleaving of handlers, crashes and expiry turns one authorization
\* code into two tokens (T11).
SingleUse == \A c \in Codes : Len(minted[c]) <= 1

\* The endpoint implements the abstract grant: a code is redeemed once, and
\* by the client it was issued to.
Grant == INSTANCE AuthCodeGrant WITH
  grantee <- [c \in Codes |-> codes[c].client], redeemedBy <- minted
ImplementsGrant == Grant!Spec

\* A handler about to mint holds a tier and an activation its client really
\* had while the request was being served: a deactivation or a downgrade made
\* before a request came in is never missed.
MintIsCurrent ==
  \A h \in Handlers : handler[h].pc = "mint" =>
    \E row \in witness[h] :
      /\ row.active
      /\ row.gen = handler[h].gen
      /\ handler[h].tier <= row.tier
      /\ handler[h].code # None => handler[h].tier = row.tier

\* Requests are never authority (ADR-009, T7): while a row exists, only an
\* operator changes it, so no exchange reactivates, retiers or re-targets it.
OperatorAuthority ==
  [][\A id \in ClientIds :
       Exists(id) /\ Exists(id)' =>
         clients'[id] = clients[id] \/ edits' = edits + 1]_vars

\* A client_id that is deleted and auto-registered again starts without the
\* tokens of its former row, even one whose INSERT was on its way.
TokensFollowRow == \A t \in tokens : clients[t.client].gen = t.gen

\* ADR-009, T1: no unknown client is registered for a URI off the allowlist.
AllowlistGatesRegistration ==
  [][\A h \in Handlers :
       CreateRow(h) /\ gens' # gens => handler[h].uri \in Allowlisted]_vars

=============================================================================
