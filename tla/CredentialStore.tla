-------------------------- MODULE CredentialStore --------------------------
(***************************************************************************)
(* What the gateway knows of its callers: static tokens (contrib/tokens),  *)
(* OAuth clients and their access tokens (contrib/oauth), and the agent    *)
(* connections that link one of them to a list of tools (contrib/agents),  *)
(* with everything an operator does to them in the admin site.             *)
(***************************************************************************)
EXTENDS Naturals

CONSTANTS
  StaticTokens, OAuthTokens, Clients,
  ClientOf,   \* the client an access token belongs to
  Conns,      \* agent connections; a later one has a greater number
  Tools,
  TopTier,
  None,
  MaxEdits    \* bound: operator steps

Tiers == 0..TopTier
Credentials == StaticTokens \cup OAuthTokens

ASSUME StoreAssumption ==
  /\ StaticTokens \cap OAuthTokens = {}
  /\ Credentials \cap Clients = {}
  /\ ClientOf \in [OAuthTokens -> Clients]
  /\ Conns \subseteq Nat
  /\ TopTier \in Nat /\ MaxEdits \in Nat
  /\ None \notin Credentials \cup Clients \cup Tiers

VARIABLES
  tokens,   \* static tokens; access tokens, whose active says "not yet expired"
  clients,
  conns,    \* a connection that is deleted, or only a profile, links None
  issued,   \* history: the tier each token was issued with, or None
  edits     \* operator steps taken

storeVars == <<tokens, clients, conns, issued, edits>>

Row == [exists: BOOLEAN, active: BOOLEAN, tier: Tiers]
NoRow == [exists |-> FALSE, active |-> FALSE, tier |-> 0]

\* allowed_tools = null, the default, is the set of all tools.
Conn == [link: StaticTokens \cup Clients \cup {None}, active: BOOLEAN, allowed: SUBSET Tools]

StoreTypeOK ==
  /\ tokens \in [Credentials -> Row]
  /\ clients \in [Clients -> Row]
  /\ conns \in [Conns -> Conn]
  /\ issued \in [Credentials -> Tiers \cup {None}]
  /\ edits \in Nat

StoreInit ==
  /\ tokens = [c \in Credentials |-> NoRow]
  /\ clients = [k \in Clients |-> NoRow]
  /\ conns = [n \in Conns |-> [link |-> None, active |-> TRUE, allowed |-> Tools]]
  /\ issued = [c \in Credentials |-> None]
  /\ edits = 0

-----------------------------------------------------------------------------

\* The connections of a credential hang on the static token or on the client.
Holder(c) == IF c \in OAuthTokens THEN ClientOf[c] ELSE c
Linked(c) == {n \in Conns : conns[n].link = Holder(c)}
LinkedActive(c) == {n \in Linked(c) : conns[n].active}
Newest(N) == {n \in N : \A m \in N : m <= n}

\* What the newest active connection allows; nothing if there is none.
AllowedByNewest(c) == UNION {conns[n].allowed : n \in Newest(LinkedActive(c))}

\* Authentication accepts the credential.
Valid(c) ==
  /\ tokens[c].exists /\ tokens[c].active
  /\ c \in OAuthTokens => clients[ClientOf[c]].active

-----------------------------------------------------------------------------

OperatorStep == edits < MaxEdits /\ edits' = edits + 1

\* on_delete=SET_NULL
Unlink(holders) ==
  conns' = [n \in Conns |->
    IF conns[n].link \in holders THEN [conns[n] EXCEPT !.link = None] ELSE conns[n]]

NewRow(tier) == [exists |-> TRUE, active |-> TRUE, tier |-> tier]

\* A token's value is drawn once.  An access token is issued by the token
\* endpoint, with its client's tier or, for a narrower scope, less.
Issue(c, tier) ==
  /\ issued[c] = None
  /\ c \in OAuthTokens =>
       clients[ClientOf[c]].active /\ tier <= clients[ClientOf[c]].tier
  /\ tokens' = [tokens EXCEPT ![c] = NewRow(tier)]
  /\ issued' = [issued EXCEPT ![c] = tier]
  /\ UNCHANGED <<clients, conns, edits>>

CreateClient(k, tier) ==
  /\ OperatorStep
  /\ ~clients[k].exists
  /\ \A c \in OAuthTokens : ClientOf[c] = k => issued[c] = None
  /\ clients' = [clients EXCEPT ![k] = NewRow(tier)]
  /\ UNCHANGED <<tokens, conns, issued>>

Expire(c) ==
  /\ c \in OAuthTokens /\ tokens[c].active
  /\ tokens' = [tokens EXCEPT ![c].active = FALSE]
  /\ UNCHANGED <<clients, conns, issued, edits>>

\* The columns of an access token are read-only in the admin site.
SaveToken(c, active, tier) ==
  /\ OperatorStep
  /\ c \in StaticTokens /\ tokens[c].exists
  /\ tokens' = [tokens EXCEPT ![c] = [@ EXCEPT !.active = active, !.tier = tier]]
  /\ UNCHANGED <<clients, conns, issued>>

DeleteToken(c) ==
  /\ OperatorStep
  /\ tokens[c].exists
  /\ tokens' = [tokens EXCEPT ![c] = NoRow]
  /\ Unlink({c})
  /\ UNCHANGED <<clients, issued>>

SaveClient(k, active, tier) ==
  /\ OperatorStep
  /\ clients[k].exists
  /\ clients' = [clients EXCEPT ![k] = [@ EXCEPT !.active = active, !.tier = tier]]
  /\ UNCHANGED <<tokens, conns, issued>>

\* Its access tokens go with it.
DeleteClient(k) ==
  /\ OperatorStep
  /\ clients[k].exists
  /\ clients' = [clients EXCEPT ![k] = NoRow]
  /\ tokens' = [c \in Credentials |->
       IF c \in OAuthTokens /\ ClientOf[c] = k THEN NoRow ELSE tokens[c]]
  /\ Unlink({k})
  /\ UNCHANGED issued

\* Creating, changing and deleting a connection; the deactivate_agents action.
SaveConn(n, link, active, allowed) ==
  /\ OperatorStep
  /\ link \in StaticTokens => tokens[link].exists
  /\ link \in Clients => clients[link].exists
  /\ conns' = [conns EXCEPT ![n] = [link |-> link, active |-> active, allowed |-> allowed]]
  /\ UNCHANGED <<tokens, clients, issued>>

DeactivateConns(selected) ==
  /\ OperatorStep
  /\ \E n \in selected : conns[n].active
  /\ conns' = [n \in Conns |->
       IF n \in selected THEN [conns[n] EXCEPT !.active = FALSE] ELSE conns[n]]
  /\ UNCHANGED <<tokens, clients, issued>>

EditStore ==
  \/ \E c \in Credentials, tier \in Tiers : Issue(c, tier)
  \/ \E k \in Clients, tier \in Tiers : CreateClient(k, tier)
  \/ \E c \in Credentials : Expire(c)
  \/ \E c \in Credentials, active \in BOOLEAN, tier \in Tiers : SaveToken(c, active, tier)
  \/ \E c \in Credentials : DeleteToken(c)
  \/ \E k \in Clients, active \in BOOLEAN, tier \in Tiers : SaveClient(k, active, tier)
  \/ \E k \in Clients : DeleteClient(k)
  \/ \E n \in Conns, link \in StaticTokens \cup Clients \cup {None},
        active \in BOOLEAN, allowed \in SUBSET Tools : SaveConn(n, link, active, allowed)
  \/ \E selected \in SUBSET Conns : DeactivateConns(selected)

=============================================================================
