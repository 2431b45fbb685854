-------------------------- MODULE HeavyNegotiation --------------------------
(***************************************************************************)
(* Heavy-response negotiation (_handle_tools_call in views.py, ADR-011): a *)
(* large result is cached under a continuation token that only its owner   *)
(* may redeem, on a route that still exposes what produced it.  Between    *)
(* the steps of a call, and between the call and the redemption, tokens    *)
(* are retiered, permissions change hands, routes are rebuilt and agents   *)
(* are linked to other connections.                                        *)
(*                                                                         *)
(* A dispatcher is a tool with several actions; a flat tool is modelled as *)
(* a tool with one.  A caller is a credential, whose user is None for a    *)
(* service token; anonymous requests share one caller.                     *)
(***************************************************************************)
EXTENDS Naturals

CONSTANTS
  Callers, Users, Handlers, Tokens, Routes, Conns,
  Unrestricted,  \* users that no capability filter applies to
  Tools,
  KindOf,        \* "flat", "group" or "class"
  ActionsOf,     \* the actions (group: member tools) behind each tool
  TierOf,        \* permission_tier of each action
  TopTier,
  Ceiling,       \* highest tier of each route
  AllowedBy,     \* allowed_tools of each agent connection
  FirstUser,     \* user of each credential at the start
  Help,          \* action="help"
  NoAction,      \* no action at all: the same answer as help
  None,
  Inactive,      \* linked, but to inactive connections only
  MaxEdits       \* bound: changes by the operator

Tiers == 0..TopTier
Actions == UNION {ActionsOf[t] : t \in Tools}

\* A group answers action="help" as it answers no action at all.
Asked(tool) == ActionsOf[tool] \cup
  (CASE KindOf[tool] = "flat" -> {} [] KindOf[tool] = "group" -> {NoAction}
     [] KindOf[tool] = "class" -> {Help, NoAction})

ASSUME NegotiationAssumption ==
  /\ Unrestricted \subseteq Users
  /\ ActionsOf \in [Tools -> SUBSET Actions]
  /\ KindOf \in [Tools -> {"flat", "group", "class"}]
  /\ TopTier \in Nat /\ MaxEdits \in Nat
  /\ TierOf \in [Actions -> Tiers]
  /\ Ceiling \in [Routes -> Tiers]
  /\ FirstUser \in [Callers -> Users]
  /\ AllowedBy \in [Conns -> SUBSET Tools]
  /\ {Help, NoAction} \cap Actions = {} /\ Help # NoAction
  /\ None \notin Conns \cup Tokens \cup Tools /\ Inactive \notin Conns /\ None # Inactive

VARIABLES
  tier,          \* permission of each credential
  user,          \* user of each credential
  held,          \* actions whose Django permission each user holds
  linked,        \* the agent connection in force for each credential
  surface,       \* RouteView: the actions each route exposes of each tool
  continuation,  \* the heavy cache
  call,          \* what each thread is serving
  edits,         \* changes by the operator so far
  witness        \* history: what was in force since each call came in

worldVars == <<tier, user, held, linked, surface>>
vars == <<worldVars, continuation, call, edits, witness>>

View == {v \in [Tools -> SUBSET Actions] :
          \A t \in Tools : /\ v[t] \subseteq ActionsOf[t]
                           /\ KindOf[t] # "group" => v[t] \in {{}, ActionsOf[t]}}

\* What the tool, the auth object, its tier on this route and its user make up.
Owner == [tool: Tools, caller: Callers, tier: Tiers, user: Users]

\* minter, mintTier, mintUser, route, conn and since are history: who minted the
\* entry, on which route, through which connection, and at which count of edits.
Entry == [owner: Owner, tool: Tools, target: Actions \cup {Help, NoAction},
          minter: Callers, mintTier: Tiers, mintUser: Users, route: Routes,
          conn: Conns \cup {None}, since: Nat]
NoEntry == [tool |-> None]

Idle == [pc |-> "idle"]
Call == [pc: {"gate", "dispatch", "mint", "redeem", "served"}, caller: Callers,
         route: Routes, tool: Tools, asked: Actions \cup {Help, NoAction},
         token: Tokens \cup {None}, tier: Tiers, user: Users, view: View,
         conn: Conns \cup {None}, since: Nat]

TypeOK ==
  /\ tier \in [Callers -> Tiers] /\ user \in [Callers -> Users]
  /\ held \in [Users -> SUBSET Actions]
  /\ linked \in [Callers -> Conns \cup {None, Inactive}]
  /\ surface \in [Routes -> View]
  /\ continuation \in [Tokens -> Entry \cup {NoEntry}]
  /\ call \in [Handlers -> Call \cup {Idle}]
  /\ edits \in Nat
  /\ witness \in [Handlers -> [exposed: SUBSET Actions, held: SUBSET Actions]]

Nothing == [exposed |-> {}, held |-> {}]

Init ==
  /\ tier = [c \in Callers |-> TopTier]
  /\ user = FirstUser
  /\ held = [u \in Users |-> Actions]
  /\ linked = [c \in Callers |-> None]
  /\ surface = [r \in Routes |-> ActionsOf]
  /\ continuation = [k \in Tokens |-> NoEntry]
  /\ call = [h \in Handlers |-> Idle]
  /\ edits = 0
  /\ witness = [h \in Handlers |-> Nothing]

\* An unrestricted user needs no permission of his own.
Holds(u, action) == u \in Unrestricted \/ action \in held[u]

\* The last conjunct of every action: the actions of the tool that the route
\* exposed, and those the user was allowed, since each call came in.
Remember ==
  witness' = [h \in Handlers |->
    IF call'[h].pc = "idle" THEN Nothing ELSE
    [exposed |-> witness[h].exposed \cup surface'[call'[h].route][call'[h].tool],
     held |-> witness[h].held \cup
       IF call'[h].user \in Unrestricted THEN Actions ELSE held'[call'[h].user]]]

-----------------------------------------------------------------------------
(* A tools/call.                                                            *)

Lesser(a, b) == IF a <= b THEN a ELSE b

\* McpView.post stamps the tier and the view of the route once per request.
Begin(h, c, route, tool, asked, token) ==
  /\ call[h].pc = "idle"
  /\ call' = [call EXCEPT ![h] =
       [pc |-> "gate", caller |-> c, route |-> route, tool |-> tool, asked |-> asked,
        token |-> token, tier |-> Lesser(tier[c], Ceiling[route]), user |-> user[c],
        view |-> surface[route], conn |-> None, since |-> edits]]
  /\ UNCHANGED <<worldVars, continuation, edits>>
  /\ Remember

Finish(h) == call' = [call EXCEPT ![h] = Idle]

\* The agent gate (its two queries are the subject of ToolCall).
Gate(h) ==
  LET c == call[h] link == linked[c.caller] IN
  /\ c.pc = "gate"
  /\ \/ /\ link = Inactive
        /\ Finish(h)
     \/ /\ link \in Conns
        /\ c.tool \notin AllowedBy[link]
        /\ Finish(h)
     \/ /\ link = None \/ (link \in Conns /\ c.tool \in AllowedBy[link])
        /\ call' = [call EXCEPT ![h].conn = link,
                                ![h].pc = IF c.token = None THEN "dispatch" ELSE "redeem"]
  /\ UNCHANGED <<worldVars, continuation, edits>>
  /\ Remember

\* RouteView.dispatch and the dispatchers behind it: only a group looks at the
\* capabilities, and help is always answered.
Callable(c) ==
  /\ c.view[c.tool] # {}
  /\ c.asked \in Actions =>
       /\ c.asked \in c.view[c.tool]
       /\ TierOf[c.asked] <= c.tier
       /\ KindOf[c.tool] = "group" => Holds(c.user, c.asked)

\* A result below the threshold of its tool is returned whole.
Dispatch(h) ==
  /\ call[h].pc = "dispatch"
  /\ \/ Callable(call[h]) /\ call' = [call EXCEPT ![h].pc = "mint"]
     \/ Finish(h)
  /\ UNCHANGED <<worldVars, continuation, edits>>
  /\ Remember

-----------------------------------------------------------------------------
(* Minting and redeeming.                                                   *)

\* Seeded defect: without a tier part a token survives a downgrade.
OwnerWithoutTier(c) ==
  [tool |-> c.tool, caller |-> c.caller, tier |-> 0, user |-> c.user]

\* Seeded defect: minted with the inner name, which a redemption does not know (G1).
OwnerOfInner(c) ==
  [tool |-> c.asked, caller |-> c.caller, tier |-> c.tier, user |-> c.user]

\* _heavy_owner_key.  It would add request._mcp_agent_connection, but no code
\* ever sets that attribute.
OwnerKey(c) ==
  [tool |-> c.tool, caller |-> c.caller, tier |-> c.tier, user |-> c.user]

\* Seeded defect: the outer name is bound whatever the server resolved.
BoundToOuter(c) == c.tool

\* What the server resolved: the member of a group, the action of a class (there
\* "help" counts as one); with neither, the outer tool, which NoAction stands for.
Resolved(c) == c.asked

\* secrets.token_urlsafe draws a token that is not in use.
Mint(h, token) ==
  LET c == call[h] IN
  /\ c.pc = "mint"
  /\ continuation[token] = NoEntry
  /\ \A g \in Handlers : call[g].pc # "idle" => call[g].token # token
  /\ continuation' = [continuation EXCEPT ![token] =
       [owner |-> OwnerKey(c), tool |-> c.tool, target |-> Resolved(c),
        minter |-> c.caller, mintTier |-> c.tier, mintUser |-> c.user,
        route |-> c.route, conn |-> c.conn, since |-> c.since]]
  /\ Finish(h)
  /\ UNCHANGED <<worldVars, edits>>
  /\ Remember

\* The time to live ends, or the cache evicts the entry.
Expire(token) ==
  /\ continuation[token] # NoEntry
  /\ continuation' = [continuation EXCEPT ![token] = NoEntry]
  /\ UNCHANGED <<worldVars, call, edits>>
  /\ Remember

\* Seeded defect: the comparison of ceilings that ADR-011 warns of.
AuthorizedByTier(c, target) ==
  target \in Actions => TierOf[target] <= c.tier

\* _redemption_target_authorized and _redemption_action_authorized: the route as
\* it is now must expose the target, within the tier and capabilities of now.
\* A class dispatcher declares no action "help", so that is never authorized.
Authorized(c, target) ==
  /\ c.view[c.tool] # {}
  /\ \/ /\ target \in c.view[c.tool]
        /\ TierOf[target] <= c.tier
        /\ Holds(c.user, target)
     \/ /\ target = NoAction
        /\ KindOf[c.tool] = "class" \/ c.user \in Unrestricted

Redeemable(c) ==
  LET entry == continuation[c.token] IN
  /\ entry # NoEntry
  /\ entry.owner = OwnerKey(c)
  /\ Authorized(c, entry.target)

\* Served from the cache: the tool does not run again, and the entry stays.
Redeem(h) ==
  LET c == call[h] IN
  /\ c.pc = "redeem"
  /\ IF Redeemable(c)
     THEN call' = [call EXCEPT ![h].pc = "served"]
     ELSE Finish(h)
  /\ UNCHANGED <<worldVars, continuation, edits>>
  /\ Remember

Return(h) ==
  /\ call[h].pc = "served"
  /\ Finish(h)
  /\ UNCHANGED <<worldVars, continuation, edits>>
  /\ Remember

-----------------------------------------------------------------------------
(* The operator.                                                            *)

Toggle(set, x) == IF x \in set THEN set \ {x} ELSE set \cup {x}

\* A rebuild of a route that changes more than one tool is several of these.
Edit ==
  /\ edits < MaxEdits /\ edits' = edits + 1
  /\ \/ \E c \in Callers, t \in Tiers :
          tier' = [tier EXCEPT ![c] = t] /\ UNCHANGED <<user, held, linked, surface>>
     \/ \E c \in Callers, u \in Users :
          user' = [user EXCEPT ![c] = u] /\ UNCHANGED <<tier, held, linked, surface>>
     \/ \E u \in Users \ Unrestricted, action \in Actions :
          held' = [held EXCEPT ![u] = Toggle(@, action)] /\ UNCHANGED <<tier, user, linked, surface>>
     \/ \E c \in Callers, link \in Conns \cup {None, Inactive} :
          linked' = [linked EXCEPT ![c] = link] /\ UNCHANGED <<tier, user, held, surface>>
     \/ \E r \in Routes, t \in Tools, exposed \in SUBSET Actions :
          /\ surface' = [surface EXCEPT ![r][t] = exposed]
          /\ surface'[r] \in View
          /\ UNCHANGED <<tier, user, held, linked>>
  /\ worldVars' # worldVars
  /\ UNCHANGED <<continuation, call>>
  /\ Remember

\* Bounds: the finitely many tokens keep some calls back, those that find none
\* free; and redemptions of a token that is not there are left out, for they are
\* refused without a trace.
Next ==
  \/ \E h \in Handlers, c \in Callers, route \in Routes, tool \in Tools :
       \/ \E asked \in Asked(tool) :
            (\E k \in Tokens : continuation[k] = NoEntry) /\ Begin(h, c, route, tool, asked, None)
       \/ \E token \in Tokens :
            continuation[token] # NoEntry /\ Begin(h, c, route, tool, NoAction, token)
  \/ \E h \in Handlers : Gate(h) \/ Dispatch(h) \/ Redeem(h) \/ Return(h)
  \/ \E h \in Handlers, token \in Tokens : Mint(h, token)
  \/ \E token \in Tokens : Expire(token)
  \/ Edit

Spec == Init /\ [][Next]_vars

-----------------------------------------------------------------------------
(* Properties.                                                              *)

Serves(h) == call[h].pc = "redeem" /\ call'[h].pc = "served"
EntryOf(h) == continuation[call[h].token]

\* SEC-3: a payload is served only to the credential and user it was computed
\* for, and only while they have the tier it was computed at: a retiering or a
\* change of hands between the call and the redemption ends the negotiation.
ServedToItsOwner ==
  [][\A h \in Handlers : Serves(h) =>
       LET c == call[h] entry == EntryOf(h) IN
       /\ entry.minter = c.caller /\ entry.tool = c.tool
       /\ entry.mintTier = c.tier /\ entry.mintUser = c.user]_vars

\* ADR-011: "The route surface is authoritative at every point where ... a cached
\* result is served".  What an action returned is served only on a route that
\* exposed this action, to a user who held its permission, during the redemption,
\* whatever was exposed and held at the call; and not above the tier of now.
ServedIsAuthorized ==
  [][\A h \in Handlers : Serves(h) /\ EntryOf(h).target \in Actions =>
       LET action == EntryOf(h).target IN
       /\ action \in witness[h].exposed
       /\ action \in witness[h].held
       /\ TierOf[action] <= call[h].tier]_vars

\* Nothing has changed since the call of h's token came in.
Undisturbed(h) ==
  LET c == call[h] entry == EntryOf(h) IN
  /\ c.pc = "redeem" /\ entry # NoEntry
  /\ entry.minter = c.caller /\ entry.tool = c.tool /\ entry.route = c.route
  /\ entry.since = edits

\* A token is worth issuing only if its caller can redeem it: for what an action
\* returned to a user who holds its permission, a redemption that nothing has
\* disturbed is served (G1: bound to the inner name it never would be).
ResultsAreRedeemable ==
  \A h \in Handlers :
    Undisturbed(h) /\ EntryOf(h).target \in Actions /\ Holds(call[h].user, EntryOf(h).target)
      => Redeemable(call[h])

\* views.py: "any drift (different token, different tool, downgraded tier,
\* different agent connection) terminates the negotiation".  (A different agent
\* connection does not: see the findings.)
ConnectionDriftEndsIt ==
  [][\A h \in Handlers : Serves(h) => EntryOf(h).conn = call[h].conn]_vars

=============================================================================
