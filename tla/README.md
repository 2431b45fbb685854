# Frisian-MCP: verification project

Frisian-MCP exposes the viewsets of a Django host as MCP tools.  Its own logic
is a gateway (`views.py`, `registry.py`, `route_*.py`, `backends/`), an OAuth
server for connectors (`contrib/oauth`), static tokens (`contrib/tokens`), agent
connections (`contrib/agents`), and rate limits.  This directory holds TLA+ models
of those parts, the TLC runs that check them on small instances, and TLAPS proofs
of the main results for every instance.  Paths below are relative to
`src/frisian_mcp/` in the repository; `PROJECT.json` maps each definition to the
lines it stands for.

Run a check with `tlc -config MCToolCall.cfg MCToolCall.tla`; prove a module with
`tlapm CodeExchangeProofs.tla`.

| To learn about | read |
|---|---|
| the OAuth server | `ClientTable`, `CodeExchange`, `AuthCodeGrant`, `ConsentGate` |
| credentials and who may call what | `CredentialStore`, `ToolCall` |
| long answers | `HeavyNegotiation` |
| discovery, views and manifests under concurrency | `RouteGrammar`, `Registry`, `RouteViews` |
| how a host is started, scanned, audited and diagnosed | `GatewayBoot`, `HostScan`, `RouteAudit`, `Doctor` |
| a request from `post()` to its answer | `RateLimits`, `Gateway` |

## 1. Inventory

The program runs as a Django application: several worker threads, in several
processes, serve HTTP requests; they share the database and the Django cache, and
within a process the registry, the route views and the in-memory limiter.  There
are no background jobs.  So the actors are the threads serving requests, the
operator in the admin site, the clock (cache entries and tokens expire), other processes
that use the same cache, and a worker that dies in the middle of a request.

| Component (code) | State it keeps | Operations | What makes it correct | Model |
|---|---|---|---|---|
| Token endpoint (`contrib/oauth/views.py`, `TokenView`) | cached codes, consumed markers, access tokens | `authorization_code` exchange, `client_credentials` | a code yields one token, for its client; a token's tier is its client's; no request changes an existing client | `CodeExchange`, `AuthCodeGrant` |
| Client table (`contrib/oauth/models.py`, `admin.py`, `RegistrationView`) | `OAuthClient` rows | admin create, save, delete; dynamic registration; auto-registration | requests are never authority (ADR-009) | `ClientTable` |
| Authorize endpoint and consent gate (`AuthorizeView`, `_consent_gate.py`) | `OAuthAuthorizeConsent` rows, codes | GET, POST, admin grant and revocation | no code without the form unless this very tuple was consented to; first touch renders the form | `ConsentGate` |
| Static tokens (`contrib/tokens`) | token rows | admin create, save, delete; authentication | a revoked token stops; a plaintext is shown once | `CredentialStore` (admin refresh de-duplication left) |
| Agent connections (`contrib/agents`, the gate in `views.py`) | connection rows, each linked to a credential | admin save, delete, deactivate; two queries per call | a call runs only what the connection in force allows; inactive fails closed (SEC-5) | `CredentialStore`, `ToolCall` |
| Authentication and tier (`contrib/oauth/authentication.py`, `registry._resolve_request_tier`) | none of its own | bearer lookup, stamped tier, endpoint ceiling | authority is fixed at issue; ceilings cap | `ToolCall` |
| Heavy-response negotiation (`views.py`, `negotiation.py`) | continuation entries in a cache | probe and mint, redeem, expiry | served to its owner only, and only what the route exposes now; a token issued can be redeemed | `HeavyNegotiation` |
| `tools/list` and its cache (`views.py`) | manifests per route and tier in the cache, cursors | fill, expire, invalidate, page | a manifest shows its own route only; an invalidation reaches every manifest of its process; pages neither skip nor repeat | `RouteViews` (paging left) |
| Discovery at the first request (`apps.py`, `backends/discovery.py`) | the `_mcp_discovered` flag, the registry | scan, register, install groups, finalize | a scan ends with every route whole; hidden tools stay reachable | `Registry`, `RouteViews` |
| Route views (`route_views.py`, `route_config.py`) | one immutable view per route, swapped under a lock | build, rebuild, rebuild_all, lazy rebuild | a request reaches what its route selects, and nothing carved out of it | `Registry`, `RouteViews` |
| Route grammar (`route_grammar.py`, `route_paths.py`, `route_resources.py`) | none | parse, carve | deny wins; a carved member is nowhere reachable | `RouteGrammar` |
| Registry and dispatchers (`registry.py`, `backends/dispatcher.py`, `group_dispatcher.py`) | the tool table under a lock | register, hide, list, dispatch | a dispatcher routes to its members and no others | `Registry`; checks of a call in `Gateway` and `HeavyNegotiation` |
| Rate limiters (`_rate_limiting.py`, `contrib/middleware.py`) | a window per caller in the process; a counter with a time to live in the cache | count a request | at most the limit per window; nobody is refused who was not over it | `RateLimits` |
| JSON-RPC gateway (`views.py`: `post`, `_parse_and_dispatch`, `_handle_tools_call`) | none of its own | every method; the ladder of exceptions, the audit record, the shape of a result | one true audit record per call; a write's result is not lost; hidden tools look absent | `Gateway` |
| Invocation of host views (`backends/invocation.py`, `_relations.py`) | none | build the inner request, run the view, unwrap | a fault after a commit is told from one before it | its outcomes in `Gateway`, its reflection in `HostScan` |
| Tool middleware chain (`middleware.py`) | the chain, built once | wrap a dispatch | a refusal in the chain is an answer | `Gateway`, with the rate limiter as link |
| Boot (`apps.py` `ready()`, `route_config.py`, `route_paths.py`, `middleware.py`) | the host's URL table | parse, check, refuse, install | what starts answers where it says, and admits and serves no more than it says | `GatewayBoot` |
| The scan of the host (`backends/discovery.py`, `_relations.py`) | what was seen, found and recorded so far | one URL pattern after the other; merge; register; bundle | nothing twice, nothing missed, the API's class preferred | `HostScan` |
| Route audit (`route_audit.py`, `RouteMatcher.audit`) | the findings | startup audit, surface audit, relations across routes | findings are true, and silence means something | `GatewayBoot`, `RouteAudit` |
| System checks and `mcp_doctor` (`checks.py`, `mcp_doctor.py`) | what was reported | run checks, force discovery, report, exit | `--strict` is a gate | `Doctor` |
| Permission adapters (`contrib/permissions`) | none | filter tools and actions by capability | a filtered tool looks absent in listings and help | `Gateway` (the set `held`), `HeavyNegotiation` |
| Resource providers, usage envelope, other commands | none, or the host's | | | see section 8 |

How they interact.  The authorize endpoint writes a code to the cache, the token
endpoint reads and consumes it, and either may create the client row that the
other reads.  The token endpoint inserts the access tokens that authentication
looks up; deleting a client cascades to its tokens and cuts the links of its agent
connections.  A tool call authenticates, is stamped with a tier and a route view,
passes the agent gate, and is dispatched; its result may become a continuation that
a later call redeems, against the tier, view and permissions of that later call.
`ready()` decides which views are mounted at all, and the scan which tools there are; the
audits and the doctor read what both have left behind.

What is hard here is that nearly every decision is a read of the database or of
the cache followed by an action on it, with no transaction around both, while an
operator edits the same rows.  `PROJECT.json` lists these places one by one under
"hazards", each with the property that covers it or the reason none does yet.

## 2. Modules

**`ClientTable`** holds the rows of `OAuthClient` and what writes them; the OAuth
modules extend it.  A row has a generation (its primary key), so that a deleted
and re-created client is told from the old one.  `WalkUpIds` are identifiers a
connector made up, which `Fresh` never draws.  Tiers are indices in the ladder.

**`CodeExchange`** is the token endpoint.  One handler is one request;
`handler[h].pc` is the next shared access:

| Step | Code |
|---|---|
| `ReadCode` | the cache entry is read; client, URI and PKCE verifier are compared |
| `Consume` | `cache.add` of the consumed marker, which one handler wins |
| `DiscardCode` | the code's cache entry is deleted |
| `Lookup`, `CheckNoRow`, `CreateRow` | the client row; unknown ones are auto-registered |
| `Mint` | INSERT of the token with the tier read earlier |
| `ReadCredentials` | the whole of `client_credentials` but its INSERT |
| `Crash`, `Tick`, `ChangeTable` | a dying worker, the clock, operator and registration |

Cache entries carry deadlines.  `Tick` lets no request last longer than `Stall`,
after which the server kills the worker.  The abstract **`AuthCodeGrant`** says that
a code is granted to one client and redeemed at most once, by it; `CodeExchange`
implements it with `grantee` the client in the code's entry and `redeemedBy` the
mints made with it.

**`ConsentGate`** is the authorize endpoint.  A request is a GET that may take the
fast path (`ReadTier`, `ReadConsent`, `Issue`) or a POST (`ReadScope`, then the
three statements of `get_or_create`, then `Issue`).  Requests that end in the form or
in an error leave no trace and are not represented.  `Exchange` is what the token
endpoint does to this one: it creates the row of a client that had none.

**`CredentialStore`** holds static tokens, clients, access tokens and agent
connections with every admin operation, cascades and `SET_NULL` included;
**`ToolCall`** extends it with a call: `Authenticate` (one joined query, and the
stamped tier), `FindActive` and `FindInactive` (the two queries of the gate),
`Dispatch`, `Return`.

**`HeavyNegotiation`** is what follows: `Begin` stamps tier, user and view, `Gate`
is the agent gate in one step, `Dispatch` the checks of `RouteView.dispatch` and the
dispatchers, `Mint` stores the continuation with its owner key and resolved target,
`Redeem` compares the key and re-authorizes the target, `Expire` drops an entry.
Flat tools, group dispatchers and class dispatchers differ in what they check and
in what the server resolves, so all three kinds occur.

**`RouteGrammar`** says what allow and deny entries match on a surface, which is the set of
registered names with the members of the registered groups.  Prefixes are a table, `Under`.
**`Registry`** is the tool table, and what a view is made of: an entry is an object, told
from another of the same name by who registered it, so that replacing an entry leaves the
old one in the views that hold it; the hidden flag belongs to the object.  A view is
represented by the snapshot it was built from: `EntriesOf` is what it contains, `Rebuilt` the
dispatchers that lost members and became route-local, `Reaches` what a call through a
dispatcher can get to (a shared dispatcher is called by name in the registry of the
moment), `Listing` what `tools/list` shows of it now.  **`RouteViews`** puts threads around
them; `request[t].pc` is the next shared access:

| Step | Code |
|---|---|
| `Arrive`, `Disconnect` | `request_started` calls the receiver it finds; the receiver disconnects itself |
| `TestFlag`, `SetFlag` | `_mcp_discovered`, tested and set without a lock |
| `Collect`, `RegisterTool`, `LoadMiddleware`, `Fail` | the scan, one registration per tool, and where it may raise |
| `InstallGroup`, `HideMember` | one dispatcher, then the flag of each member; the names are read once, before |
| `BuildRoute`, `SwapAll` | `rebuild_all` |
| `ResolveRouteView`, `BuildView`, `SwapView` | the view of a request, built on demand when none is mounted |
| `List`, `Fill`, `Respond` | `tools/list` on a miss, and everything else a request does |
| `Expire`, `Invalidate` | the time to live; `invalidate_tools_list_cache()` |
| `StoredElsewhere` | another process answers `tools/list` on a miss and stores the manifest |
| `Restart` | the process ends, wherever it is, and a new one begins with an empty registry, no views and the cache as it stands |

Of everything else the module follows one process.  The cache is shared with the others and
outlives them all: `Elsewhere` says at which points of discovery another process may be when it
stores a manifest, and `foreign`, a history, under which keys there is one that this
process has not stored, since the others or its own predecessor did.  An invalidation enumerates the
routes mounted in the process that calls it (`views.py:345`), so `Invalidate` leaves the rest.

A listing reads the flags in one step, and an invalidation deletes in one step; routes are
listed at one tier, so that a manifest has its route as key.  No group's prefix
matches the name of a group: a second scan that found such a group already installed would bundle
it into itself.

**`GatewayBoot`** is `ready()`: the settings are parsed and audited (`AuditRouteConfigs`, one
operator per check), the process is refused or comes up, and every installer puts its layer in
front of the host's URL table (`Mounted`, in the order of `apps.py`).  A URL table is a sequence
of layers of patterns and `Answer` is Django's resolver, first match first, so that shadowing
is a fact about the model and not an assumption of it.  **`HostScan`** goes on to the first
request: `ScanPattern` takes one URL pattern, `ScanRaises` is the exception that ends the
walk and is only logged, `ScanFails` and `ScanEnds` do the allow and deny lists, the registration and
the groups.  The code merges when the walk is over, in the order in which tools were found; the model
keeps what that merge would choose (`merged`), pattern by pattern, which comes to the same since a
name is decided by the order of what was found under it and by nothing else.  Reflection over the host is a table of declarations.
**`RouteAudit`** has the audit of the surface, with the code of every finding, and **`Doctor`** the
system checks, the sections of `mcp_doctor` and its exit.  Here nothing runs concurrently: what is
hard is that five parts read the same settings, each with its own normalisation and its own
exceptions, and must come to the same conclusion.  The doctor asks for two names of the URL table, the
authorization server's document and the protected resource's (`WellknownUrlMounted`), which a host
that writes these patterns itself can mount apart; the hosts of the run do.

**`RateLimits`** holds both limiters and, as history, how many calls each has let through
(`admitted`) and how many it had when each moment began (`before`); what a period let through is
a difference of the two.
**`Gateway`** extends it with the life of a request; `call[t].pc` is the next step:

| Step | Code |
|---|---|
| `Arrive`, `AnswerAtOnce` | `post()`: the route's view is taken from the registry of that moment; methods that need no tool |
| `Gate` | the agent gate, in one step (`ToolCall` has its two queries) |
| `Redeem` | a continuation token (`HeavyNegotiation` has its checks) |
| `ReadEntry` | the entry whose annotations will decide on the shape of the result, read before the dispatch |
| `ReadClock`, `Count` | the rate limiter reads the clock, and only then takes its lock |
| `Dispatch` | `RouteView.dispatch`, then the checks of a flat tool, a group or a class dispatcher, in their order (`Verdict`); a refusal goes through the ladder of exceptions (`Refusal`, `Decision`) |
| `Fail`, `Succeed` | the host's view, with faults before and after its commit |
| `Shape` | the whole result, a short form with an id or a token, or a probe (`Shaped`) |
| `Add`, `Increment` | the two cache calls of the token endpoint's limiter |
| `Register`, `Tick` | discovery goes on meanwhile; the clock |

What a failure tells is in two parts: `Suggested`, the names compared for a close match, and
`Echoed`, the input schema that `lite` adds to every failure of a call, from an unknown tool to a
fault of the host's view, of the tool named or of the member whose arguments were wrong, as far as
`_request_visible_entry` lets it (`Enrichable`: on a route by view and tier, at the plain gateway not
at all).

Several modules have a variable `witness`, a history of what was in force since a
request came in.  No action reads it; properties compare a decision with it.  An
in-flight request may be decided by what was true at any moment of the request, and
by nothing earlier.  Every action ends with `Remember`, which extends it.
Definitions marked "Seeded defect" are not part of the model: each is the code with
one plausible mistake, and the property it is paired with in `PROJECT.json` fails
when it takes the place of the original.

## 3. Runs

| Run | Question | Answer |
|---|---|---|
| `code_exchange` | Can two handlers, expiry, crashes and the operator make a code yield two tokens, or a token of the wrong client, row or tier? | No |
| `consent_gate` | Can two overlapping requests and an operator get a code past the form, or a consent nobody gave? | No |
| `tool_call` | Can an operator's edits between its queries let a call run what was never allowed? | No, for a credential that stays (see the end of section 5) |
| `heavy_negotiation` | Is a continuation served to its owner only, only what the route exposes and its user may do now, and always when nothing has changed? | Yes, for what actions return |
| `route_views` | While requests race a discovery, is what was carved out unreachable, what was hidden reachable, every manifest within reach of its own process's invalidation, and every route whole in the end? | Yes; manifests of other processes are not (section 5) |
| `deleted_client` | Does the empty allowlist stop auto-registration? | No: finding |
| `downgraded_client` | Does a downgrade of a client take effect live? | No: finding |
| `connection_drift` | Does another agent connection end a negotiation? | No: finding |
| `unfiltered_window` | Is a request filtered by its route's deny list at any moment of discovery? | No: finding |
| `boot` | Does what starts answer where it is mounted, admit and serve no more than it declares, and is what the audits and the doctor report of it true, silence included? | Yes, but for a walk that raised and for metadata patterns a host has written itself (section 5) |
| `max_tier` | Is a highest tier that the startup check accepts the one that routes apply? | No: finding |
| `gateway` | Is every call on record as what it was, is the result of a write delivered, can a hidden tool be told from an absent one, do the limiters keep their limit between threads? | Yes, with the exceptions that the properties name: `lite` tells a hidden tool from an absent one at the plain gateway, and shows class dispatchers whole (section 5) |

**Bounds.** `code_exchange`: one code, two handlers, one identifier that was
drawn and one that was made up, two verifiers, `Ttl` 3, `Stall` 1, the clock to 3, two
rows per identifier, two operator steps.  Two handlers are the smallest race, and
every conflict is between two parties; a longer race only repeats it (the
proofs settle it for any number).  Two generations suffice to confuse an old row
with a new one.  `consent_gate`: two requests, one user, one client, one URI on the
allowlist and one off it, two tiers, two edits.  `tool_call`: one static token, one
client with one access token, two connections (newest and older), a read tool and a
write tool, three edits and one thread: a call writes nothing another call reads,
so only the operator can interfere, and any number of edits may fall
between two of its steps.  `heavy_negotiation`: two credentials, an ordinary and an unrestricted
user, two routes with different ceilings, a group of two actions, a class
dispatcher, a flat tool that is also a member of the group, one agent connection,
one token, one thread, two edits.  Calls meet only through a token, which exists when the call that minted it
has returned, and the proofs cover any number of threads, tokens and edits.
A rebuild that changes several tools is several edits; edits that change nothing
are left out; so are calls that find every token taken and redemptions of a token
that is not there, which the code refuses.

`route_views`: two threads, so that a request overtakes a scan and two scans interleave; two
routes: the wide one has the whole group and denies a tool by name, the narrow one keeps part
of the group, whose own name it does not select, and denies a slice of it; three tools, one
found by the scan and two registered at import, one of these a member of the group, which is
therefore visible before the group is; one group with two members, one without any.  Other
processes have their discovery behind them (`MCElsewhere`), and the process restarts when no
manifest of an earlier point is cached (a guard of `Restart`): one more point doubles the
state space, and the proofs take any set of points.
`unfiltered_window` has the same instance with wildcard rules that deny a group and a slice.
More rules, tools or groups would repeat these cases: a run takes one setting to stay short,
and the proofs cover every rule and any number of tools, groups and threads.

`boot` (and `max_tier`, over the same settings): some twenty thousand settings in five families,
each a cross product of the settings that the same code reads: where things are mounted (pairs of
paths, also reserved and malformed ones, over five host URL tables and four that write only some of
the metadata patterns), who may pass (every set of permission classes, every ceiling, every spelling
of the highest tier), what is scanned and carved (six URL tables; allow and deny lists of up to two
entries of every kind), what an operator is told (every fault once, with each command), and the
lists of tools.  Three routes are all there are; the shortest list that can be inert, survive and
carve at once has two entries.  `gateway`:
a hundred configurations of a gateway of ten tools, among them a group, a class dispatcher and a
Python callable, against some 180 requests.  Requests meet only in the limiters and in the registry, so
one is in flight at a time, with tools still being registered, except in the family with
limiters, where two threads run with `Limit` 2, `Period` 2 and the clock to 5: long enough for a
window to end, a new one to begin, and a thread that read the clock before to come in late.

Handlers, requests and verifiers are symmetric: nothing orders them, no
constant mentions one, and the runs that use symmetry check safety only.
`CHECK_DEADLOCK FALSE` is set wherever codes, edits, rows or the clock are bounded: a
bounded instance does come to an end, with every code drawn and every edit made.

**Fairness.** `RouteViews` assumes weak fairness of each thread's steps: a worker that serves
a request is scheduled again and again, and every one of its steps is a statement that ends.
Nothing is assumed of arrivals, of the clock or of the host's invalidations, and `Fail`
remains possible wherever the code may raise, so `ScanEndsWhole` begins where the scan has
got past the backends and the middleware, and ends unless the process does.  In the other parts nothing waits for another:
a request, `ready()` and the doctor are straight lines of statements, each of which ends or fails,
and no property there says that anything happens.

## 4. Proofs

`CodeExchangeProofs` (any clients, codes, handlers, times):

* `TypeCorrect`, and with the generations `TokensBelongToRows`: a token belongs to
  the row its client has now.
* `CodesAreSingleUse`.  `SingleUse` is not inductive: a handler that read the code just before
  it expired must not find the marker gone.  The invariant says that a request is no
  older than `Stall` (`OnTime`), that a handler has its code's client
  (`OfGrantee`), that past `Consume` the marker is set and outlives the handler
  (`MarkerLasts`), that one handler is past `Consume` for a code (`OneHolder`), that
  after `DiscardCode` the entry is gone (`Discarded`), that whoever still holds a
  code that was minted started before its deadline and will find the marker
  (`LateReaders`), and that a minted code is no longer cached (`Spent`).  It needs
  `2 * Stall < Ttl`: with the shipped `_AUTH_CODE_TTL` a worker must not be stuck for
  half of a code's life, which every usual worker timeout guarantees.
* `RedemptionImplementsGrant`: every step is a grant, a redemption or a stutter.
* `RequestsAreNoAuthority`, `MintingIsCurrent` (the row a handler holds is in its
  witness).

`HeavyNegotiationProofs` (any tools, routes, callers, users, threads, tokens, edits):

* `TypeCorrect`.
* `PayloadsKeepTheirOwner`: an entry's key is its history (`Minted`), and a redemption
  compares it with the caller's.
* `PayloadsAreAuthorized`: the view a call carries was exposed during the call, and the
  permissions it looks up are held at that moment (`Recorded`).
* `ResultTokensAreRedeemable`: a call that no edit has overtaken works with what is in
  force (`Fresh`), only what was called is minted (`Ran`), and a redemption begins after
  its entry is there (`Later`), so that with no edit in between both see the same.

`ConsentGateProofs` (any users, clients, URIs, requests, edits): `TypeCorrect`,
`FastPathNeedsConsent`, `FirstTouchNeedsForm`, `ConsentsComeFromApproval`,
`ApprovalIsCurrent`.  The invariant has two parts: what a GET has read is in its witness
(`Founded`), and what a POST is about to record was approved, at a tier in its witness
(`Vetted`).  A witness only grows while its request lasts, so a step of anybody else
disturbs neither.

`ToolCallProofs` (any credentials, clients, connections, tools, threads, edits):
`TypeCorrect`, `GateIsNeverFooled`, `AuthorityIsFixed`, `RevokedTokensRunNothing`.  The
invariant says that an access token keeps the tier it was issued with (`Snapshot`: the admin
site cannot write it) and that a call's history holds what it was let through for
(`Cleared`).  `GateIsNeverFooled` is the delicate one: what the first query found is in the
history; if it found nothing, the second query passes only a caller with no link at all at
that moment, to whom everything is allowed.

`RouteViewsProofs` (any tools, groups, prefixes, routes, rules, threads): `TypeCorrect`, `CarvingHolds`,
`DenialByNameHolds`, `HidingLosesNothing`, `InvalidationHolds`, `DiscoveryEndsWhole`.
The first part is about one snapshot: if it is `WellFormed` (a group that is there has exactly
its members, and then all tools are there), a view of it selects only what is present, nothing
that is denied by name, and its dispatchers reach their survivors.  The second shows that
every snapshot anybody holds is well formed and that the registry has not lost any of its names
(`Snapshot`).  What makes this inductive is when groups are installed: only over all
tools (`Registering`, `Installing`), so that two scans which replace each other's entries put
equal dispatchers in each other's place, and only members of groups are hidden (`Hiding`).
`Building` says that `rebuild_all` starts from a whole registry, `Mounting` and `CacheOK` that a
route with a manifest of this process has a view, and `Filling` that no list on its way to the
cache shows what is denied.  A restart keeps nothing but the cache, whose manifests are then all
`foreign`; what is foreign was shown from a well-formed registry (`ElsewhereAssumption`), so that it
too shows nothing that is denied.  `InvalidationHolds` claims no more than that: what
is not foreign can be invalidated.

`GatewayBootProofs` (any host URL table, settings, host classes, tools) has three kinds of theorem.

*Of what has started.*  `RoutesAreTheSurface`, `AnonymousReachIsKnown` and `CeilingsBound` follow from the
invariant `Started`: a process that is up was accepted by both gates of `ready()`, has the settings
it began with, and its table is what the installers made of the host's.  The properties are then
about the operators alone: each installer adds layers that serve nothing unfiltered (`Adds`), and
ranks are compared case by case, since the audit and the runtime rank an unknown word differently.
`MountsAnswer` and `ChallengesLeadBack` are about the first match.  A layer that matches a target decides it
(`FrontAnswers`); one that does not is as good as not there; so the table is taken layer by layer
(`MountedAnswers`), and it remains to show which layers match a target: route paths are distinct, and
none lies below a reserved prefix or above one, which the startup check has seen to.  What the host
includes itself has no layer, and no other layer matches it, so that it answers as it did.

*Of the walk.*  `ScanHolds` rests on `ScanInv`: what is found belongs to a pattern and is known to `seen`
(`FoundOnce`), what would be chosen under a name was found under it, from the API if anything
was (`Chosen`), relations are those of a tool that was found (`Recorded`), every pattern is still
to come or covered, unless something raises (`Onward`), and an entry of the registry that stands
for an action stands for one that was found (`Genuine`).  Only then can the last part say that a
kept name is served by the API (`ApiFirst`): registration, groups and bundles come after the choice
and take no entry away.

*Of what is reported.*  The difficulty is that a report is made once and the properties are about
what requests meet.  `Surveyed` says that after the scan the findings are those of an audit of the
registry as it is now, and that every list parses; with it `EntriesAudited` and `RelationsAudited`
are lemmas about one audit: the first that an entry without which the carving is the same removes
nothing, the second that a tool that one action only has claimed has, by `ScanInv`, the relations
recorded that the registered class declares.  `Gate` adds that after a
verdict the process does nothing more, so that a clean exit stays true (`StrictGate`, which by `ScanInv`
also has that the surface judged is complete where no class raises), and `Silent` that a doctor who
has nothing to say about metadata found the two names and public documents (`SilenceIsTrue`).  That
needs the layers again: a name that is held is held by the package's layer, which then answers every
challenge, or by the host's table (`NamedByMount`), which does unless it leaves something out
(`LeftOut`); and the case of a package that is switched off, whose table is the host's.

`GatewayProofs` (any tools, requests, results, configurations, threads, limits, with discovery
registering tools meanwhile): `CallsAreAccounted`, `HiddenToolsAreAbsent`, `WritesAreDelivered`,
`LimitsHold`.
The invariants build on one another.  `CallInv` says what a call at each step has on record, which
fields it has, and that what is about to run was reached through a dispatch that let it run;
`NameInv` adds that a finished answer names only what its caller could see, or what `lite` is known
to show (`HintsMay`, `EchoedMay`), which stays so because
the registry only grows while a route's view and the configuration do not change; `WriteInv` adds
that the answer to a write is whole or that its id or token leads back: the tool it names was
registered and visible when it was read before the dispatch, and still is.  Assumed of the
constants: a group's members are flat tools that exist before it and it declares no capability of
its own (`ToolAssumption`, `ConfigurationsAssumption`); a retrieve tool is no harder to call than
what writes (`ToolAssumption`); what a view returns has been rendered (`ResultsAssumption`).

`LimitsHold` has an invariant of its own, `RateInv`.  For each moment it weighs what has been let
through since then against what may still come in late.  At the tool limiter (`WindowOk`) only a
thread that read the clock before a window began can find it closed and put an earlier one in its
place, and each does so once: what such a window let through is bounded by the threads that are no
longer `Late`, and a window that began since follows at most one that was used up.  At the token
limiter (`CounterOk`) a call is let through without a count only if its counter expired between
`Add` and `Increment`; such threads were `Waiting` when it did, and the counter that the next `Add`
creates outlives the period, so that there is one such call per thread at most.  `Spent` says that what a
window or a counter has counted was let through since it began, which is what a refused call met.
The number of threads is finite (`ThreadsAssumption`); nothing else is assumed of it.

`ClientTableProofs` holds what the OAuth proofs need of the client table.

Only the named assumptions of the constants are used, and the bounds (`MaxGen`,
`MaxEdits`, `MaxTime`) are parameters of the proofs, which therefore hold for any bound.
`HostAssumption` says that a URL table is a sequence, of patterns that lead to classes, and that a
serializer has one field of a name.

Only model-checked are `ScanEndsWhole` (liveness under fairness is out of the prover's reach, as are
`ENABLED` and what a recursive definition computes) and that the violations of section 5 exist.
Every safety property that a passing run checks is a theorem.

## 5. Findings

Each is a violation run; the trace is short in every case.

1. `deleted_client`: the allowlist is looked at when a code is issued, not when the
   exchange creates the missing row (`contrib/oauth/views.py:493`).
2. `downgraded_client`: the tier of a call is the token's snapshot (`registry.py:313`);
   `_effective_tier` reaches only the principal.  ADR-009 promises the contrary.
3. `connection_drift`: `_heavy_owner_key` reads `request._mcp_agent_connection`, which
   nothing sets (`views.py:418`).
4. `unfiltered_window`: a request that overtakes discovery builds and mounts its route from the
   partial registry (`views.py:2898`).  An entry that denies a group, or `group:resource`, matches
   nothing before that group is registered, so what it denies can be called.  If the request
   swaps its view in after `rebuild_all`, the route stays like that until the process restarts.
5. `max_tier`: a `FRISIAN_MCP_MAX_TIER` with blanks or capitals passes the startup check, which
   normalises it, and caps the routes as an unknown word, which denies every credential above
   read (`apps.py:366`, against "One normalisation, shared by the runtime and the startup check").

Seen while reading, without a run of its own: the help text of
`AgentConnection.is_active` says that inactive connections are ignored and tool
filtering is disabled, while the gate fails closed (SEC-5); and `RateLimitMiddleware` calls
itself a sliding window while its counter restarts at the first call of a new one.  A
`tools/list` that overtakes discovery is cached for a whole time to live, since nothing in the
package calls the invalidation; a scan that raised is never tried again; and two scans
may run at once, which the comment in `apps.py` excludes: the proofs show that
they do no harm.

Further disagreements met while modelling, each kept in the model as the code has it (where a property
would otherwise be false it names the exception):

* A credential that is deleted cuts its agent connections, and a call that has authenticated before
  then finds none and runs unfiltered (`views.py:1605`).
* The help of a class dispatcher is re-authorized as an action named "help", which no dispatcher
  declares, so its token is not redeemable (`views.py:525`); nor is one for a write that the host
  permits to a caller without the capability, nor one whose keys only dispatch has normalised
  (`Promised` in `Gateway`).
* The README mounts `path("mcp/", include("frisian_mcp.urls"))`, which the slash-stripping
  middleware makes unreachable.
* A walk that an exception ends half-way is only logged (`backends/discovery.py:222`): discovery
  comes to its end, `mcp_doctor --strict` judges the half that was found, and may exit clean, although
  "A gate that cannot evaluate must not pass" (`mcp_doctor.py:317`).  `StrictIsAGate` claims the whole
  surface only where no class raises (`NothingRaises`).
* A host that mounts the authorization server's metadata and not the protected resource's
  (`mcp_doctor.py:436`) hears nothing: the reachability check returns at once, since "`_check_url_mounting`
  has already reported the common cause" (`mcp_doctor.py:770`), which it has not, and the challenge of a
  refused route leads to a 404.  A host that mounts the bare document and not those by path is even told
  that discovery is reachable, while the challenge of a route names one by path.  Both are
  `LeftOut` in `SilenceMeansDiscoverable`.
* `invalidate_tools_list_cache()` deletes the cached manifest "so the next request rebuilds it"
  (`views.py:331`), but only under the keys of routes mounted in the calling process: called from a
  management command, a fresh process or one whose discovery has not ended, it leaves what
  others have stored until it expires (`foreign` in `RouteViews`).
* Relations are recorded under a tool's name; where two classes claim it, those of the class scanned
  last decide, whichever is registered (`_relations.py:250`).
* The doctor scans even where discovery or the package is switched off; it takes the metadata for
  mounted when a URL table names it anywhere, also below some prefix or behind another pattern.
* Whether an agent may call the retrieve tool is not asked before a write is answered by ids
  (`views.py:645`), nor, on the plain gateway, at which tier.
* `verify` is looked for in the params of a group call only, while dispatch finds it in both places.
* A Python tool that raises `LookupError` or `PermissionError` after it ran is on record as denied
  (`views.py:2211`).
* A token store that is down after a commit, and a result that does not serialise, leave the
  request with an unhandled exception (`views.py:2470`).
* The errors of `lite` show the whole schema of a class dispatcher (`views.py:1257`), whatever
  the caller's tier; and at the plain gateway that of any registered tool the call names, also one above
  `FRISIAN_MCP_MAX_TIER`, which an invented name does not get.  The repository tracks the second as CR-19
  (`views.py:1083`), while the comment at `views.py:2197` calls the hatch "a no-op here BY
  CONSTRUCTION".  These are the two exceptions in `HiddenIsAbsent`.

A limit the model keeps rather than judges: where nothing was resolved, the entry
is bound to the outer tool, so a long help answer of a group, computed
on one route, is authorized on another as the group.  `ServedIsAuthorized`
therefore speaks of what actions return.

## 6. Plan

In order; each step is a module, its run, and its theorems.

1. **Done.** `ClientTable`, `CodeExchange`, `AuthCodeGrant`; `ConsentGate`; `CredentialStore`,
   `ToolCall`; `HeavyNegotiation`; `RouteGrammar`, `Registry`, `RouteViews`; and the proofs of each.
2. **Done.** `GatewayBoot`, `HostScan`, `RouteAudit`, `Doctor`; `RateLimits`, `Gateway`.
3. **Done.** Proofs of every safety property of these two: first matches and layers, audits of the same
   registry, the walk, the limiters.
4. In `RouteViews`: keys per tier, the agent's filter and the pages of a listing;
   `rebuild_all` called by the host at run time.
5. The scope map, and the cursor over a changing list, against reference definitions.
6. The refresh de-duplication of the token admin, as two steps in `CredentialStore`.

Composition: `ConsentGate` and `CodeExchange` extend `ClientTable`; `ToolCall`
extends `CredentialStore`; `RouteViews` extends `Registry`, which extends `RouteGrammar`; `HeavyNegotiation`
abstracts the gate of `ToolCall` to one step and the views of `RouteViews` to a table.
`Doctor` extends `RouteAudit`, which extends `HostScan`, `GatewayBoot` and `RouteGrammar`; `Gateway`
extends `RateLimits`, and has the gate, the redemption and the views in one step each.

## 7. Conventions

Names follow the code where TLA+ allows it.  A step is one shared access; a guard is
a condition or an early return of the code.  Requests the code refuses without writing
anything are left out when no property could see them.  Sentinels (`None`, `Anonymous`,
`Inactive`) are model values that an assumption keeps apart from the data.  Bounds are
named `Max...` and stand in guards only.

## 8. Not modelled

* The texts of answers and errors, JSON itself, the event stream that frames the same answers, the
  usage envelope, the projections in `negotiation.py`: formatting, with no state.
* What `SyncInvocation` does before it calls the view: coercion of arguments, the inner request;
  `permission_classes` of the host, the tier hook and the role map: host code behind an
  interface, of which the outcomes are modelled.  Asynchronous backends have no implementation.
* Which Django permission a tool needs: a set of tools whose capability a caller holds stands for it.
* Checks of `checks.py` that look at the form of one setting only; `mcp_config`, `mcp_hash_api_key`:
  they print.
* In `RouteViews`: hosts without routes, whose one view is not looked at by requests; `FRISIAN_MCP_AUTODISCOVER = False`,
  where routes are built at start and nothing races them; processes with different settings on one cache (a roll-out
  of new rules meets the manifests of the old ones until they expire).
* Links of the middleware chain other than the rate limiter (the host's), and resource providers
  (a locked dictionary).  A cache that is down lets every token request pass; it is not one of the states
  of `RateLimits`.
* The hashing of secrets and tokens: a credential is its identity; that values are
  drawn once is assumed where they come from `secrets`.
* Cache eviction before the deadline at the token endpoint: it would lose the
  consumed marker, and nothing in the code could notice.
