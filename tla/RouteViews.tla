----------------------------- MODULE RouteViews -----------------------------
(***************************************************************************)
(* Discovery at the first request, and requests on the configured routes   *)
(* (apps.py, route_views.py, views.py).                                    *)
(*                                                                         *)
(* A request first runs the request_started receiver, if the signal still  *)
(* had it: it disconnects the receiver, tests and sets the flag, scans,    *)
(* registers the tools one at a time, installs the dispatch groups,        *)
(* rebuilds every route, and only then goes on to the gateway.  Other      *)
(* requests arrive meanwhile: nothing makes them wait.                     *)
(*                                                                         *)
(* At the gateway a request takes its route's view, or builds one when     *)
(* there is none; it then calls a tool or lists them, perhaps through the  *)
(* shared cache of manifests.  A view is represented by the snapshot of    *)
(* the registry it was built from.                                         *)
(*                                                                         *)
(* The cache is shared by the processes of the host and outlives them; all *)
(* else is of one process, which may end and be started anew.  The others  *)
(* run the same code under the same settings.                              *)
(***************************************************************************)
EXTENDS Registry

CONSTANTS
    Routes,         \* the configured routes
    Settings,       \* the configurations to consider: functions from routes to rules
    Elsewhere,      \* bound: where in its discovery another process may be when it lists
    Unbuilt         \* no view

VARIABLES
    rules,          \* rules[r] : the allow and deny lists of route r
    connected,      \* the receiver is connected to request_started
    discovered,     \* the flag _mcp_discovered
    views,          \* views[r] : the mounted view of route r
    cached,         \* cached[k] : the tools/list manifest under key k, if any, in a set
    foreign,        \* history: the keys whose manifest another process has stored
    request         \* request[t] : what thread t is doing

vars == <<registry, hidden, rules, connected, discovered, views, cached, foreign, request>>

ASSUME SettingsAssumption == Settings \subseteq [Routes -> RouteRules]

ASSUME RoutesAssumption == Routes # {} /\ Unbuilt \notin Registries

KnownTools == Manual \cup Discovered

Bundled(g) == Bundles[g] \cap KnownTools

\* Groups bundle all their tools, and are registered after the tools are.
WellFormed(base) ==
    /\ base \in Registries
    /\ Manual \subseteq Present(base)
    /\ \A n \in Tools \cap Present(base) : n \in KnownTools /\ base[n].members = {}
    /\ \A g \in Groups \cap Present(base) :
           /\ base[g].members = Bundled(g)
           /\ Bundled(g) # {}
           /\ KnownTools \subseteq Present(base)

ASSUME ElsewhereAssumption ==
    \A point \in Elsewhere :
        /\ point \in [registry : Registries, hidden : SUBSET (Tools \X Authors)]
        /\ WellFormed(point.registry)

Views == Registries \cup {Unbuilt}

Steps == {"idle", "disconnect", "flag", "claim", "collect", "register", "install",
          "resolve", "build", "swap", "serve", "fill"}

Requests ==
    [pc      : Steps,
     route   : Routes,
     todo    : SUBSET Names,            \* tools, then groups, still to be registered
     names   : SUBSET Names,            \* list_names() when the groups are installed
     hide    : SUBSET Tools,            \* members still to be hidden
     built   : [Routes -> Views],       \* what rebuild_all has built so far
     view    : Views,                   \* request._mcp_route_view
     listing : SUBSET Names]            \* the manifest on its way to the cache

At(t, step) == request[t].pc = step

NothingBuilt == [r \in Routes |-> Unbuilt]

Idle(r) == [pc |-> "idle", route |-> r, todo |-> {}, names |-> {}, hide |-> {},
            built |-> NothingBuilt, view |-> Unbuilt, listing |-> {}]

AnyRoute == CHOOSE r \in Routes : TRUE

Init ==
    /\ RegistryInit
    /\ rules \in Settings
    /\ connected = TRUE
    /\ discovered = FALSE
    /\ views = NothingBuilt
    /\ cached = [r \in Routes |-> {}]
    /\ foreign = {}
    /\ request = [t \in Threads |-> Idle(AnyRoute)]

Goto(t, step) == request' = [request EXCEPT ![t].pc = step]

Finish(t) == request' = [request EXCEPT ![t] = Idle(AnyRoute)]

\* Seeded defect: one manifest for all routes.
SharedCacheKey(r) == CHOOSE k \in Routes : TRUE

\* Manifests are kept per route.
CacheKey(r) == r

-----------------------------------------------------------------------------
(* Discovery. *)

\* request_started: the signal calls the receivers it finds connected.
Arrive(t, r) ==
    /\ At(t, "idle")
    /\ request' = [request EXCEPT ![t] =
                       [Idle(r) EXCEPT !.pc = IF connected THEN "disconnect" ELSE "resolve"]]
    /\ UNCHANGED <<registry, hidden, rules, connected, discovered, views, cached, foreign>>

Disconnect(t) ==
    /\ At(t, "disconnect")
    /\ connected' = FALSE
    /\ Goto(t, "flag")
    /\ UNCHANGED <<registry, hidden, rules, discovered, views, cached, foreign>>

\* The flag is tested and set without a lock.
TestFlag(t) ==
    /\ At(t, "flag")
    /\ Goto(t, IF discovered THEN "resolve" ELSE "claim")
    /\ UNCHANGED <<registry, hidden, rules, connected, discovered, views, cached, foreign>>

SetFlag(t) ==
    /\ At(t, "claim")
    /\ discovered' = TRUE
    /\ Goto(t, "collect")
    /\ UNCHANGED <<registry, hidden, rules, connected, views, cached, foreign>>

Collect(t) ==
    /\ At(t, "collect")
    /\ request' = [request EXCEPT ![t].pc = "register", ![t].todo = Discovered]
    /\ UNCHANGED <<registry, hidden, rules, connected, discovered, views, cached, foreign>>

RegisterTool(t) ==
    /\ At(t, "register")
    /\ \E n \in request[t].todo :
           /\ Register(n, t, {})
           /\ request' = [request EXCEPT ![t].todo = @ \ {n}]
    /\ UNCHANGED <<hidden, rules, connected, discovered, views, cached, foreign>>

\* Seeded defect: the routes are rebuilt before the groups are there.
LoadMiddlewareAndFinalize(t) ==
    /\ At(t, "register") /\ request[t].todo = {}
    /\ request' = [request EXCEPT ![t].pc = "install", ![t].names = Present(registry)]
    /\ UNCHANGED <<registry, hidden, rules, connected, discovered, views, cached, foreign>>

\* load_middleware() has succeeded; _install_dispatch_groups reads the names once.
LoadMiddleware(t) ==
    /\ At(t, "register") /\ request[t].todo = {}
    /\ request' = [request EXCEPT ![t].pc = "install",
                                  ![t].todo = Groups,
                                  ![t].names = Present(registry)]
    /\ UNCHANGED <<registry, hidden, rules, connected, discovered, views, cached, foreign>>

\* A backend or the loading of the middleware raises: the request fails, the flag stays.
Fail(t) ==
    /\ \/ At(t, "collect")
       \/ At(t, "register") /\ request[t].todo = {}
    /\ Finish(t)
    /\ UNCHANGED <<registry, hidden, rules, connected, discovered, views, cached, foreign>>

MembersOf(t, g) == request[t].names \cap Bundles[g]

\* Seeded defect: a group without members ends the installation, and the request.
InstallGroupReturns(t) ==
    /\ At(t, "install") /\ request[t].hide = {}
    /\ \E g \in request[t].todo :
           \/ /\ MembersOf(t, g) = {}
              /\ UNCHANGED registry
              /\ Finish(t)
           \/ /\ MembersOf(t, g) # {}
              /\ Register(g, t, MembersOf(t, g))
              /\ request' = [request EXCEPT ![t].todo = @ \ {g}, ![t].hide = MembersOf(t, g)]
    /\ UNCHANGED <<hidden, rules, connected, discovered, views, cached, foreign>>

\* A group without members is skipped with a warning.
InstallGroup(t) ==
    /\ At(t, "install") /\ request[t].hide = {}
    /\ \E g \in request[t].todo :
           /\ request' = [request EXCEPT ![t].todo = @ \ {g}, ![t].hide = MembersOf(t, g)]
           /\ \/ MembersOf(t, g) = {} /\ UNCHANGED registry
              \/ MembersOf(t, g) # {} /\ Register(g, t, MembersOf(t, g))
    /\ UNCHANGED <<hidden, rules, connected, discovered, views, cached, foreign>>

HideMember(t) ==
    /\ At(t, "install")
    /\ \E n \in request[t].hide :
           /\ SetHidden(n)
           /\ request' = [request EXCEPT ![t].hide = @ \ {n}]
    /\ UNCHANGED <<registry, rules, connected, discovered, views, cached, foreign>>

Installed(t) == At(t, "install") /\ request[t].todo = {} /\ request[t].hide = {}

\* rebuild_all builds the views one after the other, each from a snapshot of its own ...
BuildRoute(t, r) ==
    /\ Installed(t) /\ request[t].built[r] = Unbuilt
    /\ request' = [request EXCEPT ![t].built[r] = registry]
    /\ UNCHANGED <<registry, hidden, rules, connected, discovered, views, cached, foreign>>

\* ... and then replaces them all at once.  The audit that follows writes nothing.
SwapAll(t) ==
    /\ Installed(t)
    /\ \A r \in Routes : request[t].built[r] # Unbuilt
    /\ views' = request[t].built
    /\ request' = [request EXCEPT ![t] = [Idle(request[t].route) EXCEPT !.pc = "resolve"]]
    /\ UNCHANGED <<registry, hidden, rules, connected, discovered, cached, foreign>>
-----------------------------------------------------------------------------
(* The gateway. *)

ResolveRouteView(t) ==
    /\ At(t, "resolve")
    /\ LET view == views[request[t].route] IN
       request' = [request EXCEPT ![t].view = view,
                                  ![t].pc = IF view = Unbuilt THEN "build" ELSE "serve"]
    /\ UNCHANGED <<registry, hidden, rules, connected, discovered, views, cached, foreign>>

\* Seeded defect: a view built on demand is used and not mounted.
BuildViewUnmounted(t) ==
    /\ At(t, "build")
    /\ request' = [request EXCEPT ![t].view = registry, ![t].pc = "serve"]
    /\ UNCHANGED <<registry, hidden, rules, connected, discovered, views, cached, foreign>>

\* rebuild() builds before it takes the lock ...
BuildView(t) ==
    /\ At(t, "build")
    /\ request' = [request EXCEPT ![t].view = registry, ![t].pc = "swap"]
    /\ UNCHANGED <<registry, hidden, rules, connected, discovered, views, cached, foreign>>

\* ... under which it replaces whatever is mounted by then.
SwapView(t) ==
    /\ At(t, "swap")
    /\ views' = [views EXCEPT ![request[t].route] = request[t].view]
    /\ Goto(t, "serve")
    /\ UNCHANGED <<registry, hidden, rules, connected, discovered, cached, foreign>>

\* tools/list on a miss; a hit is answered from the cache and changes nothing.
List(t) ==
    /\ At(t, "serve")
    /\ cached[CacheKey(request[t].route)] = {}
    /\ request' = [request EXCEPT
                       ![t].pc = "fill",
                       ![t].listing = Listing(rules[request[t].route], request[t].view)]
    /\ UNCHANGED <<registry, hidden, rules, connected, discovered, views, cached, foreign>>

Fill(t) ==
    /\ At(t, "fill")
    /\ cached' = [cached EXCEPT ![CacheKey(request[t].route)] = {request[t].listing}]
    /\ foreign' = foreign \ {CacheKey(request[t].route)}
    /\ Finish(t)
    /\ UNCHANGED <<registry, hidden, rules, connected, discovered, views>>

\* Anything else a request does, calls included, ends without a change here.
Respond(t) ==
    /\ At(t, "serve")
    /\ Finish(t)
    /\ UNCHANGED <<registry, hidden, rules, connected, discovered, views, cached, foreign>>

\* The time to live of a manifest runs out.
Expire(r) ==
    /\ cached[r] # {}
    /\ cached' = [cached EXCEPT ![r] = {}]
    /\ foreign' = foreign \ {r}
    /\ UNCHANGED <<registry, hidden, rules, connected, discovered, views, request>>

\* invalidate_tools_list_cache(), for the host to call: the keys of the routes that are
\* mounted in this process.
Invalidate ==
    /\ cached' = [r \in Routes |-> IF views[r] = Unbuilt THEN cached[r] ELSE {}]
    /\ cached' # cached
    /\ foreign' = {r \in foreign : views[r] = Unbuilt}
    /\ UNCHANGED <<registry, hidden, rules, connected, discovered, views, request>>
-----------------------------------------------------------------------------
(* Other processes. *)

\* What another process may have stored of a route.
Foreign(r) == {Shown(rules[r], point.registry, point.hidden) : point \in Elsewhere}

\* Another process answers tools/list on a miss.
StoredElsewhere(r) ==
    /\ cached[CacheKey(r)] = {}
    /\ \E manifest \in Foreign(r) : cached' = [cached EXCEPT ![CacheKey(r)] = {manifest}]
    /\ foreign' = foreign \cup {CacheKey(r)}
    /\ UNCHANGED <<registry, hidden, rules, connected, discovered, views, request>>

\* The process ends, in the middle of whatever it does, and the one that takes its place
\* finds what is cached; Elsewhere bounds this too.
Restart ==
    /\ \A r \in Routes : cached[CacheKey(r)] \subseteq Foreign(r)
    /\ RegistryRestarts
    /\ connected' = TRUE
    /\ discovered' = FALSE
    /\ views' = NothingBuilt
    /\ foreign' = {k \in Routes : cached[k] # {}}
    /\ request' = [t \in Threads |-> Idle(AnyRoute)]
    /\ UNCHANGED <<rules, cached>>
-----------------------------------------------------------------------------
Progress(t) ==
    \/ Disconnect(t) \/ TestFlag(t) \/ SetFlag(t)
    \/ Collect(t) \/ RegisterTool(t) \/ LoadMiddleware(t) \/ Fail(t)
    \/ InstallGroup(t) \/ HideMember(t)
    \/ \E r \in Routes : BuildRoute(t, r)
    \/ SwapAll(t)
    \/ ResolveRouteView(t) \/ BuildView(t) \/ SwapView(t)
    \/ List(t) \/ Fill(t) \/ Respond(t)

Next ==
    \/ \E t \in Threads : Progress(t)
    \/ \E t \in Threads, r \in Routes : Arrive(t, r)
    \/ \E r \in Routes : Expire(r) \/ StoredElsewhere(r)
    \/ Invalidate
    \/ Restart

\* A worker thread that serves a request is not starved by the others.
Fairness == \A t \in Threads : WF_vars(Progress(t))

Spec == Init /\ [][Next]_vars /\ Fairness
-----------------------------------------------------------------------------
(* Properties. *)

\* The state has the shape the comments at the variables give it.
TypeOK ==
    /\ registry \in Registries
    /\ hidden \subseteq Tools \X Authors
    /\ rules \in [Routes -> RouteRules]
    /\ connected \in BOOLEAN
    /\ discovered \in BOOLEAN
    /\ views \in [Routes -> Views]
    /\ cached \in [Routes -> SUBSET SUBSET Names]
    /\ foreign \subseteq Routes
    /\ request \in [Threads -> Requests]

Serving(t) == request[t].pc \in {"serve", "fill"}

\* What request t can invoke with the view it carries.
CallableBy(t) == Callable(rules[request[t].route], request[t].view)

\* A request can invoke only what its route selected on the surface its view was built
\* from: no tool carved out of a dispatcher comes back through it, not even when
\* discovery replaces the registry's own dispatcher meanwhile
\* (RouteView.dispatch, _rebuild_group_dispatcher).
CarvedIsUnreachable ==
    \A t \in Threads : Serving(t) =>
        CallableBy(t) \subseteq Visible(rules[request[t].route], request[t].view)

\* A tool denied by its own name, or by its resource's, is absent from the route at all
\* times, discovery included: it cannot be called there, and no cached manifest that the
\* route is answered from shows it (RouteMatcher.select, the cache key of _handle_tools_list).
DeniedByNameIsAbsent ==
    /\ \A t \in Threads : Serving(t) =>
           CallableBy(t) \cap DeniedByName(rules[request[t].route]) = {}
    /\ \A r \in Routes : \A manifest \in cached[CacheKey(r)] :
           manifest \cap (DeniedByName(rules[r]) \ Groups) = {}

\* The snapshot holds everything discovery registers.
Whole(view) ==
    /\ view # Unbuilt
    /\ KnownTools \subseteq Present(view)
    /\ \A g \in Groups : Bundled(g) # {} => view[g] # Absent /\ view[g].members = Bundled(g)

\* Hiding the members of a group loses nothing: in a view built from a whole registry,
\* whatever tool is not listed is a member of a dispatcher that is listed and routes to
\* it (_install_dispatch_groups, RouteView._assemble).
NothingIsLost ==
    \A r \in Routes : Whole(views[r]) =>
        LET listed == Listing(rules[r], views[r]) IN
        \A n \in EntriesOf(rules[r], views[r]) \ listed :
            \E g \in listed \cap GroupsOf(views[r]) : n \in Reaches(rules[r], views[r], g)

\* rebuild_all, which runs once at the end of discovery, leaves every route with a view
\* of the whole registry, whatever requests have built and mounted before.
RebuildMakesRoutesWhole ==
    [][\A t \in Threads : Installed(t) /\ request'[t].pc = "resolve" =>
           \A r \in Routes : Whole(views'[r])]_vars

\* invalidate_tools_list_cache deletes the keys of the routes that are mounted in the process
\* that calls it.  That is enough for whatever this process has stored, from whatever view and
\* at whatever point of discovery.  What another process has stored, or a former one has
\* left, it misses as long as the route has no view here: there, "the next request rebuilds
\* it" (its docstring) is not so.
InvalidationReachesOwn ==
    \A r \in Routes : cached[r] # {} /\ r \notin foreign => views[r] # Unbuilt

\* A discovery that got past the backends and the middleware ends with all routes whole,
\* unless its process ends before.
ScanEndsWhole ==
    (\E t \in Threads : At(t, "install")) ~> (~discovered \/ \A r \in Routes : Whole(views[r]))

\* The surface when discovery is over.
FinalSurface ==
    LET bundling == {g \in Groups : Bundled(g) # {}}
    IN  [names   |-> KnownTools \cup bundling,
         members |-> [g \in bundling |-> Bundled(g)]]

\* "no window of unfiltered exposure ever exists" (route_views.py, RouteViewRegistry): a
\* request can call only what its route selects on the surface that was configured.
NoUnfilteredWindow ==
    \A t \in Threads : Serving(t) =>
        CallableBy(t) \subseteq Select(rules[request[t].route], FinalSurface)
=============================================================================
