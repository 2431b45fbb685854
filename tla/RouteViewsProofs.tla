-------------------------- MODULE RouteViewsProofs --------------------------
(* Theorems about RouteViews, for any tools, groups, routes, settings and    *)
(* threads.                                                                  *)
EXTENDS RouteViews, TLAPS

-----------------------------------------------------------------------------
(* What a view of a well-formed snapshot selects, lists and reaches.         *)

LEMMA SurfaceIs ==
  ASSUME NEW base
  PROVE  /\ Surface(base).names = Present(base)
         /\ DOMAIN Surface(base).members = GroupsOf(base)
         /\ \A g \in GroupsOf(base) : Surface(base).members[g] = base[g].members
  BY DEF Surface

LEMMA GroupsAre ==
  ASSUME NEW base, WellFormed(base)
  PROVE  /\ GroupsOf(base) = Groups \cap Present(base)
         /\ Present(base) \subseteq Names
         /\ Tools \cap GroupsOf(base) = {}
  BY NamesAssumption DEF WellFormed, GroupsOf, Present, Names

LEMMA MembersArePresent ==
  ASSUME NEW base, WellFormed(base), NEW g \in GroupsOf(base)
  PROVE  base[g].members \subseteq Present(base)
  BY GroupsAre DEF WellFormed, Bundled

LEMMA ResolveInside ==
  ASSUME NEW base, WellFormed(base), NEW e
  PROVE  Resolve(e, Surface(base)) \subseteq Present(base)
  <1> DEFINE s == Surface(base)
  <1>1. /\ s.names = Present(base) /\ DOMAIN s.members = GroupsOf(base)
        /\ \A g \in GroupsOf(base) : s.members[g] \subseteq Present(base)
    BY SurfaceIs, MembersArePresent
  <1> HIDE DEF s
  <1>2. ResolveBare(e, s) \subseteq Present(base)
    BY <1>1 DEF ResolveBare
  <1>3. ResolveQualified(e, s) \subseteq Present(base)
    BY <1>1 DEF ResolveQualified
  <1>4. Resolve(e, s) \subseteq Present(base)
    BY <1>1, <1>2, <1>3 DEF Resolve
  <1> QED
    BY <1>4 DEF s

LEMMA VisibleIsPresent ==
  ASSUME NEW base, WellFormed(base), NEW rule
  PROVE  Visible(rule, base) \subseteq Present(base)
  BY ResolveInside DEF Visible, Select, Matched

\* A bare entry that names no group matches the names under it, on every surface.
LEMMA DeniedIsNotVisible ==
  ASSUME NEW base, WellFormed(base), NEW rule
  PROVE  Visible(rule, base) \cap DeniedByName(rule) = {}
  <1> SUFFICES ASSUME NEW x \in Visible(rule, base), x \in DeniedByName(rule) PROVE FALSE
    OBVIOUS
  <1>1. PICK e \in rule.deny : e.kind = "bare" /\ e.label \notin Groups /\ x \in Under[e.label]
    BY DEF DeniedByName
  <1>2. e.label \notin DOMAIN Surface(base).members
    BY <1>1, SurfaceIs, GroupsAre
  <1>3. x \in Surface(base).names
    BY VisibleIsPresent, SurfaceIs
  <1>4. x \in Resolve(e, Surface(base))
    BY <1>1, <1>2, <1>3 DEF Resolve, ResolveBare
  <1>5. x \in Matched(rule.deny, Surface(base))
    BY <1>4 DEF Matched
  <1> QED
    BY <1>5 DEF Visible, Select

LEMMA FlatIsVisible ==
  ASSUME NEW base, WellFormed(base), NEW rule, NEW n \in EntriesOf(rule, base), n \notin Groups
  PROVE  n \in Visible(rule, base)
  BY GroupsAre DEF EntriesOf

\* A dispatcher shared with the registry reaches what it reached when the view was built.
LEMMA ReachesSurvivors ==
  ASSUME NEW base, WellFormed(base), WellFormed(registry), NEW rule,
         NEW g \in EntriesOf(rule, base) \cap GroupsOf(base)
  PROVE  /\ Reaches(rule, base, g) \subseteq Survivors(rule, base, g)
         /\ g \in Present(registry) => Reaches(rule, base, g) = Survivors(rule, base, g)
  <1>1. g \in Groups /\ g \in Names /\ base[g].members = Bundled(g)
    BY GroupsAre DEF WellFormed
  <1>2. CASE g \in Rebuilt(rule, base)
    BY <1>2 DEF Reaches, Present
  <1>3. CASE g \notin Rebuilt(rule, base)
    <2>1. Survivors(rule, base, g) = Bundled(g)
      BY <1>1, <1>3 DEF Rebuilt
    <2>2. CASE registry[g] = Absent
      BY <1>3, <2>2 DEF Reaches, Present
    <2>3. CASE registry[g] # Absent
      <3>1. registry[g].members = Bundled(g)
        BY <1>1, <2>3 DEF WellFormed, Present
      <3> QED
        BY <1>3, <2>1, <2>3, <3>1 DEF Reaches
    <2> QED
      BY <2>2, <2>3
  <1> QED
    BY <1>2, <1>3

LEMMA CallableIsVisible ==
  ASSUME NEW base, WellFormed(base), WellFormed(registry), NEW rule
  PROVE  Callable(rule, base) \subseteq Visible(rule, base)
  <1>1. EntriesOf(rule, base) \ GroupsOf(base) \subseteq Visible(rule, base)
    BY DEF EntriesOf
  <1>2. \A g \in EntriesOf(rule, base) \cap GroupsOf(base) :
            Reaches(rule, base, g) \subseteq Visible(rule, base)
    BY ReachesSurvivors DEF Survivors
  <1> QED
    BY <1>1, <1>2 DEF Callable
-----------------------------------------------------------------------------
(* Type correctness.  TypeOK is inductive with what todo ranges over.        *)

TodoOK ==
    \A t \in Threads :
        /\ At(t, "register") => request[t].todo \subseteq Discovered
        /\ At(t, "install") => request[t].todo \subseteq Groups

Typed == TypeOK /\ TodoOK

LEMMA UnbuiltIsApart == \A base \in Registries : base # Unbuilt
  BY RoutesAssumption

LEMMA IdleType ==
  ASSUME NEW r \in Routes
  PROVE  Idle(r) \in Requests /\ Idle(r).pc = "idle"
  BY DEF Idle, Requests, Steps, NothingBuilt, Views

LEMMA AnyRouteType == AnyRoute \in Routes
  BY RoutesAssumption DEF AnyRoute

\* The records a step may put in the place of a request.
LEMMA FieldTypes ==
  ASSUME NEW q \in Requests
  PROVE  /\ \A s \in Steps : [q EXCEPT !.pc = s] \in Requests
         /\ \A x \in SUBSET Names : [q EXCEPT !.todo = x] \in Requests
         /\ \A x \in SUBSET Tools : [q EXCEPT !.hide = x] \in Requests
         /\ \A s \in Steps, x \in SUBSET Names :
                /\ [q EXCEPT !.pc = s, !.todo = x] \in Requests
                /\ [q EXCEPT !.pc = s, !.listing = x] \in Requests
         /\ \A s \in Steps, v \in Views : [q EXCEPT !.view = v, !.pc = s] \in Requests
         /\ \A x \in SUBSET Names, y \in SUBSET Tools :
                [q EXCEPT !.todo = x, !.hide = y] \in Requests
         /\ \A s \in Steps, x, y \in SUBSET Names :
                [q EXCEPT !.pc = s, !.todo = x, !.names = y] \in Requests
         /\ \A r \in Routes, v \in Views : [q EXCEPT !.built[r] = v] \in Requests
  BY DEF Requests

LEMMA RequestTypes ==
  ASSUME TypeOK, NEW t \in Threads, NEW q \in Requests, request' = [request EXCEPT ![t] = q]
  PROVE  request' \in [Threads -> Requests]
  BY DEF TypeOK

LEMMA GotoType ==
  ASSUME TypeOK, NEW t \in Threads, NEW step \in Steps, Goto(t, step)
  PROVE  request' \in [Threads -> Requests]
  BY FieldTypes DEF TypeOK, Goto

LEMMA FinishType ==
  ASSUME TypeOK, NEW t \in Threads, Finish(t)
  PROVE  request' \in [Threads -> Requests]
  BY IdleType, AnyRouteType DEF TypeOK, Finish

LEMMA RegisterType ==
  ASSUME TypeOK, NEW n \in Names, NEW t \in Threads, NEW m \in SUBSET Tools, Register(n, t, m)
  PROVE  registry' \in Registries
  <1>1. [by |-> t, members |-> m] \in ToolEntries
    BY DEF ToolEntries, Authors
  <1> QED
    BY <1>1 DEF TypeOK, Register, Registries

LEMMA HideType ==
  ASSUME TypeOK, NEW n \in Tools, SetHidden(n)
  PROVE  hidden' \subseteq Tools \X Authors
  <1>1. registry[n] # Absent => registry[n].by \in Authors
    BY DEF TypeOK, Registries, Names, ToolEntries
  <1> QED
    BY <1>1 DEF TypeOK, SetHidden

LEMMA MembersType ==
  ASSUME NEW t, NEW g \in Groups
  PROVE  MembersOf(t, g) \subseteq Tools
  BY RegistryAssumption DEF MembersOf

\* Only discovery changes the registry and the flags of its entries.
LEMMA DiscoveryType ==
  ASSUME Typed, NEW t \in Threads,
         \/ Disconnect(t) \/ TestFlag(t) \/ SetFlag(t) \/ Collect(t) \/ RegisterTool(t)
         \/ LoadMiddleware(t) \/ Fail(t) \/ InstallGroup(t) \/ HideMember(t)
  PROVE  TypeOK'
  <1> USE DEF Typed
  <1>1. CASE Disconnect(t)
    BY <1>1, GotoType DEF Disconnect, TypeOK, Steps
  <1>2. CASE TestFlag(t)
    BY <1>2, GotoType DEF TestFlag, TypeOK, Steps
  <1>3. CASE SetFlag(t)
    BY <1>3, GotoType DEF SetFlag, TypeOK, Steps
  <1>4. CASE Collect(t)
    <2>1. request' \in [Threads -> Requests]
      BY <1>4, FieldTypes, RegistryAssumption DEF Collect, TypeOK, Steps, Names
    <2> QED
      BY <1>4, <2>1 DEF Collect, TypeOK
  <1>5. CASE RegisterTool(t)
    <2>1. PICK n \in request[t].todo :
              Register(n, t, {}) /\ request' = [request EXCEPT ![t].todo = @ \ {n}]
      BY <1>5 DEF RegisterTool
    <2>2. n \in Names /\ request[t].todo \ {n} \in SUBSET Names
      BY <2>1 DEF TypeOK, Requests
    <2>4. request' \in [Threads -> Requests]
      BY <2>1, <2>2, FieldTypes DEF TypeOK
    <2>3. registry' \in Registries
      BY <2>1, <2>2, RegisterType
    <2> QED
      BY <1>5, <2>3, <2>4 DEF RegisterTool, TypeOK
  <1>6. CASE LoadMiddleware(t)
    <2>2. Present(registry) \in SUBSET Names /\ Groups \in SUBSET Names
      BY DEF Present, Names
    <2>1. request' \in [Threads -> Requests]
      BY <1>6, <2>2, FieldTypes DEF LoadMiddleware, TypeOK, Steps
    <2> QED
      BY <1>6, <2>1 DEF LoadMiddleware, TypeOK
  <1>7. CASE Fail(t)
    BY <1>7, FinishType DEF Fail, TypeOK
  <1>8. CASE InstallGroup(t)
    <2>1. PICK g \in request[t].todo :
              /\ request' = [request EXCEPT ![t].todo = @ \ {g}, ![t].hide = MembersOf(t, g)]
              /\ \/ UNCHANGED registry
                 \/ Register(g, t, MembersOf(t, g))
      BY <1>8 DEF InstallGroup
    <2>2. g \in Groups /\ g \in Names
      BY <1>8, <2>1 DEF InstallGroup, TodoOK, Names
    <2>3. MembersOf(t, g) \subseteq Tools
      BY <2>2, MembersType
    <2>6. request[t].todo \ {g} \in SUBSET Names
      BY DEF TypeOK, Requests
    <2>4. request' \in [Threads -> Requests]
      BY <2>1, <2>3, <2>6, FieldTypes DEF TypeOK
    <2>5. registry' \in Registries
      BY <2>1, <2>2, <2>3, RegisterType DEF TypeOK
    <2> QED
      BY <1>8, <2>4, <2>5 DEF InstallGroup, TypeOK
  <1>9. CASE HideMember(t)
    <2>1. PICK n \in request[t].hide :
              SetHidden(n) /\ request' = [request EXCEPT ![t].hide = @ \ {n}]
      BY <1>9 DEF HideMember
    <2>2. n \in Tools /\ request[t].hide \ {n} \in SUBSET Tools
      BY <2>1 DEF TypeOK, Requests
    <2>4. request' \in [Threads -> Requests]
      BY <2>1, <2>2, FieldTypes DEF TypeOK
    <2>3. hidden' \subseteq Tools \X Authors
      BY <2>1, <2>2, HideType
    <2> QED
      BY <1>9, <2>3, <2>4 DEF HideMember, TypeOK
  <1> QED
    BY <1>1, <1>2, <1>3, <1>4, <1>5, <1>6, <1>7, <1>8, <1>9

LEMMA GatewayType ==
  ASSUME TypeOK, NEW t \in Threads,
         \/ \E r \in Routes : Arrive(t, r) \/ BuildRoute(t, r)
         \/ SwapAll(t) \/ ResolveRouteView(t) \/ BuildView(t) \/ SwapView(t)
         \/ List(t) \/ Fill(t) \/ Respond(t)
  PROVE  TypeOK'
  <1>0. request[t] \in Requests /\ request[t].route \in Routes /\ registry \in Views
    BY DEF TypeOK, Requests, Views
  <1>1. ASSUME NEW r \in Routes, Arrive(t, r) PROVE TypeOK'
    <2>1. \A s \in Steps : [Idle(r) EXCEPT !.pc = s] \in Requests
      BY IdleType, FieldTypes
    <2>2. request' \in [Threads -> Requests]
      BY <1>1, <2>1 DEF Arrive, TypeOK, Steps
    <2> QED
      BY <1>1, <2>2 DEF Arrive, TypeOK
  <1>2. ASSUME NEW r \in Routes, BuildRoute(t, r) PROVE TypeOK'
    <2>1. request' \in [Threads -> Requests]
      BY <1>0, <1>2, FieldTypes DEF BuildRoute, TypeOK
    <2> QED
      BY <1>2, <2>1 DEF BuildRoute, TypeOK
  <1>3. CASE SwapAll(t)
    <2>1. [Idle(request[t].route) EXCEPT !.pc = "resolve"] \in Requests
      BY <1>0, IdleType, FieldTypes DEF Steps
    <2>2. request[t].built \in [Routes -> Views]
      BY <1>0 DEF Requests
    <2> QED
      BY <1>3, <2>1, <2>2 DEF SwapAll, TypeOK
  <1>4. CASE ResolveRouteView(t)
    <2>1. views[request[t].route] \in Views
      BY <1>0 DEF TypeOK
    <2>2. request' \in [Threads -> Requests]
      BY <1>0, <1>4, <2>1, FieldTypes DEF ResolveRouteView, TypeOK, Steps
    <2> QED
      BY <1>4, <2>2 DEF ResolveRouteView, TypeOK
  <1>5. CASE BuildView(t)
    <2>1. request' \in [Threads -> Requests]
      BY <1>0, <1>5, FieldTypes DEF BuildView, TypeOK, Steps
    <2> QED
      BY <1>5, <2>1 DEF BuildView, TypeOK
  <1>6. CASE SwapView(t)
    <2>1. request[t].view \in Views
      BY <1>0 DEF Requests
    <2> QED
      BY <1>0, <1>6, <2>1, GotoType DEF SwapView, TypeOK, Steps
  <1>7. CASE List(t)
    <2>1. Listing(rules[request[t].route], request[t].view) \in SUBSET Names
      BY DEF Listing, Shown, EntriesOf, Present
    <2>2. request' \in [Threads -> Requests]
      BY <1>0, <1>7, <2>1, FieldTypes DEF List, TypeOK, Steps
    <2> QED
      BY <1>7, <2>2 DEF List, TypeOK
  <1>8. CASE Fill(t)
    <2>1. request[t].listing \in SUBSET Names
      BY <1>0 DEF Requests
    <2>2. cached' \in [Routes -> SUBSET SUBSET Names] /\ foreign' \subseteq Routes
      BY <1>0, <1>8, <2>1 DEF Fill, TypeOK, CacheKey
    <2> QED
      BY <1>8, <2>2, FinishType DEF Fill, TypeOK
  <1>9. CASE Respond(t)
    BY <1>9, FinishType DEF Respond, TypeOK
  <1> QED
    BY <1>1, <1>2, <1>3, <1>4, <1>5, <1>6, <1>7, <1>8, <1>9

\* An expiry and an invalidation write nothing but the cache of manifests.
LEMMA CacheStepType ==
  ASSUME TypeOK, Invalidate \/ \E r \in Routes : Expire(r)
  PROVE  /\ TypeOK'
         /\ UNCHANGED <<registry, hidden, rules, connected, discovered, views, request>>
         /\ \A r \in Routes : /\ cached'[r] \subseteq cached[r]
                              /\ cached'[r] # {} /\ r \notin foreign' => r \notin foreign
  <1>1. CASE Invalidate
    BY <1>1 DEF Invalidate, TypeOK
  <1>2. ASSUME NEW r \in Routes, Expire(r)
        PROVE  /\ TypeOK'
               /\ UNCHANGED <<registry, hidden, rules, connected, discovered, views, request>>
               /\ \A k \in Routes : /\ cached'[k] \subseteq cached[k]
                                    /\ cached'[k] # {} /\ k \notin foreign' => k \notin foreign
    BY <1>2 DEF Expire, TypeOK
  <1> QED
    BY <1>1, <1>2

-----------------------------------------------------------------------------
(* What a step makes of the request it belongs to.                           *)

Becomes(t, pc, route, todo, names, hide, built, view, listing) ==
  request' = [request EXCEPT ![t] =
      [pc |-> pc, route |-> route, todo |-> todo, names |-> names, hide |-> hide,
       built |-> built, view |-> view, listing |-> listing]]

\* Updated fields, spelt out as records.
LEMMA PcUpdate ==
  ASSUME NEW q \in Requests, NEW s
  PROVE  [q EXCEPT !.pc = s] =
                [pc |-> s, route |-> q.route, todo |-> q.todo, names |-> q.names,
                 hide |-> q.hide, built |-> q.built, view |-> q.view, listing |-> q.listing]
  BY DEF Requests

LEMMA TodoUpdate ==
  ASSUME NEW q \in Requests, NEW x
  PROVE  [q EXCEPT !.todo = x] =
                [pc |-> q.pc, route |-> q.route, todo |-> x, names |-> q.names,
                 hide |-> q.hide, built |-> q.built, view |-> q.view, listing |-> q.listing]
  BY DEF Requests

LEMMA HideUpdate ==
  ASSUME NEW q \in Requests, NEW x
  PROVE  [q EXCEPT !.hide = x] =
                [pc |-> q.pc, route |-> q.route, todo |-> q.todo, names |-> q.names,
                 hide |-> x, built |-> q.built, view |-> q.view, listing |-> q.listing]
  BY DEF Requests

LEMMA ViewUpdate ==
  ASSUME NEW q \in Requests, NEW x
  PROVE  [q EXCEPT !.view = x] =
                [pc |-> q.pc, route |-> q.route, todo |-> q.todo, names |-> q.names,
                 hide |-> q.hide, built |-> q.built, view |-> x, listing |-> q.listing]
  BY DEF Requests

LEMMA PcTodoUpdate ==
  ASSUME NEW q \in Requests, NEW s, NEW x
  PROVE  [q EXCEPT !.pc = s, !.todo = x] =
                [pc |-> s, route |-> q.route, todo |-> x, names |-> q.names,
                 hide |-> q.hide, built |-> q.built, view |-> q.view, listing |-> q.listing]
  <1>1. [q EXCEPT !.pc = s, !.todo = x] = [[q EXCEPT !.pc = s] EXCEPT !.todo = x]
    BY DEF Requests
  <1>2. [q EXCEPT !.pc = s] =
                [pc |-> s, route |-> q.route, todo |-> q.todo, names |-> q.names,
                 hide |-> q.hide, built |-> q.built, view |-> q.view, listing |-> q.listing]
    BY PcUpdate
  <1>3. [[q EXCEPT !.pc = s] EXCEPT !.todo = x] =
            [[pc |-> s, route |-> q.route, todo |-> q.todo, names |-> q.names,
                hide |-> q.hide, built |-> q.built, view |-> q.view, listing |-> q.listing] EXCEPT !.todo = x]
    BY <1>2
  <1> QED
    BY <1>1, <1>3

LEMMA PcListingUpdate ==
  ASSUME NEW q \in Requests, NEW s, NEW x
  PROVE  [q EXCEPT !.pc = s, !.listing = x] =
                [pc |-> s, route |-> q.route, todo |-> q.todo, names |-> q.names,
                 hide |-> q.hide, built |-> q.built, view |-> q.view, listing |-> x]
  <1>1. [q EXCEPT !.pc = s, !.listing = x] = [[q EXCEPT !.pc = s] EXCEPT !.listing = x]
    BY DEF Requests
  <1>2. [q EXCEPT !.pc = s] =
                [pc |-> s, route |-> q.route, todo |-> q.todo, names |-> q.names,
                 hide |-> q.hide, built |-> q.built, view |-> q.view, listing |-> q.listing]
    BY PcUpdate
  <1>3. [[q EXCEPT !.pc = s] EXCEPT !.listing = x] =
            [[pc |-> s, route |-> q.route, todo |-> q.todo, names |-> q.names,
                hide |-> q.hide, built |-> q.built, view |-> q.view, listing |-> q.listing] EXCEPT !.listing = x]
    BY <1>2
  <1> QED
    BY <1>1, <1>3

LEMMA ViewPcUpdate ==
  ASSUME NEW q \in Requests, NEW s, NEW x
  PROVE  [q EXCEPT !.view = x, !.pc = s] =
                [pc |-> s, route |-> q.route, todo |-> q.todo, names |-> q.names,
                 hide |-> q.hide, built |-> q.built, view |-> x, listing |-> q.listing]
  <1>1. [q EXCEPT !.view = x, !.pc = s] = [[q EXCEPT !.view = x] EXCEPT !.pc = s]
    BY DEF Requests
  <1>2. [q EXCEPT !.view = x] =
                [pc |-> q.pc, route |-> q.route, todo |-> q.todo, names |-> q.names,
                 hide |-> q.hide, built |-> q.built, view |-> x, listing |-> q.listing]
    BY ViewUpdate
  <1>3. [[q EXCEPT !.view = x] EXCEPT !.pc = s] =
            [[pc |-> q.pc, route |-> q.route, todo |-> q.todo, names |-> q.names,
                hide |-> q.hide, built |-> q.built, view |-> x, listing |-> q.listing] EXCEPT !.pc = s]
    BY <1>2
  <1> QED
    BY <1>1, <1>3

LEMMA TodoHideUpdate ==
  ASSUME NEW q \in Requests, NEW x, NEW y
  PROVE  [q EXCEPT !.todo = x, !.hide = y] =
                [pc |-> q.pc, route |-> q.route, todo |-> x, names |-> q.names,
                 hide |-> y, built |-> q.built, view |-> q.view, listing |-> q.listing]
  <1>1. [q EXCEPT !.todo = x, !.hide = y] = [[q EXCEPT !.todo = x] EXCEPT !.hide = y]
    BY DEF Requests
  <1>2. [q EXCEPT !.todo = x] =
                [pc |-> q.pc, route |-> q.route, todo |-> x, names |-> q.names,
                 hide |-> q.hide, built |-> q.built, view |-> q.view, listing |-> q.listing]
    BY TodoUpdate
  <1>3. [[q EXCEPT !.todo = x] EXCEPT !.hide = y] =
            [[pc |-> q.pc, route |-> q.route, todo |-> x, names |-> q.names,
                hide |-> q.hide, built |-> q.built, view |-> q.view, listing |-> q.listing] EXCEPT !.hide = y]
    BY <1>2
  <1> QED
    BY <1>1, <1>3

LEMMA PcTodoNamesUpdate ==
  ASSUME NEW q \in Requests, NEW s, NEW x, NEW y
  PROVE  [q EXCEPT !.pc = s, !.todo = x, !.names = y] =
                [pc |-> s, route |-> q.route, todo |-> x, names |-> y,
                 hide |-> q.hide, built |-> q.built, view |-> q.view, listing |-> q.listing]
  <1>1. [q EXCEPT !.pc = s, !.todo = x, !.names = y] =
            [[q EXCEPT !.pc = s, !.todo = x] EXCEPT !.names = y]
    BY DEF Requests
  <1>2. [q EXCEPT !.pc = s, !.todo = x] =
                [pc |-> s, route |-> q.route, todo |-> x, names |-> q.names,
                 hide |-> q.hide, built |-> q.built, view |-> q.view, listing |-> q.listing]
    BY PcTodoUpdate
  <1>3. [[q EXCEPT !.pc = s, !.todo = x] EXCEPT !.names = y] =
            [[pc |-> s, route |-> q.route, todo |-> x, names |-> q.names,
              hide |-> q.hide, built |-> q.built, view |-> q.view,
              listing |-> q.listing] EXCEPT !.names = y]
    BY <1>2
  <1> QED
    BY <1>1, <1>3

LEMMA BuiltUpdate ==
  ASSUME NEW q \in Requests, NEW r \in Routes, NEW x
  PROVE  [q EXCEPT !.built[r] = x] =
                [pc |-> q.pc, route |-> q.route, todo |-> q.todo, names |-> q.names,
                 hide |-> q.hide, built |-> [q.built EXCEPT ![r] = x], view |-> q.view, listing |-> q.listing]
  BY DEF Requests

LEMMA GotoIs ==
  ASSUME TypeOK, NEW t \in Threads, NEW s, Goto(t, s)
  PROVE  Becomes(t, s, request[t].route, request[t].todo, request[t].names, request[t].hide,
                 request[t].built, request[t].view, request[t].listing)
  BY PcUpdate DEF TypeOK, Goto, Becomes

LEMMA FinishIs ==
  ASSUME NEW t \in Threads, Finish(t)
  PROVE  Becomes(t, "idle", AnyRoute, {}, {}, {}, NothingBuilt, Unbuilt, {})
  BY DEF Finish, Becomes, Idle

LEMMA StartIs ==
  ASSUME NEW t \in Threads, NEW r \in Routes, NEW s,
         request' = [request EXCEPT ![t] = [Idle(r) EXCEPT !.pc = s]]
  PROVE  Becomes(t, s, r, {}, {}, {}, NothingBuilt, Unbuilt, {})
  <1>1. [Idle(r) EXCEPT !.pc = s] =
            [pc |-> s, route |-> r, todo |-> {}, names |-> {}, hide |-> {},
             built |-> NothingBuilt, view |-> Unbuilt, listing |-> {}]
    BY DEF Idle
  <1> QED
    BY <1>1 DEF Becomes

LEMMA CollectIs ==
  ASSUME TypeOK, NEW t \in Threads, Collect(t)
  PROVE  Becomes(t, "register", request[t].route, Discovered, request[t].names, request[t].hide,
                 request[t].built, request[t].view, request[t].listing)
  <1>1. request[t] \in Requests
    BY DEF TypeOK
  <1>2. [request[t] EXCEPT !.pc = "register", !.todo = Discovered] =
            [pc |-> "register", route |-> request[t].route, todo |-> Discovered, names |-> request[t].names,
             hide |-> request[t].hide, built |-> request[t].built, view |-> request[t].view, listing |-> request[t].listing]
    BY <1>1, PcTodoUpdate
  <1> QED
    BY <1>2 DEF Collect, Becomes

LEMMA RegisterToolIs ==
  ASSUME TypeOK, NEW t \in Threads, RegisterTool(t)
  PROVE  \E n \in request[t].todo :
             /\ Register(n, t, {})
             /\ Becomes(t, request[t].pc, request[t].route, request[t].todo \ {n}, request[t].names, request[t].hide,
                        request[t].built, request[t].view, request[t].listing)
  <1>1. request[t] \in Requests
    BY DEF TypeOK
  <1>2. PICK n \in request[t].todo :
            /\ Register(n, t, {})
            /\ request' = [request EXCEPT ![t] = [request[t] EXCEPT !.todo = request[t].todo \ {n}]]
    BY DEF RegisterTool
  <1>3. [request[t] EXCEPT !.todo = request[t].todo \ {n}] =
            [pc |-> request[t].pc, route |-> request[t].route, todo |-> request[t].todo \ {n}, names |-> request[t].names,
             hide |-> request[t].hide, built |-> request[t].built, view |-> request[t].view, listing |-> request[t].listing]
    BY <1>1, TodoUpdate
  <1> QED
    BY <1>2, <1>3 DEF Becomes

LEMMA LoadMiddlewareIs ==
  ASSUME TypeOK, NEW t \in Threads, LoadMiddleware(t)
  PROVE  Becomes(t, "install", request[t].route, Groups, Present(registry), request[t].hide,
                 request[t].built, request[t].view, request[t].listing)
  <1>1. request[t] \in Requests
    BY DEF TypeOK
  <1>2. [request[t] EXCEPT !.pc = "install", !.todo = Groups, !.names = Present(registry)] =
            [pc |-> "install", route |-> request[t].route, todo |-> Groups, names |-> Present(registry),
             hide |-> request[t].hide, built |-> request[t].built, view |-> request[t].view, listing |-> request[t].listing]
    BY <1>1, PcTodoNamesUpdate
  <1> QED
    BY <1>2 DEF LoadMiddleware, Becomes

LEMMA InstallGroupIs ==
  ASSUME TypeOK, NEW t \in Threads, InstallGroup(t)
  PROVE  \E g \in request[t].todo :
             /\ \/ MembersOf(t, g) = {} /\ UNCHANGED registry
                \/ MembersOf(t, g) # {} /\ Register(g, t, MembersOf(t, g))
             /\ Becomes(t, request[t].pc, request[t].route, request[t].todo \ {g}, request[t].names, MembersOf(t, g),
                        request[t].built, request[t].view, request[t].listing)
  <1>1. request[t] \in Requests
    BY DEF TypeOK
  <1>2. PICK g \in request[t].todo :
            /\ \/ MembersOf(t, g) = {} /\ UNCHANGED registry
               \/ MembersOf(t, g) # {} /\ Register(g, t, MembersOf(t, g))
            /\ request' = [request EXCEPT ![t] = [request[t] EXCEPT !.todo = request[t].todo \ {g}, !.hide = MembersOf(t, g)]]
    BY DEF InstallGroup
  <1>3. [request[t] EXCEPT !.todo = request[t].todo \ {g}, !.hide = MembersOf(t, g)] =
            [pc |-> request[t].pc, route |-> request[t].route, todo |-> request[t].todo \ {g}, names |-> request[t].names,
             hide |-> MembersOf(t, g), built |-> request[t].built, view |-> request[t].view, listing |-> request[t].listing]
    BY <1>1, TodoHideUpdate
  <1> QED
    BY <1>2, <1>3 DEF Becomes

LEMMA HideMemberIs ==
  ASSUME TypeOK, NEW t \in Threads, HideMember(t)
  PROVE  \E n \in request[t].hide :
             /\ SetHidden(n)
             /\ Becomes(t, request[t].pc, request[t].route, request[t].todo, request[t].names, request[t].hide \ {n},
                        request[t].built, request[t].view, request[t].listing)
  <1>1. request[t] \in Requests
    BY DEF TypeOK
  <1>2. PICK n \in request[t].hide :
            /\ SetHidden(n)
            /\ request' = [request EXCEPT ![t] = [request[t] EXCEPT !.hide = request[t].hide \ {n}]]
    BY DEF HideMember
  <1>3. [request[t] EXCEPT !.hide = request[t].hide \ {n}] =
            [pc |-> request[t].pc, route |-> request[t].route, todo |-> request[t].todo, names |-> request[t].names,
             hide |-> request[t].hide \ {n}, built |-> request[t].built, view |-> request[t].view, listing |-> request[t].listing]
    BY <1>1, HideUpdate
  <1> QED
    BY <1>2, <1>3 DEF Becomes

LEMMA BuildRouteIs ==
  ASSUME TypeOK, NEW t \in Threads, NEW r \in Routes, BuildRoute(t, r)
  PROVE  Becomes(t, request[t].pc, request[t].route, request[t].todo, request[t].names, request[t].hide,
                 [request[t].built EXCEPT ![r] = registry], request[t].view, request[t].listing)
  <1>1. request[t] \in Requests
    BY DEF TypeOK
  <1>2. [request[t] EXCEPT !.built[r] = registry] =
            [pc |-> request[t].pc, route |-> request[t].route, todo |-> request[t].todo, names |-> request[t].names,
             hide |-> request[t].hide, built |-> [request[t].built EXCEPT ![r] = registry], view |-> request[t].view, listing |-> request[t].listing]
    BY <1>1, BuiltUpdate
  <1> QED
    BY <1>2 DEF BuildRoute, Becomes

LEMMA ResolveIs ==
  ASSUME TypeOK, NEW t \in Threads, ResolveRouteView(t)
  PROVE  Becomes(t, IF views[request[t].route] = Unbuilt THEN "build" ELSE "serve", request[t].route, request[t].todo, request[t].names, request[t].hide,
                 request[t].built, views[request[t].route], request[t].listing)
  <1>1. request[t] \in Requests
    BY DEF TypeOK
  <1>2. [request[t] EXCEPT !.view = views[request[t].route], !.pc = IF views[request[t].route] = Unbuilt THEN "build" ELSE "serve"] =
            [pc |-> IF views[request[t].route] = Unbuilt THEN "build" ELSE "serve", route |-> request[t].route, todo |-> request[t].todo, names |-> request[t].names,
             hide |-> request[t].hide, built |-> request[t].built, view |-> views[request[t].route], listing |-> request[t].listing]
    BY <1>1, ViewPcUpdate
  <1> QED
    BY <1>2 DEF ResolveRouteView, Becomes

LEMMA BuildViewIs ==
  ASSUME TypeOK, NEW t \in Threads, BuildView(t)
  PROVE  Becomes(t, "swap", request[t].route, request[t].todo, request[t].names, request[t].hide,
                 request[t].built, registry, request[t].listing)
  <1>1. request[t] \in Requests
    BY DEF TypeOK
  <1>2. [request[t] EXCEPT !.view = registry, !.pc = "swap"] =
            [pc |-> "swap", route |-> request[t].route, todo |-> request[t].todo, names |-> request[t].names,
             hide |-> request[t].hide, built |-> request[t].built, view |-> registry, listing |-> request[t].listing]
    BY <1>1, ViewPcUpdate
  <1> QED
    BY <1>2 DEF BuildView, Becomes

LEMMA ListIs ==
  ASSUME TypeOK, NEW t \in Threads, List(t)
  PROVE  Becomes(t, "fill", request[t].route, request[t].todo, request[t].names, request[t].hide,
                 request[t].built, request[t].view, Listing(rules[request[t].route], request[t].view))
  <1>1. request[t] \in Requests
    BY DEF TypeOK
  <1>2. [request[t] EXCEPT !.pc = "fill", !.listing = Listing(rules[request[t].route], request[t].view)] =
            [pc |-> "fill", route |-> request[t].route, todo |-> request[t].todo, names |-> request[t].names,
             hide |-> request[t].hide, built |-> request[t].built, view |-> request[t].view, listing |-> Listing(rules[request[t].route], request[t].view)]
    BY <1>1, PcListingUpdate
  <1> QED
    BY <1>2 DEF List, Becomes

\* A step of one request touches no other.
LEMMA OthersUntouched ==
  ASSUME TypeOK, NEW u \in Threads, NEW t \in Threads, u # t,
         Progress(u) \/ \E r \in Routes : Arrive(u, r)
  PROVE  request'[t] = request[t]
  <1> USE DEF Becomes, TypeOK
  <1>1. CASE Disconnect(u) \/ TestFlag(u) \/ SetFlag(u) \/ SwapView(u)
    BY <1>1 DEF Disconnect, TestFlag, SetFlag, SwapView, Goto
  <1>2. CASE Fail(u) \/ Fill(u) \/ Respond(u)
    BY <1>2 DEF Fail, Fill, Respond, Finish
  <1>3. CASE Collect(u) \/ LoadMiddleware(u)
    BY <1>3, CollectIs, LoadMiddlewareIs
  <1>4. CASE RegisterTool(u) \/ InstallGroup(u) \/ HideMember(u)
    BY <1>4, RegisterToolIs, InstallGroupIs, HideMemberIs
  <1>5. CASE ResolveRouteView(u) \/ BuildView(u) \/ List(u)
    BY <1>5, ResolveIs, BuildViewIs, ListIs
  <1>6. CASE SwapAll(u)
    BY <1>6 DEF SwapAll
  <1>7. ASSUME NEW r \in Routes, BuildRoute(u, r) PROVE request'[t] = request[t]
    BY <1>7, BuildRouteIs
  <1>8. ASSUME NEW r \in Routes, Arrive(u, r) PROVE request'[t] = request[t]
    BY <1>8 DEF Arrive
  <1> QED
    BY <1>1, <1>2, <1>3, <1>4, <1>5, <1>6, <1>7, <1>8 DEF Progress

-----------------------------------------------------------------------------
(* The inductive invariant: what each request knows, and what is shared.     *)

\* A snapshot is well formed, and the registry still has all its names.
Snapshot(base) ==
    /\ WellFormed(base)
    /\ \A n \in Names : base[n] # Absent => registry[n] # Absent

\* The tools that are no longer to be registered are there.
Registering(t) ==
    At(t, "register") => \A n \in Discovered \ request[t].todo : registry[n] # Absent

\* Groups are installed over all the tools, and those that bundle any are there when done.
Installing(t) ==
    At(t, "install") =>
        /\ request[t].names \cap Tools = KnownTools
        /\ \A n \in KnownTools : registry[n] # Absent
        /\ \A g \in Groups \ request[t].todo : Bundled(g) # {} => registry[g] # Absent

\* Only members of groups are hidden.
Hiding(t) == \A n \in request[t].hide : \E g \in Groups : n \in Bundled(g)

\* rebuild_all builds from a whole registry.
Building(t) ==
    \A r \in Routes, v \in Registries :
        request[t].built[r] = v => Snapshot(v) /\ Whole(v)

Viewing(t) == \A v \in Registries : request[t].view = v => Snapshot(v)

\* A request that serves has a view, and its route is mounted.
Mounting(t) ==
    /\ request[t].pc \in {"swap", "serve", "fill"} => request[t].view # Unbuilt
    /\ Serving(t) => views[request[t].route] # Unbuilt

\* A manifest on its way to the cache shows nothing that is denied by name.
Filling(t) ==
    At(t, "fill") =>
        request[t].listing \cap (DeniedByName(rules[request[t].route]) \ Groups) = {}

Doing(t) ==
    /\ Registering(t) /\ Installing(t) /\ Hiding(t) /\ Building(t)
    /\ Viewing(t) /\ Mounting(t) /\ Filling(t)

HiddenOK == \A n \in Tools, a \in Authors : <<n, a>> \in hidden => \E g \in Groups : n \in Bundled(g)

MountedOK == \A r \in Routes, v \in Registries : views[r] = v => Snapshot(v)

CacheOK ==
    \A r \in Routes :
        /\ cached[r] # {} /\ r \notin foreign => views[r] # Unbuilt
        /\ \A manifest \in cached[r] : manifest \cap (DeniedByName(rules[r]) \ Groups) = {}

IInv ==
    /\ Typed /\ WellFormed(registry) /\ HiddenOK /\ MountedOK /\ CacheOK
    /\ \A t \in Threads : Doing(t)

Grows == \A n \in Names : registry[n] # Absent => registry'[n] # Absent

Stays == \A r \in Routes : views[r] # Unbuilt => views'[r] # Unbuilt

LEMMA SnapshotStays ==
  ASSUME NEW v, Snapshot(v), Grows
  PROVE  Snapshot(v)'
  BY DEF Snapshot, Grows

\* What one request has is not disturbed by the steps of another.
LEMMA OthersGoOn ==
  ASSUME TypeOK, NEW u \in Threads, Doing(u), request'[u] = request[u], rules' = rules,
         Grows, Stays
  PROVE  Doing(u)'
  <1>1. Registering(u)' /\ Installing(u)'
    <2>1. Discovered \subseteq Names /\ KnownTools \subseteq Names /\ Groups \subseteq Names
      BY RegistryAssumption DEF KnownTools, Names
    <2> QED
      BY <2>1 DEF Doing, Registering, Installing, At, Grows
  <1>2. Hiding(u)' /\ Filling(u)'
    BY DEF Doing, Hiding, Filling, At
  <1>3. Building(u)' /\ Viewing(u)'
    BY SnapshotStays DEF Doing, Building, Viewing
  <1>4. Mounting(u)'
    BY DEF Doing, Mounting, Serving, Stays, TypeOK, Requests
  <1> QED
    BY <1>1, <1>2, <1>3, <1>4 DEF Doing

\* A request that begins, or ends, has nothing.
LEMMA ResetIsDoing ==
  ASSUME NEW t \in Threads, NEW r \in Routes, NEW s \in {"idle", "disconnect", "resolve"}, TypeOK,
         Becomes(t, s, r, {}, {}, {}, NothingBuilt, Unbuilt, {})
  PROVE  Doing(t)'
  <1>1. request'[t] = [pc |-> s, route |-> r, todo |-> {}, names |-> {}, hide |-> {},
                       built |-> NothingBuilt, view |-> Unbuilt, listing |-> {}]
    BY DEF Becomes, TypeOK
  <1>2. /\ request'[t].pc = s /\ request'[t].hide = {}
        /\ request'[t].view = Unbuilt /\ \A k \in Routes : request'[t].built[k] = Unbuilt
    BY <1>1 DEF NothingBuilt
  <1>3. Registering(t)' /\ Installing(t)' /\ Mounting(t)' /\ Filling(t)' /\ Hiding(t)'
    BY <1>2 DEF Registering, Installing, Mounting, Filling, Hiding, At, Serving
  <1>4. Building(t)' /\ Viewing(t)'
    BY <1>2, UnbuiltIsApart DEF Building, Viewing
  <1> QED
    BY <1>3, <1>4 DEF Doing

\* What a request keeps from one step to the next.
LEMMA CarriedOn ==
  ASSUME NEW t \in Threads, Doing(t), Grows
  PROVE  /\ request'[t].hide \subseteq request[t].hide => Hiding(t)'
         /\ request'[t].built = request[t].built => Building(t)'
         /\ request'[t].view = request[t].view => Viewing(t)'
  BY SnapshotStays DEF Doing, Hiding, Building, Viewing

\* What a step leaves of the shared state.
Shared ==
    /\ rules' = rules /\ Grows /\ Stays
    /\ WellFormed(registry)' /\ HiddenOK' /\ MountedOK' /\ CacheOK'

LEMMA MountedStays ==
  ASSUME MountedOK, Grows, views' = views
  PROVE  MountedOK' /\ Stays
  BY SnapshotStays DEF MountedOK, Stays

LEMMA QuietShares ==
  ASSUME IInv, UNCHANGED <<registry, hidden, rules, views, cached, foreign>>
  PROVE  Shared
  <1>1. Grows
    BY DEF Grows
  <1>2. WellFormed(registry)' /\ HiddenOK' /\ CacheOK'
    BY DEF IInv, WellFormed, HiddenOK, CacheOK, Present
  <1> QED
    BY <1>1, <1>2, MountedStays DEF IInv, Shared

LEMMA StepKeeps ==
  ASSUME IInv, NEW t \in Threads, TypeOK', Shared, Doing(t)',
         \A u \in Threads : u # t => request'[u] = request[u],
         request'[t].pc = "register" => request'[t].todo \subseteq Discovered,
         request'[t].pc = "install" => request'[t].todo \subseteq Groups
  PROVE  IInv'
  <1>1. TodoOK'
    BY DEF IInv, Typed, TodoOK, At
  <1>2. ASSUME NEW u \in Threads PROVE Doing(u)'
    <2>1. CASE u = t
      BY <2>1
    <2>2. CASE u # t
      BY <2>2, OthersGoOn DEF IInv, Typed, Shared
    <2> QED
      BY <2>1, <2>2
  <1> QED
    BY <1>1, <1>2 DEF IInv, Typed, Shared

\* Steps that only move on.
LEMMA GotoKeeps ==
  ASSUME IInv, NEW t \in Threads, NEW s \in {"flag", "claim", "collect", "resolve"}, Goto(t, s),
         TypeOK', UNCHANGED <<registry, hidden, rules, views, cached, foreign>>
  PROVE  IInv'
  <1>1. TypeOK /\ Doing(t)
    BY DEF IInv, Typed
  <1>2. Shared
    BY QuietShares
  <1>3. /\ \A u \in Threads : u # t => request'[u] = request[u]
        /\ request'[t].pc = s /\ request'[t].hide = request[t].hide
        /\ request'[t].built = request[t].built /\ request'[t].view = request[t].view
    BY <1>1, GotoIs DEF Becomes, TypeOK
  <1>4. Registering(t)' /\ Installing(t)' /\ Mounting(t)' /\ Filling(t)'
    BY <1>3 DEF Registering, Installing, Mounting, Filling, At, Serving
  <1>5. Doing(t)'
    BY <1>1, <1>2, <1>3, <1>4, CarriedOn DEF Doing, Shared
  <1> QED
    BY <1>2, <1>3, <1>5, StepKeeps

LEMMA ResetKeeps ==
  ASSUME IInv, NEW t \in Threads, NEW r \in Routes, NEW s \in {"idle", "disconnect", "resolve"},
         Becomes(t, s, r, {}, {}, {}, NothingBuilt, Unbuilt, {}), TypeOK', Shared
  PROVE  IInv'
  <1>1. TypeOK
    BY DEF IInv, Typed
  <1>2. Doing(t)'
    BY <1>1, ResetIsDoing
  <1>3. /\ \A u \in Threads : u # t => request'[u] = request[u]
        /\ request'[t].pc = s
    BY <1>1 DEF Becomes, TypeOK
  <1> QED
    BY <1>2, <1>3, StepKeeps

LEMMA CollectKeeps ==
  ASSUME IInv, NEW t \in Threads, Collect(t), TypeOK'
  PROVE  IInv'
  <1>1. TypeOK /\ Doing(t)
    BY DEF IInv, Typed
  <1>2. Shared
    BY QuietShares DEF Collect
  <1>3. /\ \A u \in Threads : u # t => request'[u] = request[u]
        /\ request'[t].pc = "register" /\ request'[t].todo = Discovered
        /\ request'[t].hide = request[t].hide
        /\ request'[t].built = request[t].built /\ request'[t].view = request[t].view
    BY <1>1, CollectIs DEF Becomes, TypeOK
  <1>4. Registering(t)' /\ Installing(t)' /\ Mounting(t)' /\ Filling(t)'
    BY <1>3 DEF Registering, Installing, Mounting, Filling, At, Serving
  <1>5. Doing(t)'
    BY <1>1, <1>2, <1>3, <1>4, CarriedOn DEF Doing, Shared
  <1> QED
    BY <1>2, <1>3, <1>5, StepKeeps

-----------------------------------------------------------------------------
(* Registration, which makes the registry grow.                              *)

LEMMA RegisterIs ==
  ASSUME TypeOK, NEW n \in Names, NEW t \in Threads, NEW m \in SUBSET Tools, Register(n, t, m)
  PROVE  /\ Grows
         /\ registry'[n] # Absent /\ registry'[n].members = m
         /\ \A k \in Names : k # n => registry'[k] = registry[k]
  <1>1. [by |-> t, members |-> m] \in ToolEntries
    BY DEF ToolEntries, Authors
  <1>2. /\ registry'[n] = [by |-> t, members |-> m]
        /\ \A k \in Names : k # n => registry'[k] = registry[k]
    BY DEF TypeOK, Registries, Register
  <1> QED
    BY <1>1, <1>2, AbsentAssumption DEF Grows

LEMMA ToolsAreNames == KnownTools \subseteq Tools /\ Tools \subseteq Names /\ Groups \subseteq Names
  BY RegistryAssumption DEF KnownTools, Names

LEMMA RegisteredToolFits ==
  ASSUME TypeOK, WellFormed(registry), NEW n \in Discovered, NEW t \in Threads, Register(n, t, {}),
         registry' \in Registries
  PROVE  WellFormed(registry)'
  <1>1. n \in KnownTools /\ n \in Tools /\ n \in Names /\ n \notin Groups
    BY RegistryAssumption, ToolsAreNames, NamesAssumption DEF KnownTools
  <1>2. /\ Grows /\ registry'[n].members = {}
        /\ \A k \in Names : k # n => registry'[k] = registry[k]
    BY <1>1, RegisterIs
  <1>3. Present(registry) \subseteq Present(registry') /\ Present(registry') \subseteq Present(registry) \cup {n}
    BY <1>2 DEF Grows, Present
  <1> QED
    BY <1>1, <1>2, <1>3, ToolsAreNames DEF WellFormed

LEMMA InstalledGroupFits ==
  ASSUME TypeOK, WellFormed(registry), NEW g \in Groups, NEW t \in Threads, Register(g, t, Bundled(g)),
         Bundled(g) # {}, \A n \in KnownTools : registry[n] # Absent, registry' \in Registries
  PROVE  WellFormed(registry)'
  <1>1. g \in Names /\ g \notin Tools /\ Bundled(g) \in SUBSET Tools
    BY RegistryAssumption, ToolsAreNames, NamesAssumption DEF Bundled
  <1>2. /\ Grows /\ registry'[g].members = Bundled(g)
        /\ \A k \in Names : k # g => registry'[k] = registry[k]
    BY <1>1, RegisterIs
  <1>3. /\ Present(registry) \subseteq Present(registry')
        /\ Present(registry') \subseteq Present(registry) \cup {g}
        /\ KnownTools \subseteq Present(registry')
    BY <1>2, ToolsAreNames DEF Grows, Present
  <1> QED
    BY <1>1, <1>2, <1>3, ToolsAreNames DEF WellFormed

\* A registration leaves the rest of the shared state alone.
LEMMA RegistrationShares ==
  ASSUME IInv, Grows, WellFormed(registry)', UNCHANGED <<hidden, rules, views, cached, foreign>>
  PROVE  Shared
  <1>1. HiddenOK' /\ CacheOK'
    BY DEF IInv, HiddenOK, CacheOK
  <1> QED
    BY <1>1, MountedStays DEF IInv, Shared

LEMMA RegisterToolKeeps ==
  ASSUME IInv, NEW t \in Threads, RegisterTool(t), TypeOK'
  PROVE  IInv'
  <1>1. TypeOK /\ Doing(t) /\ WellFormed(registry) /\ TodoOK
    BY DEF IInv, Typed
  <1>2. PICK n \in request[t].todo :
            /\ Register(n, t, {})
            /\ Becomes(t, request[t].pc, request[t].route, request[t].todo \ {n},
                       request[t].names, request[t].hide, request[t].built,
                       request[t].view, request[t].listing)
    BY <1>1, RegisterToolIs
  <1>3. n \in Discovered /\ n \in Names /\ request[t].pc = "register"
    BY <1>1, RegistryAssumption, ToolsAreNames DEF RegisterTool, TodoOK, At
  <1>4. Grows /\ registry'[n] # Absent
    BY <1>1, <1>2, <1>3, RegisterIs
  <1>5. WellFormed(registry)'
    BY <1>1, <1>2, <1>3, RegisteredToolFits DEF TypeOK
  <1>6. Shared
    BY <1>4, <1>5, RegistrationShares DEF RegisterTool
  <1>7. /\ \A u \in Threads : u # t => request'[u] = request[u]
        /\ request'[t].pc = "register" /\ request'[t].todo = request[t].todo \ {n}
        /\ request'[t].hide = request[t].hide
        /\ request'[t].built = request[t].built /\ request'[t].view = request[t].view
    BY <1>1, <1>2, <1>3 DEF Becomes, TypeOK
  <1>8. Registering(t)'
    <2>1. \A k \in Discovered \ request[t].todo : registry[k] # Absent /\ k \in Names
      BY <1>1, <1>3, RegistryAssumption, ToolsAreNames DEF Doing, Registering, At
    <2> QED
      BY <1>4, <1>7, <2>1 DEF Registering, Grows
  <1>9. Installing(t)' /\ Mounting(t)' /\ Filling(t)'
    BY <1>7 DEF Installing, Mounting, Filling, At, Serving
  <1>10. Doing(t)'
    BY <1>1, <1>4, <1>7, <1>8, <1>9, CarriedOn DEF Doing
  <1>11. request'[t].todo \subseteq Discovered
    BY <1>1, <1>3, <1>7 DEF TodoOK, At
  <1> QED
    BY <1>6, <1>7, <1>10, <1>11, StepKeeps

LEMMA LoadMiddlewareKeeps ==
  ASSUME IInv, NEW t \in Threads, LoadMiddleware(t), TypeOK'
  PROVE  IInv'
  <1>1. TypeOK /\ Doing(t) /\ WellFormed(registry)
    BY DEF IInv, Typed
  <1>2. Shared
    BY QuietShares DEF LoadMiddleware
  <1>3. /\ \A u \in Threads : u # t => request'[u] = request[u]
        /\ request'[t].pc = "install" /\ request'[t].todo = Groups
        /\ request'[t].names = Present(registry) /\ request'[t].hide = request[t].hide
        /\ request'[t].built = request[t].built /\ request'[t].view = request[t].view
    BY <1>1, LoadMiddlewareIs DEF Becomes, TypeOK
  <1>4. \A n \in KnownTools : registry[n] # Absent
    <2>1. \A n \in Discovered : registry[n] # Absent
      BY <1>1 DEF LoadMiddleware, Doing, Registering, At
    <2>2. \A n \in Manual : registry[n] # Absent
      BY <1>1 DEF WellFormed, Present
    <2> QED
      BY <2>1, <2>2 DEF KnownTools
  <1>5. Present(registry) \cap Tools = KnownTools
    BY <1>1, <1>4, ToolsAreNames DEF WellFormed, Present
  <1>6. Installing(t)'
    <2>1. registry' = registry
      BY DEF LoadMiddleware
    <2> QED
      BY <1>3, <1>4, <1>5, <2>1 DEF Installing
  <1>7. Registering(t)' /\ Mounting(t)' /\ Filling(t)'
    BY <1>3 DEF Registering, Mounting, Filling, At, Serving
  <1>8. Doing(t)'
    BY <1>1, <1>2, <1>3, <1>6, <1>7, CarriedOn DEF Doing, Shared
  <1> QED
    BY <1>2, <1>3, <1>8, StepKeeps

LEMMA InstallGroupKeeps ==
  ASSUME IInv, NEW t \in Threads, InstallGroup(t), TypeOK'
  PROVE  IInv'
  <1>1. TypeOK /\ Doing(t) /\ WellFormed(registry) /\ TodoOK /\ request[t].pc = "install"
    BY DEF IInv, Typed, InstallGroup, At
  <1>2. PICK g \in request[t].todo :
            /\ \/ MembersOf(t, g) = {} /\ UNCHANGED registry
               \/ MembersOf(t, g) # {} /\ Register(g, t, MembersOf(t, g))
            /\ Becomes(t, request[t].pc, request[t].route, request[t].todo \ {g},
                       request[t].names, MembersOf(t, g), request[t].built,
                       request[t].view, request[t].listing)
    BY <1>1, InstallGroupIs
  <1>3. g \in Groups /\ g \in Names /\ request[t].todo \subseteq Groups
    BY <1>1, ToolsAreNames DEF TodoOK, At
  <1>4. /\ request[t].names \cap Tools = KnownTools
        /\ \A n \in KnownTools : registry[n] # Absent
        /\ \A k \in Groups \ request[t].todo : Bundled(k) # {} => registry[k] # Absent
    BY <1>1 DEF Doing, Installing, At
  <1>5. MembersOf(t, g) = Bundled(g) /\ Bundled(g) \in SUBSET Tools
    BY <1>3, <1>4, RegistryAssumption DEF MembersOf, Bundled
  <1>6. Grows /\ WellFormed(registry)' /\ (Bundled(g) # {} => registry'[g] # Absent)
    <2>1. CASE MembersOf(t, g) = {} /\ UNCHANGED registry
      BY <1>1, <1>5, <2>1 DEF Grows, WellFormed, Present
    <2>2. CASE MembersOf(t, g) # {} /\ Register(g, t, MembersOf(t, g))
      <3>1. Register(g, t, Bundled(g)) /\ Bundled(g) # {}
        BY <1>5, <2>2
      <3>2. WellFormed(registry)'
        BY <1>1, <1>3, <1>4, <3>1, InstalledGroupFits DEF TypeOK
      <3> QED
        BY <1>1, <1>3, <1>5, <3>1, <3>2, RegisterIs
    <2> QED
      BY <1>2, <2>1, <2>2
  <1>7. Shared
    BY <1>6, RegistrationShares DEF InstallGroup
  <1>8. /\ \A u \in Threads : u # t => request'[u] = request[u]
        /\ request'[t].pc = "install" /\ request'[t].todo = request[t].todo \ {g}
        /\ request'[t].names = request[t].names /\ request'[t].hide = Bundled(g)
        /\ request'[t].built = request[t].built /\ request'[t].view = request[t].view
    BY <1>1, <1>2, <1>5 DEF Becomes, TypeOK
  <1>9. Installing(t)'
    <2>1. \A n \in KnownTools : registry'[n] # Absent
      BY <1>4, <1>6, ToolsAreNames DEF Grows
    <2>2. \A k \in Groups \ request'[t].todo : Bundled(k) # {} => registry'[k] # Absent
      BY <1>4, <1>6, <1>8, ToolsAreNames DEF Grows
    <2> QED
      BY <1>4, <1>8, <2>1, <2>2 DEF Installing
  <1>10. Hiding(t)'
    BY <1>3, <1>8 DEF Hiding
  <1>11. Registering(t)' /\ Mounting(t)' /\ Filling(t)'
    BY <1>8 DEF Registering, Mounting, Filling, At, Serving
  <1>12. Doing(t)'
    BY <1>1, <1>6, <1>8, <1>9, <1>10, <1>11, CarriedOn DEF Doing
  <1> QED
    BY <1>3, <1>7, <1>8, <1>12, StepKeeps

LEMMA HideMemberKeeps ==
  ASSUME IInv, NEW t \in Threads, HideMember(t), TypeOK'
  PROVE  IInv'
  <1>1. TypeOK /\ Doing(t) /\ TodoOK /\ request[t].pc = "install" /\ registry' = registry
    BY DEF IInv, Typed, HideMember, At
  <1>2. PICK n \in request[t].hide :
            /\ SetHidden(n)
            /\ Becomes(t, request[t].pc, request[t].route, request[t].todo,
                       request[t].names, request[t].hide \ {n}, request[t].built,
                       request[t].view, request[t].listing)
    BY <1>1, HideMemberIs
  <1>3. HiddenOK'
    <2>1. \A k, a : <<k, a>> \in hidden' => <<k, a>> \in hidden \/ k = n
      BY <1>2 DEF SetHidden
    <2>2. \E g \in Groups : n \in Bundled(g)
      BY <1>1 DEF Doing, Hiding
    <2> QED
      BY <2>1, <2>2 DEF IInv, HiddenOK
  <1>4. Shared
    <2>1. Grows /\ WellFormed(registry)' /\ CacheOK'
      BY <1>1 DEF IInv, HideMember, Grows, WellFormed, Present, CacheOK
    <2> QED
      BY <1>3, <2>1, MountedStays DEF IInv, HideMember, Shared
  <1>5. /\ \A u \in Threads : u # t => request'[u] = request[u]
        /\ request'[t].pc = "install" /\ request'[t].todo = request[t].todo
        /\ request'[t].names = request[t].names /\ request'[t].hide = request[t].hide \ {n}
        /\ request'[t].built = request[t].built /\ request'[t].view = request[t].view
    BY <1>1, <1>2 DEF Becomes, TypeOK
  <1>6. Installing(t)'
    BY <1>1, <1>5 DEF Doing, Installing, At
  <1>7. Registering(t)' /\ Mounting(t)' /\ Filling(t)'
    BY <1>5 DEF Registering, Mounting, Filling, At, Serving
  <1>8. Doing(t)'
    BY <1>1, <1>4, <1>5, <1>6, <1>7, CarriedOn DEF Doing, Shared
  <1> QED
    BY <1>1, <1>4, <1>5, <1>8, StepKeeps DEF TodoOK, At

-----------------------------------------------------------------------------
(* Views: built, mounted, used.                                              *)

\* When a request has installed its groups, the registry is whole.
LEMMA InstalledIsWhole ==
  ASSUME IInv, NEW t \in Threads, Installed(t)
  PROVE  Whole(registry)
  <1>1. /\ \A n \in KnownTools : registry[n] # Absent
        /\ \A g \in Groups : Bundled(g) # {} => registry[g] # Absent
    BY DEF IInv, Doing, Installing, Installed, At
  <1>2. KnownTools \subseteq Present(registry)
    BY <1>1, ToolsAreNames DEF Present
  <1>3. \A g \in Groups : Bundled(g) # {} => registry[g].members = Bundled(g)
    BY <1>1, ToolsAreNames DEF IInv, WellFormed, Present
  <1>4. registry # Unbuilt
    BY UnbuiltIsApart DEF IInv, Typed, TypeOK
  <1> QED
    BY <1>1, <1>2, <1>3, <1>4 DEF Whole, Bundled

LEMMA RegistryIsSnapshot == ASSUME IInv PROVE Snapshot(registry)
  BY DEF IInv, Snapshot

LEMMA BuildRouteKeeps ==
  ASSUME IInv, NEW t \in Threads, NEW r \in Routes, BuildRoute(t, r), TypeOK'
  PROVE  IInv'
  <1>1. TypeOK /\ Doing(t) /\ TodoOK /\ request[t].pc = "install" /\ registry' = registry
    BY DEF IInv, Typed, BuildRoute, Installed, At
  <1>2. Shared
    BY QuietShares DEF BuildRoute
  <1>3. /\ \A u \in Threads : u # t => request'[u] = request[u]
        /\ request'[t].pc = "install" /\ request'[t].todo = request[t].todo
        /\ request'[t].names = request[t].names /\ request'[t].hide = request[t].hide
        /\ request'[t].built = [request[t].built EXCEPT ![r] = registry]
        /\ request'[t].view = request[t].view
    BY <1>1, BuildRouteIs DEF Becomes, TypeOK
  <1>4. Building(t)'
    <2>1. Snapshot(registry) /\ Whole(registry)
      BY RegistryIsSnapshot, InstalledIsWhole DEF BuildRoute
    <2>2. request[t].built \in [Routes -> Views]
      BY <1>1 DEF TypeOK, Requests
    <2>3. ASSUME NEW k \in Routes, NEW v \in Registries, request'[t].built[k] = v
          PROVE  Snapshot(v) /\ Whole(v)
      <3>1. CASE k = r
        BY <1>3, <2>1, <2>2, <2>3, <3>1
      <3>2. CASE k # r
        BY <1>1, <1>3, <2>2, <2>3, <3>2 DEF Doing, Building
      <3> QED
        BY <3>1, <3>2
    <2>4. \A v : Snapshot(v) => Snapshot(v)'
      BY <1>2, SnapshotStays DEF Shared
    <2> QED
      BY <2>3, <2>4 DEF Building
  <1>5. Installing(t)'
    BY <1>1, <1>3 DEF Doing, Installing, At
  <1>6. Registering(t)' /\ Mounting(t)' /\ Filling(t)'
    BY <1>3 DEF Registering, Mounting, Filling, At, Serving
  <1>7. Doing(t)'
    BY <1>1, <1>2, <1>3, <1>4, <1>5, <1>6, CarriedOn DEF Doing, Shared
  <1> QED
    BY <1>1, <1>2, <1>3, <1>7, StepKeeps DEF TodoOK, At

LEMMA SwapAllKeeps ==
  ASSUME IInv, NEW t \in Threads, SwapAll(t), TypeOK'
  PROVE  IInv'
  <1>1. TypeOK /\ Doing(t) /\ request[t].route \in Routes
    BY DEF IInv, Typed, TypeOK, Requests
  <1>2. Grows /\ Stays /\ WellFormed(registry)'
    BY <1>1 DEF SwapAll, IInv, Grows, Stays, WellFormed, Present
  <1>3. MountedOK'
    <2>1. \A v : Snapshot(v) => Snapshot(v)'
      BY <1>2, SnapshotStays
    <2> QED
      BY <1>1, <2>1 DEF SwapAll, Doing, Building, MountedOK
  <1>4. HiddenOK' /\ CacheOK'
    BY DEF SwapAll, IInv, HiddenOK, CacheOK
  <1>5. Shared
    BY <1>2, <1>3, <1>4 DEF SwapAll, Shared
  <1>6. Becomes(t, "resolve", request[t].route, {}, {}, {}, NothingBuilt, Unbuilt, {})
    BY <1>1, StartIs DEF SwapAll
  <1> QED
    BY <1>1, <1>5, <1>6, ResetKeeps

LEMMA ResolveKeeps ==
  ASSUME IInv, NEW t \in Threads, ResolveRouteView(t), TypeOK'
  PROVE  IInv'
  <1>1. TypeOK /\ Doing(t) /\ request[t].route \in Routes
    BY DEF IInv, Typed, TypeOK, Requests
  <1>2. Shared /\ views' = views
    BY QuietShares DEF ResolveRouteView
  <1>3. /\ \A u \in Threads : u # t => request'[u] = request[u]
        /\ request'[t].pc = IF views[request[t].route] = Unbuilt THEN "build" ELSE "serve"
        /\ request'[t].route = request[t].route /\ request'[t].hide = request[t].hide
        /\ request'[t].built = request[t].built
        /\ request'[t].view = views[request[t].route]
    BY <1>1, ResolveIs DEF Becomes, TypeOK
  <1>4. Viewing(t)'
    BY <1>1, <1>2, <1>3, SnapshotStays DEF IInv, MountedOK, Viewing, Shared
  <1>5. Registering(t)' /\ Installing(t)' /\ Filling(t)'
    BY <1>3 DEF Registering, Installing, Filling, At
  <1>6. Mounting(t)'
    BY <1>2, <1>3 DEF Mounting, Serving
  <1>7. Doing(t)'
    BY <1>1, <1>2, <1>3, <1>4, <1>5, <1>6, CarriedOn DEF Doing, Shared
  <1> QED
    BY <1>2, <1>3, <1>7, StepKeeps

LEMMA BuildViewKeeps ==
  ASSUME IInv, NEW t \in Threads, BuildView(t), TypeOK'
  PROVE  IInv'
  <1>1. TypeOK /\ Doing(t) /\ registry # Unbuilt
    BY UnbuiltIsApart DEF IInv, Typed, TypeOK
  <1>2. Shared
    BY QuietShares DEF BuildView
  <1>3. /\ \A u \in Threads : u # t => request'[u] = request[u]
        /\ request'[t].pc = "swap" /\ request'[t].hide = request[t].hide
        /\ request'[t].built = request[t].built /\ request'[t].view = registry
    BY <1>1, BuildViewIs DEF Becomes, TypeOK
  <1>4. Viewing(t)'
    BY <1>2, <1>3, RegistryIsSnapshot, SnapshotStays DEF Viewing, Shared
  <1>5. Registering(t)' /\ Installing(t)' /\ Mounting(t)' /\ Filling(t)'
    BY <1>1, <1>3 DEF Registering, Installing, Mounting, Filling, At, Serving
  <1>6. Doing(t)'
    BY <1>1, <1>2, <1>3, <1>4, <1>5, CarriedOn DEF Doing, Shared
  <1> QED
    BY <1>2, <1>3, <1>6, StepKeeps

LEMMA SwapViewKeeps ==
  ASSUME IInv, NEW t \in Threads, SwapView(t), TypeOK'
  PROVE  IInv'
  <1>1. /\ TypeOK /\ Doing(t) /\ request[t].route \in Routes /\ request[t].view # Unbuilt
        /\ request[t].pc = "swap"
    BY DEF IInv, Typed, TypeOK, Requests, SwapView, At, Doing, Mounting
  <1>2. views'[request[t].route] = request[t].view
        /\ \A r \in Routes : r # request[t].route => views'[r] = views[r]
    BY <1>1 DEF SwapView, TypeOK
  <1>3. Grows /\ Stays /\ WellFormed(registry)' /\ HiddenOK'
    BY <1>1, <1>2 DEF SwapView, IInv, Grows, Stays, WellFormed, Present, HiddenOK
  <1>4. MountedOK'
    <2>1. \A v : Snapshot(v) => Snapshot(v)'
      BY <1>3, SnapshotStays
    <2>2. ASSUME NEW r \in Routes, NEW v \in Registries, views'[r] = v PROVE Snapshot(v)
      BY <1>1, <1>2, <2>2 DEF IInv, MountedOK, Doing, Viewing
    <2> QED
      BY <2>1, <2>2 DEF MountedOK
  <1>5. CacheOK'
    BY <1>3 DEF SwapView, IInv, CacheOK, Stays
  <1>6. Shared
    BY <1>3, <1>4, <1>5 DEF SwapView, Shared
  <1>7. /\ \A u \in Threads : u # t => request'[u] = request[u]
        /\ request'[t].pc = "serve" /\ request'[t].route = request[t].route
        /\ request'[t].hide = request[t].hide
        /\ request'[t].built = request[t].built /\ request'[t].view = request[t].view
    BY <1>1, GotoIs DEF Becomes, TypeOK, SwapView
  <1>8. Registering(t)' /\ Installing(t)' /\ Filling(t)'
    BY <1>7 DEF Registering, Installing, Filling, At
  <1>9. Mounting(t)'
    BY <1>1, <1>2, <1>7 DEF Mounting, Serving
  <1>10. Doing(t)'
    BY <1>1, <1>3, <1>7, <1>8, <1>9, CarriedOn DEF Doing
  <1> QED
    BY <1>6, <1>7, <1>10, StepKeeps

\* What a served manifest shows of the denied names: nothing but names of groups.
LEMMA ListingIsClean ==
  ASSUME NEW base, WellFormed(base), NEW rule, NEW flags
  PROVE  Shown(rule, base, flags) \cap (DeniedByName(rule) \ Groups) = {}
  <1>1. \A n \in Shown(rule, base, flags) \ Groups : n \in Visible(rule, base)
    BY FlatIsVisible DEF Shown
  <1> QED
    BY <1>1, DeniedIsNotVisible

LEMMA ServingView ==
  ASSUME IInv, NEW t \in Threads, Serving(t)
  PROVE  /\ request[t].view \in Registries /\ Snapshot(request[t].view)
         /\ request[t].route \in Routes /\ views[request[t].route] # Unbuilt
  <1>1. request[t].view # Unbuilt /\ views[request[t].route] # Unbuilt
    BY DEF IInv, Doing, Mounting, Serving
  <1>2. request[t].view \in Views /\ request[t].route \in Routes
    BY DEF IInv, Typed, TypeOK, Requests
  <1> QED
    BY <1>1, <1>2 DEF IInv, Doing, Viewing, Views

LEMMA ListKeeps ==
  ASSUME IInv, NEW t \in Threads, List(t), TypeOK'
  PROVE  IInv'
  <1>1. TypeOK /\ Doing(t) /\ Serving(t)
    BY DEF IInv, Typed, List, At, Serving
  <1>2. Shared /\ rules' = rules /\ views' = views
    BY QuietShares DEF List
  <1> DEFINE listing == Listing(rules[request[t].route], request[t].view)
  <1>3. /\ \A u \in Threads : u # t => request'[u] = request[u]
        /\ request'[t].pc = "fill" /\ request'[t].route = request[t].route
        /\ request'[t].hide = request[t].hide /\ request'[t].built = request[t].built
        /\ request'[t].view = request[t].view /\ request'[t].listing = listing
    BY <1>1, ListIs DEF Becomes, TypeOK
  <1>4. listing \cap (DeniedByName(rules[request[t].route]) \ Groups) = {}
    BY <1>1, ServingView, ListingIsClean DEF Snapshot, Listing
  <1> HIDE DEF listing
  <1>5. Filling(t)'
    BY <1>2, <1>3, <1>4 DEF Filling
  <1>6. Mounting(t)'
    BY <1>1, <1>2, <1>3, ServingView, UnbuiltIsApart DEF Mounting
  <1>7. Registering(t)' /\ Installing(t)'
    BY <1>3 DEF Registering, Installing, At
  <1>8. Doing(t)'
    BY <1>1, <1>2, <1>3, <1>5, <1>6, <1>7, CarriedOn DEF Doing, Shared
  <1> QED
    BY <1>2, <1>3, <1>8, StepKeeps

LEMMA FillKeeps ==
  ASSUME IInv, NEW t \in Threads, Fill(t), TypeOK'
  PROVE  IInv'
  <1>1. /\ request[t].route \in Routes /\ views[request[t].route] # Unbuilt
        /\ request[t].listing \cap (DeniedByName(rules[request[t].route]) \ Groups) = {}
    BY ServingView DEF Fill, At, Serving, IInv, Doing, Filling
  <1>2. /\ cached'[request[t].route] = {request[t].listing}
        /\ \A r \in Routes : r # request[t].route =>
               cached'[r] = cached[r] /\ (r \in foreign' <=> r \in foreign)
    BY <1>1 DEF Fill, CacheKey, IInv, Typed, TypeOK
  <1>3. CacheOK'
    BY <1>1, <1>2 DEF Fill, IInv, CacheOK
  <1>4. Grows /\ WellFormed(registry)' /\ HiddenOK'
    BY DEF Fill, IInv, Grows, WellFormed, Present, HiddenOK
  <1>5. Shared
    BY <1>3, <1>4, MountedStays DEF Fill, IInv, Shared
  <1>6. Becomes(t, "idle", AnyRoute, {}, {}, {}, NothingBuilt, Unbuilt, {})
    BY FinishIs DEF Fill
  <1> QED
    BY <1>5, <1>6, AnyRouteType, ResetKeeps

LEMMA FinishKeeps ==
  ASSUME IInv, NEW t \in Threads, Respond(t) \/ Fail(t), TypeOK'
  PROVE  IInv'
  <1>1. Shared
    BY QuietShares DEF Respond, Fail
  <1>2. Becomes(t, "idle", AnyRoute, {}, {}, {}, NothingBuilt, Unbuilt, {})
    BY FinishIs DEF Respond, Fail
  <1> QED
    BY <1>1, <1>2, AnyRouteType, ResetKeeps

LEMMA ArriveKeeps ==
  ASSUME IInv, NEW t \in Threads, NEW r \in Routes, Arrive(t, r), TypeOK'
  PROVE  IInv'
  <1>1. Shared
    BY QuietShares DEF Arrive
  <1>2. PICK s \in {"disconnect", "resolve"} :
            request' = [request EXCEPT ![t] = [Idle(r) EXCEPT !.pc = s]]
    BY DEF Arrive
  <1>3. Becomes(t, s, r, {}, {}, {}, NothingBuilt, Unbuilt, {})
    BY <1>2, StartIs
  <1> QED
    BY <1>1, <1>3, ResetKeeps

LEMMA CacheStepKeeps ==
  ASSUME IInv, Invalidate \/ \E r \in Routes : Expire(r)
  PROVE  IInv'
  <1>1. /\ TypeOK' /\ UNCHANGED <<registry, hidden, rules, views, request>>
        /\ \A r \in Routes : /\ cached'[r] \subseteq cached[r]
                             /\ cached'[r] # {} /\ r \notin foreign' => r \notin foreign
    BY CacheStepType DEF IInv, Typed
  <1>2. Grows /\ WellFormed(registry)' /\ HiddenOK' /\ CacheOK'
    <2>1. CacheOK'
      BY <1>1 DEF IInv, CacheOK
    <2> QED
      BY <1>1, <2>1 DEF IInv, Grows, WellFormed, Present, HiddenOK
  <1>3. MountedOK' /\ Stays
    BY <1>1, <1>2, MountedStays DEF IInv
  <1>4. TodoOK'
    BY <1>1 DEF IInv, Typed, TodoOK, At
  <1>5. \A t \in Threads : Doing(t)'
    BY <1>1, <1>2, <1>3, OthersGoOn DEF IInv, Typed
  <1> QED
    BY <1>1, <1>2, <1>3, <1>4, <1>5 DEF IInv, Typed

-----------------------------------------------------------------------------
(* The invariant holds, and what follows from it.                            *)

\* A process that has just been started.
Fresh ==
    /\ registry = Imported /\ hidden = {} /\ views = NothingBuilt
    /\ request = [t \in Threads |-> Idle(AnyRoute)]

OwnType ==
    /\ registry \in Registries /\ hidden \subseteq Tools \X Authors
    /\ views \in [Routes -> Views] /\ request \in [Threads -> Requests]

LEMMA FreshType ==
  ASSUME Fresh
  PROVE  OwnType
  <1>1. registry \in Registries
    BY RegistryAssumption, NamesAssumption
       DEF Fresh, Imported, Registries, ToolEntries, Authors, Names
  <1>2. request \in [Threads -> Requests]
    BY IdleType, AnyRouteType DEF Fresh
  <1> QED
    BY <1>1, <1>2 DEF Fresh, NothingBuilt, Views, OwnType

LEMMA FreshIsSound ==
  ASSUME Fresh
  PROVE  /\ TodoOK /\ WellFormed(registry) /\ HiddenOK /\ MountedOK
         /\ \A t \in Threads : Doing(t)
  <1>2. /\ \A n \in Manual : registry[n] # Absent /\ registry[n].members = {}
        /\ \A n \in Names \ Manual : registry[n] = Absent
    <2>1. [by |-> Importer, members |-> {}] \in ToolEntries
      BY DEF ToolEntries, Authors
    <2> QED
      BY <2>1, AbsentAssumption, RegistryAssumption DEF Fresh, Imported, Names
  <1>3. WellFormed(registry)
    BY <1>2, FreshType, RegistryAssumption, NamesAssumption
       DEF WellFormed, Present, Names, KnownTools, OwnType
  <1>4. HiddenOK /\ MountedOK
    BY UnbuiltIsApart DEF Fresh, NothingBuilt, HiddenOK, MountedOK
  <1>5. \A t \in Threads : /\ request[t].pc = "idle" /\ request[t].hide = {}
                           /\ request[t].view = Unbuilt
                           /\ \A r \in Routes : request[t].built[r] = Unbuilt
    BY DEF Fresh, Idle, NothingBuilt
  <1>6. TodoOK
    BY <1>5 DEF TodoOK, At
  <1>7. ASSUME NEW t \in Threads PROVE Doing(t)
    <2>1. Registering(t) /\ Installing(t) /\ Mounting(t) /\ Filling(t) /\ Hiding(t)
      BY <1>5 DEF Registering, Installing, Mounting, Filling, Hiding, At, Serving
    <2>2. Building(t) /\ Viewing(t)
      BY <1>5, UnbuiltIsApart DEF Building, Viewing
    <2> QED
      BY <2>1, <2>2 DEF Doing
  <1> QED
    BY <1>3, <1>4, <1>6, <1>7

LEMMA InitIInv == Init => IInv
  <1> SUFFICES ASSUME Init PROVE IInv
    OBVIOUS
  <1>1. Fresh
    BY DEF Init, RegistryInit, Fresh
  <1>2. CacheOK
    BY DEF Init, CacheOK
  <1>3. TypeOK
    BY <1>1, FreshType, SettingsAssumption DEF Init, TypeOK, OwnType
  <1> QED
    BY <1>1, <1>2, <1>3, FreshIsSound DEF IInv, Typed

\* A restart leaves nothing of the process, and all of the cache.
LEMMA RestartKeeps ==
  ASSUME IInv, Restart
  PROVE  IInv'
  <1>1. Fresh'
    BY DEF Restart, RegistryRestarts, Fresh
  <1>2. OwnType'
    BY <1>1, FreshType, PTL
  <1>3. /\ TodoOK' /\ WellFormed(registry)' /\ HiddenOK' /\ MountedOK'
        /\ (\A t \in Threads : Doing(t))'
    BY <1>1, FreshIsSound, PTL
  <1>4. TypeOK'
    BY <1>2 DEF Restart, IInv, Typed, TypeOK, OwnType
  <1>5. CacheOK'
    BY DEF Restart, IInv, CacheOK
  <1> QED
    BY <1>3, <1>4, <1>5 DEF IInv, Typed

\* What another process stores shows nothing that is denied by name, either.
LEMMA StoredElsewhereKeeps ==
  ASSUME IInv, NEW r \in Routes, StoredElsewhere(r)
  PROVE  IInv'
  <1>1. TypeOK /\ UNCHANGED <<registry, hidden, rules, views, request>>
    BY DEF IInv, Typed, StoredElsewhere
  <1>2. PICK point \in Elsewhere :
            cached' = [cached EXCEPT ![r] = {Shown(rules[r], point.registry, point.hidden)}]
    BY DEF StoredElsewhere, CacheKey, Foreign
  <1> DEFINE manifest == Shown(rules[r], point.registry, point.hidden)
  <1>3. manifest \cap (DeniedByName(rules[r]) \ Groups) = {}
    BY ElsewhereAssumption, ListingIsClean
  <1>4. manifest \in SUBSET Names
    BY DEF Shown, EntriesOf, Present
  <1> HIDE DEF manifest
  <1>5. /\ cached' \in [Routes -> SUBSET SUBSET Names]
        /\ \A k \in Routes : cached'[k] = IF k = r THEN {manifest} ELSE cached[k]
    BY <1>1, <1>2, <1>4 DEF TypeOK, manifest
  <1>6. foreign' = foreign \cup {r}
    BY DEF StoredElsewhere, CacheKey
  <1>7. TypeOK'
    BY <1>5, <1>6 DEF IInv, Typed, TypeOK, StoredElsewhere
  <1>8. Grows /\ WellFormed(registry)' /\ HiddenOK' /\ TodoOK'
    BY <1>1 DEF IInv, Grows, WellFormed, Present, HiddenOK, Typed, TodoOK, At
  <1>9. CacheOK'
    BY <1>1, <1>3, <1>5, <1>6 DEF IInv, CacheOK
  <1>10. MountedOK' /\ Stays
    BY <1>1, <1>8, MountedStays DEF IInv
  <1>11. \A t \in Threads : Doing(t)'
    BY <1>1, <1>8, <1>10, OthersGoOn DEF IInv, Typed
  <1> QED
    BY <1>7, <1>8, <1>9, <1>10, <1>11 DEF IInv, Typed

LEMMA NextIInv == IInv /\ [Next]_vars => IInv'
  <1> SUFFICES ASSUME IInv, [Next]_vars PROVE IInv'
    OBVIOUS
  <1>0. Typed /\ TypeOK
    BY DEF IInv, Typed
  <1>1. ASSUME NEW t \in Threads, Progress(t) PROVE IInv'
    <2>1. TypeOK'
      BY <1>0, <1>1, DiscoveryType, GatewayType DEF Progress
    <2>2. CASE Disconnect(t) \/ TestFlag(t) \/ SetFlag(t)
      BY <2>1, <2>2, GotoKeeps DEF Disconnect, TestFlag, SetFlag
    <2>3. CASE Collect(t)
      BY <2>1, <2>3, CollectKeeps
    <2>4. CASE RegisterTool(t)
      BY <2>1, <2>4, RegisterToolKeeps
    <2>5. CASE LoadMiddleware(t)
      BY <2>1, <2>5, LoadMiddlewareKeeps
    <2>6. CASE Fail(t) \/ Respond(t)
      BY <2>1, <2>6, FinishKeeps
    <2>7. CASE InstallGroup(t)
      BY <2>1, <2>7, InstallGroupKeeps
    <2>8. CASE HideMember(t)
      BY <2>1, <2>8, HideMemberKeeps
    <2>9. CASE \E r \in Routes : BuildRoute(t, r)
      BY <2>1, <2>9, BuildRouteKeeps
    <2>10. CASE SwapAll(t)
      BY <2>1, <2>10, SwapAllKeeps
    <2>11. CASE ResolveRouteView(t)
      BY <2>1, <2>11, ResolveKeeps
    <2>12. CASE BuildView(t)
      BY <2>1, <2>12, BuildViewKeeps
    <2>13. CASE SwapView(t)
      BY <2>1, <2>13, SwapViewKeeps
    <2>14. CASE List(t)
      BY <2>1, <2>14, ListKeeps
    <2>15. CASE Fill(t)
      BY <2>1, <2>15, FillKeeps
    <2> QED
      BY <1>1, <2>2, <2>3, <2>4, <2>5, <2>6, <2>7, <2>8, <2>9, <2>10, <2>11, <2>12,
         <2>13, <2>14, <2>15 DEF Progress
  <1>2. ASSUME NEW t \in Threads, NEW r \in Routes, Arrive(t, r) PROVE IInv'
    BY <1>0, <1>2, GatewayType, ArriveKeeps
  <1>3. CASE Invalidate \/ \E r \in Routes : Expire(r)
    BY <1>3, CacheStepKeeps
  <1>5. CASE Restart \/ \E r \in Routes : StoredElsewhere(r)
    BY <1>5, RestartKeeps, StoredElsewhereKeeps
  <1>4. CASE UNCHANGED vars
    <2>1. TypeOK' /\ TodoOK'
      BY <1>4 DEF vars, IInv, Typed, TypeOK, TodoOK, At
    <2>2. Shared
      BY <1>4, QuietShares DEF vars
    <2>3. \A t \in Threads : Doing(t)'
      BY <1>0, <1>4, <2>2, OthersGoOn DEF vars, IInv, Shared
    <2> QED
      BY <2>1, <2>2, <2>3 DEF IInv, Typed, Shared
  <1> QED
    BY <1>1, <1>2, <1>3, <1>4, <1>5 DEF Next

THEOREM Invariant == Spec => []IInv
  BY InitIInv, NextIInv, PTL DEF Spec

\* Every reachable state has the shape TypeOK states, for any tools, groups, routes and
\* threads.
THEOREM TypeCorrect == Spec => []TypeOK
  <1>1. IInv => TypeOK
    BY DEF IInv, Typed
  <1> QED
    BY <1>1, Invariant, PTL

\* No tool carved out of a route's dispatchers can be invoked there, while discovery runs,
\* runs twice, or replaces the dispatchers a view shares with the registry.
THEOREM CarvingHolds == Spec => []CarvedIsUnreachable
  <1>1. IInv => CarvedIsUnreachable
    <2> SUFFICES ASSUME IInv, NEW t \in Threads, Serving(t)
                 PROVE  CallableBy(t) \subseteq Visible(rules[request[t].route], request[t].view)
      BY DEF CarvedIsUnreachable
    <2>1. WellFormed(request[t].view) /\ WellFormed(registry)
      BY ServingView DEF IInv, Snapshot
    <2> QED
      BY <2>1, CallableIsVisible DEF CallableBy
  <1> QED
    BY <1>1, Invariant, PTL

\* What a route denies by the name of a tool or resource is absent from it at all times:
\* from its views, and from its cached manifests.
THEOREM DenialByNameHolds == Spec => []DeniedByNameIsAbsent
  <1>1. IInv => DeniedByNameIsAbsent
    <2> SUFFICES ASSUME IInv PROVE DeniedByNameIsAbsent
      OBVIOUS
    <2>1. ASSUME NEW t \in Threads, Serving(t)
          PROVE  CallableBy(t) \cap DeniedByName(rules[request[t].route]) = {}
      <3>1. WellFormed(request[t].view) /\ WellFormed(registry)
        BY <2>1, ServingView DEF IInv, Snapshot
      <3> QED
        BY <3>1, CallableIsVisible, DeniedIsNotVisible DEF CallableBy
    <2>2. \A r \in Routes : \A manifest \in cached[CacheKey(r)] :
              manifest \cap (DeniedByName(rules[r]) \ Groups) = {}
      BY DEF IInv, CacheOK, CacheKey
    <2> QED
      BY <2>1, <2>2 DEF DeniedByNameIsAbsent
  <1> QED
    BY <1>1, Invariant, PTL

\* In a whole view, what is hidden is reachable through a dispatcher that is listed.
THEOREM HidingLosesNothing == Spec => []NothingIsLost
  <1>1. IInv => NothingIsLost
    <2> SUFFICES ASSUME IInv, NEW r \in Routes, Whole(views[r]),
                        NEW n \in EntriesOf(rules[r], views[r]),
                        n \notin Listing(rules[r], views[r])
                 PROVE  \E g \in Listing(rules[r], views[r]) \cap GroupsOf(views[r]) :
                            n \in Reaches(rules[r], views[r], g)
      BY DEF NothingIsLost
    <2>1. PICK base \in Registries : base = views[r]
      BY DEF IInv, Typed, TypeOK, Views, Whole
    <2>2. Snapshot(base) /\ WellFormed(base) /\ WellFormed(registry)
      BY <2>1 DEF IInv, MountedOK, Snapshot
    <2>3. <<n, base[n].by>> \in hidden
      BY <2>1 DEF Listing, Shown
    <2>4. n \in Tools /\ base[n].by \in Authors
      BY <2>3 DEF IInv, Typed, TypeOK
    <2>5. PICK g \in Groups : n \in Bundled(g)
      BY <2>3, <2>4 DEF IInv, HiddenOK
    <2>6. /\ g \in Names /\ g \notin Tools /\ base[g] # Absent
          /\ base[g].members = Bundled(g) /\ g \in GroupsOf(base)
      BY <2>1, <2>5, ToolsAreNames, NamesAssumption DEF Whole, Bundled, GroupsOf, Present
    <2>7. n \in Visible(rules[r], base)
      BY <2>1, <2>2, <2>4, FlatIsVisible, NamesAssumption
    <2>8. n \in Survivors(rules[r], base, g)
      BY <2>5, <2>6, <2>7 DEF Survivors
    <2>9. g \in EntriesOf(rules[r], base)
      BY <2>6, <2>8 DEF EntriesOf, GroupsOf, Survivors
    <2>10. g \in Listing(rules[r], base)
      BY <2>6, <2>9 DEF Listing, Shown, IInv, Typed, TypeOK
    <2>11. g \in Present(registry)
      BY <2>2, <2>6 DEF Snapshot, Present
    <2>12. n \in Reaches(rules[r], base, g)
      BY <2>2, <2>6, <2>8, <2>9, <2>11, ReachesSurvivors
    <2> QED
      BY <2>1, <2>6, <2>10, <2>12
  <1> QED
    BY <1>1, Invariant, PTL

\* Whatever this process stores, and from whatever state of its views, is under the key of a
\* route that is mounted in it by then, and stays mounted until the process ends: one of the
\* keys its invalidation deletes.
THEOREM InvalidationHolds == Spec => []InvalidationReachesOwn
  <1>1. IInv => InvalidationReachesOwn
    BY DEF IInv, CacheOK, InvalidationReachesOwn
  <1> QED
    BY <1>1, Invariant, PTL

\* Whenever a discovery ends, all routes have views of the whole registry.
THEOREM DiscoveryEndsWhole == Spec => RebuildMakesRoutesWhole
  <1>1. IInv /\ [Next]_vars =>
            [\A t \in Threads : Installed(t) /\ request'[t].pc = "resolve" =>
                 \A r \in Routes : Whole(views'[r])]_vars
    <2> SUFFICES ASSUME IInv, Next, NEW t \in Threads, Installed(t), request'[t].pc = "resolve",
                        NEW r \in Routes
                 PROVE  Whole(views'[r])
      OBVIOUS
    <2>0. TypeOK /\ request[t].pc = "install"
      BY DEF IInv, Typed, Installed, At
    <2>1. ASSUME NEW u \in Threads, u # t,
                 Progress(u) \/ \E k \in Routes : Arrive(u, k)
          PROVE  request'[t] = request[t]
      BY <2>0, <2>1, OthersUntouched
    <2>2. CASE Invalidate \/ \E k \in Routes : Expire(k)
      BY <2>0, <2>2, CacheStepType
    <2>7. CASE Restart
      BY <2>7 DEF Restart, Idle
    <2>8. CASE \E k \in Routes : StoredElsewhere(k)
      BY <2>0, <2>8 DEF StoredElsewhere
    <2>3. CASE SwapAll(t)
      <3>1. views' = request[t].built /\ request[t].built[r] # Unbuilt
        BY <2>3 DEF SwapAll
      <3>2. request[t].built[r] \in Registries
        BY <2>0, <3>1 DEF TypeOK, Requests, Views
      <3> QED
        BY <3>1, <3>2 DEF IInv, Doing, Building
    <2>4. CASE \E k \in Routes : BuildRoute(t, k)
      BY <2>0, <2>4, BuildRouteIs DEF Becomes, TypeOK
    <2>5. CASE InstallGroup(t) \/ HideMember(t)
      BY <2>0, <2>5, InstallGroupIs, HideMemberIs DEF Becomes, TypeOK
    <2>6. ASSUME Progress(t) \/ \E k \in Routes : Arrive(t, k)
          PROVE  \/ SwapAll(t) \/ InstallGroup(t) \/ HideMember(t)
                 \/ \E k \in Routes : BuildRoute(t, k)
      BY <2>0, <2>6 DEF Progress, Arrive, Disconnect, TestFlag, SetFlag, Collect, RegisterTool,
         LoadMiddleware, Fail, ResolveRouteView, BuildView, SwapView, List, Fill, Respond, At
    <2> QED
      BY <2>0, <2>1, <2>2, <2>3, <2>4, <2>5, <2>6, <2>7, <2>8 DEF Next
  <1> QED
    BY <1>1, Invariant, PTL DEF Spec, RebuildMakesRoutesWhole
=============================================================================
