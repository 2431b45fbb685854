-------------------------- MODULE GatewayBootProofs --------------------------
(***************************************************************************)
(* What starting a gateway guarantees, for every host and all settings.    *)
(***************************************************************************)
EXTENDS Doctor, FiniteSetTheorems, SequenceTheorems, WellFoundedInduction, TLAPS

\* A process that is up was accepted by the checks of ready(), serves the table that ready()
\* made, and has the settings it started with.
Accepted == ~FatalRouteConfig /\ ~InvalidMaxTier

Started ==
    /\ \E i \in DOMAIN Configurations : conf \in Configurations[i]
    /\ Up => Accepted /\ table = Mounted

LEMMA StartedAtInit == Init => Started
  BY DEF Init, AuditInit, ScanInit, BootInit, Started, Up

\* Whatever a step is, it is a step of ready() or leaves settings and table alone and
\* moves a process on that was past ready().
LEMMA Steps ==
    ASSUME [Next]_doctorVars
    PROVE  \/ ReadyOff \/ ReadyRefused \/ ReadyMounts
           \/ UNCHANGED <<conf, table>> /\ (phase' = phase \/ phase \notin {"new", "refused"})
<1>1. CASE Boots
  BY <1>1 DEF Boots, ReadyWaits, ReadyFinalizes, ReadyStops
<1>2. CASE FirstRequest
  BY <1>2 DEF FirstRequest, StartScan
<1>3. CASE CommandRefused \/ Reports
  BY <1>3 DEF CommandRefused, Reports, bootVars
<1>4. CASE ForcesDiscovery
  BY <1>4 DEF ForcesDiscovery, StartScan
<1>5. CASE Scans
  BY <1>5 DEF Scans, Scan, ScanFinalizes, SkipPattern, ScanPattern, ScanRaises, ScanFails, ScanEnds, bootVars
<1>6. CASE UNCHANGED doctorVars
  BY <1>6 DEF doctorVars, bootVars
<1> QED
  BY <1>1, <1>2, <1>3, <1>4, <1>5, <1>6 DEF Next

\* What ready() reads is the settings: as long as they stay, so does what it makes of them.
LEMMA SettingsDecide ==
    ASSUME conf' = conf
    PROVE  Accepted' = Accepted /\ Mounted' = Mounted
<1>1. AuditRouteConfigs' = AuditRouteConfigs
  BY DEF AuditRouteConfigs, SchemaFault, Configured, Unparsable, Block, PathFault, Unnormalizable,
         ClaimsReserved, Reserved, AuditRoute, CheckOpenWorld, CheckGrammar, CheckEmptyAllowList,
         CheckAutoRegister, CheckAutoDiscover, CheckPrivilegedBuckets, CheckAnonymousSSE,
         CheckMaxTierCapsRoute, AnonymousReachable, AnonymousStream, EffectiveClasses
<1>2. Mounted' = Mounted
  BY DEF Mounted, InstallHealthcheckUrls, InstallBareRegisterUrl, InstallWellknownUrls, 
         InstallOAuthUrls, InstallGatewayUrls, InstallRouteUrls, InstallProtectedUrl,
         InstallExtraPaths, InstallMcpUrl, HasRoutes, Configured, Block
<1> QED
  BY <1>1, <1>2 DEF Accepted, FatalRouteConfig, InvalidMaxTier

LEMMA StepKeepsStarted == Started /\ [Next]_doctorVars => Started'
<1> SUFFICES ASSUME Started, [Next]_doctorVars PROVE Started'
  OBVIOUS
<1>1. conf' = conf
  BY Steps DEF ReadyOff, ReadyRefused, ReadyMounts
<1>2. Accepted' = Accepted /\ Mounted' = Mounted
  BY <1>1, SettingsDecide
<1>3. ASSUME Up' PROVE Accepted /\ table' = Mounted
  <2>1. conf.enabled /\ phase' \notin {"new", "refused"}
    BY <1>1, <1>3 DEF Up
  <2>2. CASE ReadyOff \/ ReadyRefused
    BY <2>1, <2>2 DEF ReadyOff, ReadyRefused
  <2>3. CASE ReadyMounts
    BY <2>3 DEF ReadyMounts, Accepted
  <2>4. CASE UNCHANGED <<conf, table>> /\ (phase' = phase \/ phase \notin {"new", "refused"})
    BY <2>1, <2>4 DEF Started, Up
  <2> QED
    BY <2>2, <2>3, <2>4, Steps
<1> QED
  BY <1>1, <1>2, <1>3 DEF Started

\* What runs has passed the two gates of ready(), and its URL table is the one that the
\* installers made of the host's (ready, audit_route_configs).
THEOREM StartsChecked == Spec => []Started
  BY StartedAtInit, StepKeepsStarted, PTL DEF Spec

-----------------------------------------------------------------------------
(* What is mounted. *)

Held(layers, p) == \E i \in DOMAIN layers : p \in layers[i]

\* A layer in front adds its patterns and no others.
LEMMA FrontAdds ==
    ASSUME NEW S, NEW layers \in Seq(S), NEW patterns
    PROVE  /\ InFront(patterns, layers) \in Seq(S \cup {patterns})
           /\ \A p : Held(InFront(patterns, layers), p) => p \in patterns \/ Held(layers, p)
<1>1. CASE patterns = {}
  BY <1>1 DEF InFront
<1>2. CASE patterns # {}
  <2> DEFINE r == <<patterns>> \o layers
  <2>1. InFront(patterns, layers) = r
    BY <1>2 DEF InFront
  <2>2. layers \in Seq(S \cup {patterns}) /\ <<patterns>> \in Seq(S \cup {patterns})
    OBVIOUS
  <2>3. /\ r \in Seq(S \cup {patterns}) /\ r[1] = patterns
        /\ \A i \in DOMAIN r : i = 1 \/ (i - 1 \in DOMAIN layers /\ r[i] = layers[i - 1])
    BY <2>2
  <2>4. \A p : Held(r, p) => p \in patterns \/ Held(layers, p)
    BY <2>3 DEF Held
  <2> QED
    BY <2>1, <2>3, <2>4
<1> QED
  BY <1>1, <1>2

\* Where ready() accepts the routes, each has one of the three names, and none the name of
\* another view.
LEMMA AcceptedNames == Accepted => ~SchemaFault /\ Configured \subseteq RouteNames
<1>1. Report("E005", "error", "all") # {}
  BY DEF Report
<1> QED
  BY <1>1 DEF Accepted, FatalRouteConfig, AuditRouteConfigs, SchemaFault, Unparsable, Report

\* The views a pattern may lead to, beside those of the package's endpoints.
Unfiltered == {"gateway", "protected"}

\* An installer adds nothing unfiltered.
Adds(before, after) ==
    \A p : Held(after, p) /\ p.serves \in Unfiltered => Held(before, p)

LEMMA FrontIsFiltered ==
    ASSUME NEW layers, \E S : layers \in Seq(S),
           NEW patterns, \A p \in patterns : p.serves \notin Unfiltered
    PROVE  /\ \E S : InFront(patterns, layers) \in Seq(S)
           /\ Adds(layers, InFront(patterns, layers))
<1>1. PICK S : layers \in Seq(S)
  OBVIOUS
<1>2. /\ InFront(patterns, layers) \in Seq(S \cup {patterns})
      /\ \A p : Held(InFront(patterns, layers), p) => p \in patterns \/ Held(layers, p)
  BY <1>1, FrontAdds
<1> QED
  BY <1>2 DEF Adds

LEMMA MountsAreFiltered ==
    ASSUME Started, Accepted, HasRoutes
    PROVE  Adds(conf.host, Mounted)
<1> DEFINE routes == InstallRouteUrls(conf.host)
           oauth == InstallOAuthUrls(routes)
           wellknown == InstallWellknownUrls(oauth)
           register == InstallBareRegisterUrl(wellknown)
<1>1. \E S : conf.host \in Seq(S)
  BY ConfigurationsAssumption DEF Started
<1>2. (\E S : routes \in Seq(S)) /\ Adds(conf.host, routes)
  <2>1. \A p \in {Pattern("either", Block(n).path.path, n, "none") : n \in Configured} :
            p.serves \notin Unfiltered
    BY AcceptedNames DEF Pattern, Unfiltered, RouteNames
  <2> QED
    BY <1>1, <2>1, FrontIsFiltered DEF InstallRouteUrls
<1> HIDE DEF routes
<1>3. (\E S : oauth \in Seq(S)) /\ Adds(routes, oauth)
  <2>1. \A p \in When(conf.oauth /\ ~Includes(routes, "frisian_mcp_oauth"), OAuthUrls) :
            p.serves \notin Unfiltered
    BY DEF When, OAuthUrls, Pattern, Unfiltered
  <2> QED
    BY <1>2, <2>1, FrontIsFiltered DEF InstallOAuthUrls
<1> HIDE DEF oauth
<1>4. (\E S : wellknown \in Seq(S)) /\ Adds(oauth, wellknown)
  <2>1. \A p \in When(conf.oauth /\ ~Includes(oauth, "frisian_mcp_oauth_wellknown"), WellknownUrls) :
            p.serves \notin Unfiltered
    BY DEF When, WellknownUrls, Metadata, Pattern, Unfiltered
  <2> QED
    BY <1>3, <2>1, FrontIsFiltered DEF InstallWellknownUrls
<1> HIDE DEF wellknown
<1>5. (\E S : register \in Seq(S)) /\ Adds(wellknown, register)
  <2>1. \A p \in When(conf.oauth,
                      {Pattern("bare", <<"register">>, "unregistered", "none")}) :
            p.serves \notin Unfiltered
    BY DEF When, Pattern, Unfiltered
  <2> QED
    BY <1>4, <2>1, FrontIsFiltered DEF InstallBareRegisterUrl
<1> HIDE DEF register
<1>6. Adds(register, InstallHealthcheckUrls(register))
  <2>1. \A p \in {Pattern("slashed", q, "ok", "none") : q \in conf.healthchecks} :
            p.serves \notin Unfiltered
    BY DEF Pattern, Unfiltered
  <2> QED
    BY <1>5, <2>1, FrontIsFiltered DEF InstallHealthcheckUrls
<1>7. Mounted = IF ~conf.urlconf THEN conf.host ELSE InstallHealthcheckUrls(register)
  BY DEF Mounted, InstallGatewayUrls, register, wellknown, oauth, routes
<1> QED
  BY <1>2, <1>3, <1>4, <1>5, <1>6, <1>7 DEF Adds

\* While routes are configured nothing that the package mounts serves the unfiltered surface,
\* whatever the host mounts and the other settings ask for (_install_gateway_urls).
THEOREM RoutesAreTheSurface == Spec => []NoUnfilteredMount
<1>1. Started => NoUnfilteredMount
  BY MountsAreFiltered DEF Started, NoUnfilteredMount, Adds, Unfiltered, Held
<1> QED
  BY <1>1, StartsChecked, PTL

-----------------------------------------------------------------------------
(* What the checks of ready() let through. *)

\* Where ready() accepts the routes, the report of no route is an error.
LEMMA AcceptedRoute ==
    ASSUME Accepted, NEW n \in Configured
    PROVE  /\ n \in RouteNames
           /\ Block(n).tier \in Tiers \cup {"undeclared"}
           /\ AuditRoute(n) \subseteq AuditRouteConfigs
           /\ \A f \in AuditRoute(n) : f.level # "error"
<1>1. ~SchemaFault /\ n \in RouteNames
  BY AcceptedNames
<1>2. Block(n).tier \in Tiers \cup {"undeclared"}
  BY <1>1 DEF SchemaFault, Unparsable
<1>3. AuditRoute(n) \subseteq AuditRouteConfigs
  BY <1>1 DEF AuditRouteConfigs
<1> QED
  BY <1>1, <1>2, <1>3 DEF Accepted, FatalRouteConfig

LEMMA AnonymousRoute ==
    ASSUME Accepted, NEW n \in Configured
    PROVE  /\ AdmitsAnonymous(n, "POST") /\ RouteCeiling(n) # "read" =>
                  /\ "opaque" \in EffectiveClasses(n)
                  /\ n # "default" => Report("W011", "warning", n) \subseteq AuditRouteConfigs
           /\ AdmitsAnonymous(n, "GET") =>
                  \/ "opaque" \in EffectiveClasses(n)
                  \/ conf.allowUnauthenticated
                  \/ Report("W010", "warning", n) \subseteq AuditRouteConfigs
<1>1. /\ n \in RouteNames
      /\ Block(n).tier \in Tiers \cup {"undeclared"}
      /\ AuditRoute(n) \subseteq AuditRouteConfigs
      /\ CheckOpenWorld(n) \subseteq AuditRoute(n)
      /\ CheckPrivilegedBuckets(n) \subseteq AuditRoute(n)
      /\ CheckAnonymousSSE(n) \subseteq AuditRoute(n)
  BY AcceptedRoute DEF AuditRoute
<1>2. Report("E004", "error", n) \cap AuditRoute(n) = {} /\ Report("E006", "error", n) \cap AuditRoute(n) = {}
  BY AcceptedRoute DEF Report
<1>3. \A id : Report(id, "error", n) # {}
  BY DEF Report
<1>4. ~(n = "default" /\ TierRank(Block(n).tier) > 0 /\ AnonymousReachable(n))
  BY <1>1, <1>2, <1>3 DEF CheckOpenWorld, When
<1>5. n # "default" => "anonymous_granting" \notin EffectiveClasses(n)
  BY <1>1, <1>2, <1>3 DEF CheckPrivilegedBuckets
<1>6. n # "default" /\ "opaque" \in EffectiveClasses(n) => Report("W011", "warning", n) \subseteq AuditRouteConfigs
  BY <1>1, <1>5 DEF CheckPrivilegedBuckets, When
<1>7. ~conf.allowUnauthenticated /\ AnonymousStream(n) => Report("W010", "warning", n) \subseteq AuditRouteConfigs
  BY <1>1 DEF CheckAnonymousSSE, When
<1>8. ASSUME AdmitsAnonymous(n, "POST"), RouteCeiling(n) # "read"
      PROVE  "opaque" \in EffectiveClasses(n)
  <2> SUFFICES ASSUME "opaque" \notin EffectiveClasses(n) PROVE FALSE
    OBVIOUS
  <2>1. EffectiveClasses(n) \subseteq {"anonymous_granting"}
    BY <1>8 DEF AdmitsAnonymous
  <2>2. CASE n = "default"
    <3>1. TierRank(Block(n).tier) > 0
      BY <1>1, <1>8, <2>2 DEF RouteCeiling, SecureDefaultCeiling, TierRank, Tiers
    <3> QED
      BY <1>4, <2>1, <2>2, <3>1 DEF AnonymousReachable
  <2>3. CASE n # "default"
    BY <1>5, <2>1, <2>3 DEF EffectiveClasses
  <2> QED
    BY <2>2, <2>3
<1>9. AdmitsAnonymous(n, "GET") /\ "opaque" \notin EffectiveClasses(n) => AnonymousStream(n)
  BY DEF AdmitsAnonymous, AnonymousStream
<1> QED
  BY <1>6, <1>7, <1>8, <1>9

\* A process that starts admits anonymous clients above read only through a class of the host
\* that the audit cannot read, and holds a stream open for them only where W010 says so, such
\* a class is there, or the operator acknowledged it (audit_route_configs, ready).
THEOREM AnonymousReachIsKnown == Spec => []AnonymousIsBounded
<1>1. Started => AnonymousIsBounded
  BY AnonymousRoute DEF Started, AnonymousIsBounded
<1> QED
  BY <1>1, StartsChecked, PTL

LEMMA CeilingOfRoute ==
    ASSUME Started, Accepted, NEW n \in Configured, NEW t \in Tiers
    PROVE  /\ CallerRank(ServedTier(t, n)) <= CallerRank(RouteCeiling(n))
           /\ conf.maxTier.spelling # "absent" =>
                  CallerRank(ServedTier(t, n)) <= CallerRank(conf.maxTier.tier)
<1>1. /\ n \in RouteNames
      /\ Block(n).tier \in Tiers \cup {"undeclared"}
  BY AcceptedRoute
<1>2. conf.maxTier.spelling \in {"absent", "exact", "padded", "wrong"} /\ conf.maxTier.tier \in Tiers
  BY ConfigurationsAssumption DEF Started, Tiers
<1>3. RouteCeiling(n) \in Tiers
  BY <1>1 DEF RouteCeiling, SecureDefaultCeiling, Tiers
<1>4. /\ RouteMaxTier(n) \in Tiers \cup {"unknown"}
      /\ TierRank(RouteMaxTier(n)) <= TierRank(RouteCeiling(n))
      /\ conf.maxTier.spelling # "absent" => TierRank(RouteMaxTier(n)) <= TierRank(conf.maxTier.tier)
  BY <1>2, <1>3 DEF RouteMaxTier, Raw, TierRank, Tiers
<1>5. CallerRank(ServedTier(t, n)) <= TierRank(RouteMaxTier(n)) + 1
  BY <1>4 DEF ServedTier, EffectiveMaxTier, Capped, CallerRank, TierRank, Tiers
<1> QED
  BY <1>2, <1>3, <1>4, <1>5 DEF CallerRank, TierRank, Tiers

\* W007 comes from the one check, for the route that it names.
LEMMA CapReported ==
    ASSUME Accepted, NEW n \in Configured
    PROVE  Report("W007", "warning", n) \subseteq AuditRouteConfigs
               <=> /\ Block(n).tier # "undeclared"
                   /\ conf.maxTier.spelling = "exact"
                   /\ TierRank(conf.maxTier.tier) < TierRank(Block(n).tier)
<1> DEFINE f == [id |-> "W007", level |-> "warning", route |-> n]
<1>1. Report("W007", "warning", n) \subseteq AuditRouteConfigs <=> f \in AuditRouteConfigs
  BY DEF Report
<1>2. f \in AuditRouteConfigs <=> \E m \in Configured : f \in AuditRoute(m)
  BY AcceptedNames DEF AuditRouteConfigs, When, Report
<1>3. \A m \in Configured : f \in AuditRoute(m) <=> f \in CheckMaxTierCapsRoute(m)
  BY DEF AuditRoute, CheckOpenWorld, CheckGrammar, CheckEmptyAllowList, CheckAutoRegister,
         CheckAutoDiscover, CheckPrivilegedBuckets, CheckAnonymousSSE, When, Report
<1>4. \A m \in Configured : f \in CheckMaxTierCapsRoute(m) =>
          m = n /\ Report("W007", "warning", m) = CheckMaxTierCapsRoute(m)
  BY DEF CheckMaxTierCapsRoute, When, Report
<1>5. f \in CheckMaxTierCapsRoute(n)
          <=> /\ Block(n).tier # "undeclared"
              /\ conf.maxTier.spelling = "exact"
              /\ TierRank(conf.maxTier.tier) < TierRank(Block(n).tier)
  BY DEF CheckMaxTierCapsRoute, When, Report
<1> QED
  BY <1>1, <1>2, <1>3, <1>4, <1>5

LEMMA CapTakesEffect ==
    ASSUME Started, Accepted, NEW n \in Configured,
           conf.maxTier.spelling = "exact", Block(n).tier # "undeclared"
    PROVE  TierRank(conf.maxTier.tier) < TierRank(Block(n).tier)
               <=> CallerRank(ServedTier("admin", n)) < CallerRank(Block(n).tier)
<1>1. Block(n).tier \in Tiers
  BY AcceptedRoute
<1>2. conf.maxTier.tier \in Tiers
  BY ConfigurationsAssumption DEF Started, Tiers
<1>3. RouteMaxTier(n) = IF TierRank(Block(n).tier) < TierRank(conf.maxTier.tier)
                        THEN Block(n).tier ELSE conf.maxTier.tier
  BY DEF RouteMaxTier, RouteCeiling, Raw
<1>4. CallerRank(ServedTier("admin", n)) = CallerRank(RouteMaxTier(n))
  BY <1>1, <1>2, <1>3 DEF ServedTier, EffectiveMaxTier, Capped, CallerRank, TierRank, Tiers
<1> QED
  BY <1>1, <1>2, <1>3, <1>4 DEF CallerRank, TierRank, Tiers

\* Nobody is served above the ceiling of the route, or above FRISIAN_MCP_MAX_TIER; and W007
\* names the declared ceilings that the setting lowers, and no others (RouteConfig.max_tier,
\* _apply_max_tier_cap, _check_max_tier_caps_route).
THEOREM CeilingsBound == Spec => []CeilingsHold
<1>1. Started => CeilingsHold
  BY CeilingOfRoute, CapReported, CapTakesEffect DEF Started, CeilingsHold
<1> QED
  BY <1>1, StartsChecked, PTL

-----------------------------------------------------------------------------
(* The command as a gate. *)

\* The audits read the settings, the relations and the registry that they are given, and
\* nothing else.
LEMMA AuditReads ==
    ASSUME NEW entries, entries = registered', conf' = conf, relations' = relations
    PROVE  /\ AuditRouteSurface(registered)' = AuditRouteSurface(entries)
           /\ Unreadably' = Unreadably
           /\ HasRoutes' = HasRoutes
<1>1. AuditRouteSurface(registered)' = AuditRouteSurface(entries)
  BY DEF AuditRouteSurface, Unreadably, SchemaFault, Configured, Unparsable, Block, CheckGrammar,
         CarveFindings, AuditEntries, AuditAllow, AuditDeny, AllowUnion, Net, ParseLists,
         CrossCarveFindings, Unevaluated, Unreadable, Undetermined, Satisfiable, ReadableModels,
         Writes, HttpMethods, Undecidable
<1>2. Unreadably' = Unreadably
  BY DEF Unreadably, SchemaFault, Configured, Unparsable, Block, CheckGrammar
<1> QED
  BY <1>1, <1>2 DEF HasRoutes

\* W017 and W019 are never LOUD, and no other code is left to the section on relations.
LEMMA LoudIsOfTheSurface ==
    ASSUME NEW f \in AuditRouteSurface(registered), f.severity = "LOUD"
    PROVE  f.code \notin CrossCarveCodes
<1>1. PICK n \in Configured : f \in CarveFindings(n, registered) \cup AuditEntries(n, registered)
                                        \cup CrossCarveFindings(n, registered)
  BY DEF AuditRouteSurface
<1>2. f \notin CrossCarveFindings(n, registered)
  BY DEF CrossCarveFindings, When, Finding
<1>3. CASE f \in CarveFindings(n, registered)
  BY <1>3 DEF CarveFindings, When, Finding, CrossCarveCodes
<1>4. CASE f \in AuditEntries(n, registered)
  <2>1. \A e : \A g \in AuditAllow(e, n, registered) : g.severity = "SOFT"
    BY DEF AuditAllow, When, Finding
  <2>2. \A e : \A g \in AuditDeny(e, n, registered) : g.severity = "SOFT" \/ g.code = "W113"
    BY DEF AuditDeny, Finding
  <2>3. \E e : f \in AuditAllow(e, n, registered) \/ f \in AuditDeny(e, n, registered)
    BY <1>4 DEF AuditEntries
  <2>4. f.code = "W113"
    BY <2>1, <2>2, <2>3
  <2> QED
    BY <2>4 DEF CrossCarveCodes
<1> QED
  BY <1>1, <1>2, <1>3, <1>4

\* With --strict whatever is LOUD, or could not be audited, is among the errors.
LEMMA StrictDiagnosis ==
    ASSUME conf.command = "strict", HasRoutes, ~HasErrors(Diagnosis)
    PROVE  /\ phase # "failed"
           /\ ~Unreadably
           /\ \A f \in AuditRouteSurface(registered) : f.severity # "LOUD"
<1>1. /\ \A r \in CheckRouteSurface : r.level # "error"
      /\ \A r \in CheckCrossCarve : r.level # "error"
  BY DEF HasErrors, Diagnosis
<1>2. \A id : Unproved(id) # {} /\ \A r \in Unproved(id) : r.level = "error"
  BY DEF Unproved, Error
<1>3. phase # "failed" /\ CrossCarveReport(registered).evaluated
  BY <1>1, <1>2 DEF CheckCrossCarve
<1>4. ~Unreadably
  BY <1>3 DEF CrossCarveReport
<1>5. ASSUME NEW f \in AuditRouteSurface(registered), f.severity = "LOUD"
      PROVE  FALSE
  <2>1. f.code \notin CrossCarveCodes
    BY <1>5, LoudIsOfTheSurface
  <2>2. Unproved(f.code) \subseteq CheckRouteSurface
    BY <1>3, <1>5, <2>1 DEF CheckRouteSurface
  <2> QED
    BY <1>1, <1>2, <2>2
<1> QED
  BY <1>3, <1>4, <1>5

\* Once the command has come to its verdict the process does nothing more; and with --strict
\* the verdict goes by what was audited.
Passes ==
    verdict.exit = "clean" /\ conf.command = "strict" /\ HasRoutes =>
        /\ phase = "finalized"
        /\ ~Unreadably
        /\ \A f \in AuditRouteSurface(registered) : f.severity # "LOUD"

Gate ==
    /\ verdict.exit # "running" => conf.command # "serve" /\ phase \notin {"new", "scanning"}
    /\ Passes

LEMMA VerdictIsFinal ==
    ASSUME Gate, verdict.exit # "running", [Next]_doctorVars
    PROVE  UNCHANGED doctorVars
<1>1. conf.command # "serve" /\ phase \notin {"new", "scanning"}
  BY DEF Gate
<1>2. ~Boots
  BY <1>1 DEF Boots, ReadyWaits, ReadyFinalizes, ReadyStops, ReadyMounts, ReadyOff, ReadyRefused
<1>3. ~Scans
  BY <1>1 DEF Scans, Scan, ScanFinalizes, SkipPattern, ScanPattern, ScanRaises, ScanFails, ScanEnds
<1>4. ~FirstRequest /\ ~CommandRefused /\ ~ForcesDiscovery /\ ~Reports
  BY <1>1 DEF FirstRequest, CommandRefused, ForcesDiscovery, Reports
<1> QED
  BY <1>2, <1>3, <1>4 DEF Next

LEMMA StepKeepsGate == Gate /\ [Next]_doctorVars => Gate'
<1> SUFFICES ASSUME Gate, [Next]_doctorVars PROVE Gate'
  OBVIOUS
<1>1. CASE verdict.exit # "running"
  <2>1. UNCHANGED doctorVars
    BY <1>1, VerdictIsFinal
  <2>2. /\ conf' = conf /\ phase' = phase /\ verdict' = verdict
        /\ registered' = registered /\ relations' = relations
    BY <2>1 DEF doctorVars, bootVars, scanVars
  <2> QED
    BY <2>2, AuditReads DEF Gate, Passes
<1>2. CASE verdict' = verdict /\ verdict.exit = "running"
  BY <1>2 DEF Gate, Passes
<1>3. CASE CommandRefused
  BY <1>3 DEF CommandRefused, Gate, Passes, bootVars
<1>4. CASE Reports
  <2>1. /\ conf.command # "serve" /\ phase \in {"finalized", "failed"}
        /\ verdict' = [exit |-> IF HasErrors(Diagnosis) THEN "failed" ELSE "clean",
                       reports |-> Diagnosis]
        /\ conf' = conf /\ phase' = phase /\ registered' = registered /\ relations' = relations
    BY <1>4 DEF Reports, bootVars, scanVars
  <2>2. verdict'.exit = "clean" => ~HasErrors(Diagnosis)
    BY <2>1
  <2>3. /\ AuditRouteSurface(registered)' = AuditRouteSurface(registered)
        /\ Unreadably' = Unreadably /\ HasRoutes' = HasRoutes
    BY <2>1, AuditReads
  <2> QED
    BY <2>1, <2>2, <2>3, StrictDiagnosis DEF Gate, Passes
<1> QED
  BY <1>1, <1>2, <1>3, <1>4
  DEF Next, Boots, FirstRequest, ForcesDiscovery, Scans, doctorVars

-----------------------------------------------------------------------------
(* What the audit says of entries. *)

\* Once discovery has ended with an audit, what was logged is what an audit would find now.
Surveyed ==
    phase = "finalized" =>
        /\ ~Unreadably
        /\ surfaceFindings = AuditRouteSurface(registered)

LEMMA StepKeepsSurveyed == Surveyed /\ [Next]_doctorVars => Surveyed'
<1> SUFFICES ASSUME Surveyed, [Next]_doctorVars, phase' = "finalized" PROVE Surveyed'
  BY DEF Surveyed
<1>1. CASE ScanFinalizes
  <2>1. /\ ~RoutesUnusable /\ \A n \in Configured : CheckGrammar(n) = {}
        /\ conf' = conf /\ relations' = relations
        /\ surfaceFindings' = AuditRouteSurface(registered')
    BY <1>1 DEF ScanFinalizes, ScanEnds
  <2>2. ~Unreadably
    BY <2>1 DEF Unreadably, RoutesUnusable
  <2>3. PICK entries : entries = registered'
    OBVIOUS
  <2>4. /\ AuditRouteSurface(registered)' = AuditRouteSurface(entries)
        /\ Unreadably' = Unreadably
    BY <2>1, <2>3, AuditReads
  <2> QED
    BY <2>1, <2>2, <2>3, <2>4 DEF Surveyed
<1>2. CASE phase = "finalized" /\ UNCHANGED <<bootVars, scanVars, surfaceFindings>>
  <2>1. /\ phase' = phase /\ conf' = conf /\ surfaceFindings' = surfaceFindings
        /\ registered' = registered /\ relations' = relations
    BY <1>2 DEF bootVars, scanVars
  <2> QED
    BY <1>2, <2>1, AuditReads DEF Surveyed
<1>3. ~Boots
  BY DEF Boots, ReadyWaits, ReadyFinalizes, ReadyStops, ReadyMounts, ReadyOff, ReadyRefused
<1>4. ~FirstRequest /\ ~ForcesDiscovery
  BY DEF FirstRequest, ForcesDiscovery, StartScan
<1>5. ~Scan
  BY DEF Scan, SkipPattern, ScanPattern, ScanRaises, ScanFails, bootVars
<1>6. CASE CommandRefused \/ Reports \/ UNCHANGED doctorVars
  BY <1>2, <1>6 DEF CommandRefused, Reports, doctorVars, bootVars
<1> QED
  BY <1>1, <1>3, <1>4, <1>5, <1>6 DEF Next, Scans

\* What is called inert selects nothing; and what selects nothing is called inert, but for
\* the wildcard.
LEMMA InertSelectsNothing ==
    ASSUME NEW e, NEW surface
    PROVE  /\ InertBecause(e, surface) # "no" => Resolve(e, surface) = {}
           /\ Resolve(e, surface) = {} /\ e.kind # "wildcard" => InertBecause(e, surface) # "no"
<1>1. CASE e.kind = "wildcard"
  BY <1>1, Zenon DEF InertBecause
<1>2. CASE e.kind = "unmatchable"
  <2>1. Resolve(e, surface) = {}
    BY <1>2, Zenon DEF Resolve
  <2>2. InertBecause(e, surface) = "W110"
    BY <1>2, Zenon DEF InertBecause
  <2> QED
    BY <2>1, <2>2
<1>3. CASE e.kind = "qualified" /\ e.label \notin DOMAIN surface.members
  <2>1. Resolve(e, surface) = ResolveQualified(e, surface)
    BY <1>3, Zenon DEF Resolve
  <2>2. InertBecause(e, surface) = "W112"
    BY <1>3, Zenon DEF InertBecause
  <2> QED
    BY <1>3, <2>1, <2>2 DEF ResolveQualified
<1>4. CASE /\ e.kind \notin {"wildcard", "unmatchable"}
           /\ ~(e.kind = "qualified" /\ e.label \notin DOMAIN surface.members)
  <2>1. InertBecause(e, surface) = IF Resolve(e, surface) = {} THEN "W111" ELSE "no"
    BY <1>4, Zenon DEF InertBecause
  <2> QED
    BY <2>1
<1> QED
  BY <1>1, <1>2, <1>3, <1>4

EntryCodes == {"W110", "W111", "W112", "W113"}

\* The findings of one of the four codes for a route are those on its entries.
LEMMA EntryFindings ==
    ASSUME NEW n \in Configured, ~Unreadably,
           NEW f, f.route = n, f.code \in EntryCodes
    PROVE  f \in AuditRouteSurface(registered) <=> f \in AuditEntries(n, registered)
<1>1. \A m : \A g \in CarveFindings(m, registered) : g.code \notin EntryCodes
  BY DEF CarveFindings, When, Finding, EntryCodes
<1>2. \A m : \A g \in CrossCarveFindings(m, registered) : g.code \notin EntryCodes
  BY DEF CrossCarveFindings, When, Finding, EntryCodes
<1>3. \A m : \A g \in AuditEntries(m, registered) : g.route = m
  <2>1. \A m, e : \A g \in AuditAllow(e, m, registered) : g.route = m
    BY DEF AuditAllow, When, Finding
  <2>2. \A m, e : \A g \in AuditDeny(e, m, registered) : g.route = m
    BY DEF AuditDeny, Finding
  <2> QED
    BY <2>1, <2>2 DEF AuditEntries
<1> QED
  BY <1>1, <1>2, <1>3 DEF AuditRouteSurface

LEMMA FoundIsInert ==
    ASSUME NEW n, NEW f \in AuditEntries(n, registered)
    PROVE  InertBecause(f.about, ToolSurface(registered)) # "no"
<1>1. \A e : \A g \in AuditAllow(e, n, registered) :
          g.about = e /\ InertBecause(e, ToolSurface(registered)) # "no"
  BY DEF AuditAllow, When, Finding
<1>2. \A e : \A g \in AuditDeny(e, n, registered) :
          g.about = e /\ InertBecause(e, ToolSurface(registered)) # "no"
  BY DEF AuditDeny, Finding
<1> QED
  BY <1>1, <1>2 DEF AuditEntries

LEMMA LoudEntries ==
    ASSUME NEW n \in Configured, CheckGrammar(n) = {}, NEW e \in ParseLists(n).deny
    PROVE  Finding("W113", "LOUD", n, e) \subseteq AuditEntries(n, registered)
               <=> /\ Resolve(e, ToolSurface(registered)) = {}
                   /\ Net(n, registered) \cap NamedBy(e) # {}
<1> DEFINE f == [code |-> "W113", severity |-> "LOUD", route |-> n, about |-> e]
           inert == InertBecause(e, ToolSurface(registered)) # "no"
           loud == inert /\ Survivors(e, Net(n, registered)) # {}
<1>1. e.kind # "wildcard"
  <2>1. Report("E1", "error", n) # {}
    BY DEF Report
  <2>2. \A d \in Block(n).deny : d.kind # "wildcard"
    BY <2>1 DEF CheckGrammar, When
  <2> QED
    BY <2>2 DEF ParseLists, ParseEntry
<1>2. inert <=> Resolve(e, ToolSurface(registered)) = {}
  BY <1>1, InertSelectsNothing
<1>3. Survivors(e, Net(n, registered)) = Net(n, registered) \cap NamedBy(e)
  BY DEF Survivors, NamedBy, ProbeResource
<1>4. f \in AuditDeny(e, n, registered) <=> loud
  BY DEF AuditDeny, Finding
<1>5. \A d : f \notin AuditAllow(d, n, registered)
  BY DEF AuditAllow, When, Finding
<1>6. \A d : f \in AuditDeny(d, n, registered) => d = e
  BY DEF AuditDeny, Finding
<1> HIDE DEF loud
<1>7. f \in AuditEntries(n, registered) <=> loud
  BY <1>4, <1>5, <1>6 DEF AuditEntries
<1>8. Finding("W113", "LOUD", n, e) = {f}
  BY DEF Finding
<1> QED
  BY <1>2, <1>3, <1>7, <1>8 DEF loud

\* The findings on entries are true of the registry that requests meet: what they call inert
\* can be deleted, and W113 is reported of a deny entry exactly when it removes nothing while
\* something that it names is exposed (RouteMatcher.audit).
THEOREM EntriesAudited == Spec => []EntryFindingsHold
<1>1. Init => Surveyed
  BY DEF Init, AuditInit, ScanInit, BootInit, Surveyed
<1>2. Surveyed => EntryFindingsHold
  <2> SUFFICES ASSUME Surveyed, Audited, NEW n \in Configured
      PROVE  LET surface == ToolSurface(registered)
                 lists == ParseLists(n)
                 net == Select(lists, surface)
             IN  /\ net = Select([allow |-> lists.allow \ EntriesFound(n),
                                  deny |-> lists.deny \ EntriesFound(n)], surface)
                 /\ \A e \in lists.deny :
                        Finding("W113", "LOUD", n, e) \subseteq surfaceFindings
                            <=> Resolve(e, surface) = {} /\ net \cap NamedBy(e) # {}
    BY DEF EntryFindingsHold
  <2> DEFINE surface == ToolSurface(registered)
             lists == ParseLists(n)
             without == [allow |-> lists.allow \ EntriesFound(n),
                         deny |-> lists.deny \ EntriesFound(n)]
  <2>1. ~Unreadably /\ surfaceFindings = AuditRouteSurface(registered) /\ CheckGrammar(n) = {}
    BY DEF Surveyed, Audited, Unreadably
  <2>2. \A e \in EntriesFound(n) : Resolve(e, surface) = {}
    <3> TAKE e \in EntriesFound(n)
    <3>1. PICK f \in surfaceFindings : f.about = e /\ f.route = n /\ f.code \in EntryCodes
      BY DEF EntriesFound, EntryCodes
    <3>2. f \in AuditEntries(n, registered)
      BY <2>1, <3>1, EntryFindings
    <3> QED
      BY <3>1, <3>2, FoundIsInert, InertSelectsNothing
  <2>3. /\ Matched(without.allow, surface) = Matched(lists.allow, surface)
        /\ Matched(without.deny, surface) = Matched(lists.deny, surface)
    <3> HIDE DEF lists, surface
    <3> QED
      BY <2>2 DEF Matched
  <2>4. Select(lists, surface) = Select(without, surface)
    BY <2>3 DEF Select
  <2>5. ASSUME NEW e \in lists.deny
        PROVE  Finding("W113", "LOUD", n, e) \subseteq surfaceFindings
                   <=> Resolve(e, surface) = {} /\ Select(lists, surface) \cap NamedBy(e) # {}
    <3>1. Finding("W113", "LOUD", n, e) \subseteq surfaceFindings
              <=> Finding("W113", "LOUD", n, e) \subseteq AuditEntries(n, registered)
      <4> DEFINE f == [code |-> "W113", severity |-> "LOUD", route |-> n, about |-> e]
      <4>1. f.route = n /\ f.code \in EntryCodes
        BY DEF EntryCodes
      <4>2. Finding("W113", "LOUD", n, e) = {f}
        BY DEF Finding
      <4> HIDE DEF f
      <4>3. f \in AuditRouteSurface(registered) <=> f \in AuditEntries(n, registered)
        BY <2>1, <4>1, EntryFindings
      <4> QED
        BY <2>1, <4>2, <4>3
    <3>2. Net(n, registered) = Select(lists, surface)
      BY DEF Net
    <3> QED
      BY <2>1, <3>1, <3>2, LoudEntries
  <2> QED
    BY <2>4, <2>5
<1> QED
  BY <1>1, <1>2, StepKeepsSurveyed, PTL DEF Spec

-----------------------------------------------------------------------------
(* Which layer of the URL table answers. *)

LEMMA Least ==
    ASSUME NEW n \in Nat, NEW S \in SUBSET (1..n), S # {}
    PROVE  \E i \in S : \A j \in S : i <= j
<1> DEFINE T == {1..i : i \in S}
           R == StrictSubsetOrdering(1..n)
           F == FiniteSubsetsOf(1..n)
<1>1. T \subseteq F /\ T # {}
  <2>1. \A i \in S : IsFiniteSet(1..i) /\ 1..i \in SUBSET (1..n)
    BY FS_Interval
  <2> QED
    BY <2>1 DEF FiniteSubsetsOf
<1>2. IsWellFoundedOn(R, F)
  BY FS_StrictSubsetOrderingWellFounded
<1>3. \E m \in T : \A y \in T : <<y, m>> \notin R
  <2> HIDE DEF T, R, F
  <2> QED
    BY <1>1, <1>2, WFMin
<1>4. PICK i \in S : \A j \in S : <<1..j, 1..i>> \notin R
  BY <1>3
<1>5. ASSUME NEW j \in S, j < i PROVE FALSE
  <2>1. 1..j \subseteq 1..i /\ i \notin 1..j /\ i \in 1..i
    BY <1>5
  <2>2. 1..j \in SUBSET (1..n) /\ 1..i \in SUBSET (1..n)
    OBVIOUS
  <2> QED
    BY <1>4, <2>1, <2>2 DEF StrictSubsetOrdering
<1> QED
  BY <1>5

Hit(layer, target) == \E p \in layer : Matches(p, target)

Serves(layer, target, view) == \A p \in layer : Matches(p, target) => p.serves = view

First(layers, target, k) ==
    /\ k \in DOMAIN layers /\ Hit(layers[k], target)
    /\ \A j \in DOMAIN layers : Hit(layers[j], target) => k <= j

LEMMA FirstAnswers ==
    ASSUME NEW layers, DOMAIN layers \subseteq Nat, NEW target, NEW k, First(layers, target, k)
    PROVE  Answer(layers, target) =
               (CHOOSE p \in {q \in layers[k] : Matches(q, target)} : TRUE).serves
<1> DEFINE hits(i) == {p \in layers[i] : Matches(p, target)}
           answering == {i \in DOMAIN layers : hits(i) # {}}
<1>1. \A i \in DOMAIN layers : Hit(layers[i], target) <=> hits(i) # {}
  BY DEF Hit
<1>2. k \in answering /\ \A j \in answering : k <= j
  BY <1>1 DEF First
<1>3. answering \subseteq Nat
  OBVIOUS
<1>4. (CHOOSE i \in answering : \A j \in answering : i <= j) = k
  <2> HIDE DEF answering
  <2>1. \A i \in answering : (\A j \in answering : i <= j) => i = k
    BY <1>2, <1>3
  <2> QED
    BY <1>2, <2>1
<1> QED
  BY <1>2, <1>4 DEF Answer

LEMMA NothingAnswers ==
    ASSUME NEW layers, NEW target, \A i \in DOMAIN layers : ~Hit(layers[i], target)
    PROVE  Answer(layers, target) = "nothing"
  BY DEF Answer, Hit

\* The layer in front answers what it matches, and leaves the rest to those behind it.
LEMMA FrontAnswers ==
    ASSUME NEW layers, \E S : layers \in Seq(S), NEW patterns, NEW target
    PROVE  /\ \A view : Hit(patterns, target) /\ Serves(patterns, target, view) =>
                  Answer(InFront(patterns, layers), target) = view
           /\ ~Hit(patterns, target) =>
                  Answer(InFront(patterns, layers), target) = Answer(layers, target)
<1>1. CASE patterns = {}
  BY <1>1 DEF InFront, Hit
<1>2. CASE patterns # {}
  <2> DEFINE r == <<patterns>> \o layers
  <2>1. InFront(patterns, layers) = r
    BY <1>2 DEF InFront
  <2>2. PICK S : layers \in Seq(S)
    OBVIOUS
  <2>3. layers \in Seq(S \cup {patterns}) /\ <<patterns>> \in Seq(S \cup {patterns})
    BY <2>2
  <2>4. /\ r \in Seq(S \cup {patterns}) /\ Len(r) = Len(layers) + 1 /\ r[1] = patterns
        /\ \A i \in DOMAIN layers : i + 1 \in DOMAIN r /\ r[i + 1] = layers[i]
        /\ \A i \in DOMAIN r : i = 1 \/ (i - 1 \in DOMAIN layers /\ r[i] = layers[i - 1])
    BY <2>3
  <2>5. DOMAIN r = 1..Len(r) /\ DOMAIN layers = 1..Len(layers) /\ Len(layers) \in Nat
    BY <2>2, <2>4
  <2>6. DOMAIN r \subseteq Nat /\ DOMAIN layers \subseteq Nat
    BY <2>5
  <2> HIDE DEF r
  <2>7. ASSUME Hit(patterns, target), NEW view, Serves(patterns, target, view)
        PROVE  Answer(r, target) = view
    <3>1. First(r, target, 1)
      BY <2>4, <2>5, <2>7 DEF First
    <3>2. Answer(r, target) = (CHOOSE p \in {q \in r[1] : Matches(q, target)} : TRUE).serves
      BY ONLY <2>6, <3>1, FirstAnswers
    <3> QED
      BY <2>4, <2>7, <3>2 DEF Hit, Serves
  <2>8. ASSUME ~Hit(patterns, target) PROVE Answer(r, target) = Answer(layers, target)
    <3> DEFINE answering == {i \in DOMAIN layers : Hit(layers[i], target)}
    <3>1. CASE answering = {}
      <4>1. \A i \in DOMAIN r : ~Hit(r[i], target)
        BY <2>4, <2>8, <3>1
      <4> QED
        BY <3>1, <4>1, NothingAnswers
    <3>2. CASE answering # {}
      <4>1. PICK k \in answering : \A j \in answering : k <= j
        BY <2>5, <3>2, Least
      <4>2. First(layers, target, k)
        BY <4>1 DEF First
      <4>3. First(r, target, k + 1)
        BY <2>4, <2>5, <2>8, <4>1 DEF First
      <4>4. r[k + 1] = layers[k]
        BY <2>4, <4>1
      <4> QED
        <5>1. Answer(layers, target) = (CHOOSE p \in {q \in layers[k] : Matches(q, target)} : TRUE).serves
          BY ONLY <2>6, <4>2, FirstAnswers
        <5>2. Answer(r, target) = (CHOOSE p \in {q \in r[k + 1] : Matches(q, target)} : TRUE).serves
          BY ONLY <2>6, <4>3, FirstAnswers
        <5> QED
          BY <4>4, <5>1, <5>2
    <3> QED
      BY <3>1, <3>2
  <2> QED
    BY <2>1, <2>7, <2>8
<1> QED
  BY <1>1, <1>2

LEMMA FrontIncludes ==
    ASSUME NEW layers, \E S : layers \in Seq(S), NEW patterns, NEW app
    PROVE  /\ \E S : InFront(patterns, layers) \in Seq(S)
           /\ Includes(InFront(patterns, layers), app)
                  <=> (\E p \in patterns : p.app = app) \/ Includes(layers, app)
<1>1. CASE patterns = {}
  BY <1>1 DEF InFront
<1>2. CASE patterns # {}
  <2> DEFINE r == <<patterns>> \o layers
  <2>1. InFront(patterns, layers) = r
    BY <1>2 DEF InFront
  <2>2. PICK S : layers \in Seq(S)
    OBVIOUS
  <2>3. layers \in Seq(S \cup {patterns}) /\ <<patterns>> \in Seq(S \cup {patterns})
    BY <2>2
  <2>4. /\ r \in Seq(S \cup {patterns}) /\ r[1] = patterns /\ 1 \in DOMAIN r
        /\ \A i \in DOMAIN layers : i + 1 \in DOMAIN r /\ r[i + 1] = layers[i]
        /\ \A i \in DOMAIN r : i = 1 \/ (i - 1 \in DOMAIN layers /\ r[i] = layers[i - 1])
    BY <2>3
  <2> HIDE DEF r
  <2> QED
    BY <2>1, <2>4 DEF Includes
<1> QED
  BY <1>1, <1>2

LEMMA FrontHolds ==
    ASSUME NEW layers, \E S : layers \in Seq(S), NEW patterns, NEW p
    PROVE  Held(InFront(patterns, layers), p) <=> p \in patterns \/ Held(layers, p)
<1>1. CASE patterns = {}
  BY <1>1 DEF InFront
<1>2. CASE patterns # {}
  <2> DEFINE r == <<patterns>> \o layers
  <2>1. InFront(patterns, layers) = r
    BY <1>2 DEF InFront
  <2>2. PICK S : layers \in Seq(S)
    OBVIOUS
  <2>3. layers \in Seq(S \cup {patterns}) /\ <<patterns>> \in Seq(S \cup {patterns})
    BY <2>2
  <2>4. /\ r[1] = patterns /\ 1 \in DOMAIN r
        /\ \A i \in DOMAIN layers : i + 1 \in DOMAIN r /\ r[i + 1] = layers[i]
        /\ \A i \in DOMAIN r : i = 1 \/ (i - 1 \in DOMAIN layers /\ r[i] = layers[i - 1])
    BY <2>3
  <2> HIDE DEF r
  <2> QED
    BY <2>1, <2>4 DEF Held
<1> QED
  BY <1>1, <1>2

-----------------------------------------------------------------------------
(* The layers that the package mounts, from the one in front to the routes. *)

HealthLayer == {Pattern("slashed", p, "ok", "none") : p \in conf.healthchecks}

RegisterLayer == When(conf.oauth, {Pattern("bare", <<"register">>, "unregistered", "none")})

WellknownLayer ==
    When(conf.oauth /\ ~Includes(conf.host, "frisian_mcp_oauth_wellknown"), WellknownUrls)

OAuthLayer == When(conf.oauth /\ ~Includes(conf.host, "frisian_mcp_oauth"), OAuthUrls)

RouteLayer == {Pattern("either", Block(n).path.path, n, "none") : n \in Configured}

\* What the installers make of the host's table, and its layers one by one.
Layered(routes, oauth, wellknown, register) ==
    /\ routes = InFront(RouteLayer, conf.host)
    /\ oauth = InFront(OAuthLayer, routes)
    /\ wellknown = InFront(WellknownLayer, oauth)
    /\ register = InFront(RegisterLayer, wellknown)
    /\ Mounted = InFront(HealthLayer, register)
    /\ \E S : conf.host \in Seq(S)
    /\ \E S : routes \in Seq(S)
    /\ \E S : oauth \in Seq(S)
    /\ \E S : wellknown \in Seq(S)
    /\ \E S : register \in Seq(S)

LEMMA MountedLayers ==
    ASSUME Started, HasRoutes, conf.urlconf
    PROVE  \E routes, oauth, wellknown, register : Layered(routes, oauth, wellknown, register)
<1> DEFINE routes == InFront(RouteLayer, conf.host)
           oauth == InFront(OAuthLayer, routes)
           wellknown == InFront(WellknownLayer, oauth)
           register == InFront(RegisterLayer, wellknown)
           health == InFront(HealthLayer, register)
<1>1. \E S : conf.host \in Seq(S)
  BY ConfigurationsAssumption DEF Started
<1>2. /\ \E S : routes \in Seq(S)
      /\ \A app : app # "none" => (Includes(routes, app) <=> Includes(conf.host, app))
  <2>1. \A p \in RouteLayer : p.app = "none"
    BY DEF RouteLayer, Pattern
  <2>2. ASSUME NEW app, app # "none" PROVE Includes(routes, app) <=> Includes(conf.host, app)
    <3>1. Includes(routes, app) <=> (\E p \in RouteLayer : p.app = app) \/ Includes(conf.host, app)
      BY ONLY <1>1, FrontIncludes
    <3> QED
      BY <2>1, <2>2, <3>1
  <2>3. \E S : routes \in Seq(S)
    BY ONLY <1>1, FrontIncludes
  <2> QED
    BY <2>2, <2>3
<1>3. /\ \E S : oauth \in Seq(S)
      /\ Includes(oauth, "frisian_mcp_oauth_wellknown")
             <=> Includes(conf.host, "frisian_mcp_oauth_wellknown")
  <2>1. \A p \in OAuthLayer : p.app # "frisian_mcp_oauth_wellknown"
    BY DEF OAuthLayer, OAuthUrls, When, Pattern
  <2> HIDE DEF routes
  <2> QED
    BY <1>2, <2>1, FrontIncludes
<1>4. \E S : wellknown \in Seq(S)
  <2> HIDE DEF oauth
  <2> QED
    BY <1>3, FrontIncludes
<1>5. \E S : register \in Seq(S)
  <2> HIDE DEF wellknown
  <2> QED
    BY <1>4, FrontIncludes
<1>6. Mounted = health
  <2>1. InstallGatewayUrls(conf.host) = routes
    BY DEF InstallGatewayUrls, InstallRouteUrls, RouteLayer
  <2> HIDE DEF routes
  <2>2. InstallOAuthUrls(routes) = oauth
    BY <1>2 DEF InstallOAuthUrls, OAuthLayer
  <2> HIDE DEF oauth
  <2>3. InstallWellknownUrls(oauth) = wellknown
    BY <1>3 DEF InstallWellknownUrls, WellknownLayer
  <2> HIDE DEF wellknown
  <2>4. InstallBareRegisterUrl(wellknown) = register
    BY DEF InstallBareRegisterUrl, RegisterLayer
  <2> HIDE DEF register
  <2>5. InstallHealthcheckUrls(register) = health
    BY DEF InstallHealthcheckUrls, HealthLayer
  <2> QED
    BY <2>1, <2>2, <2>3, <2>4, <2>5 DEF Mounted
<1>7. Layered(routes, oauth, wellknown, register)
  BY <1>1, <1>2, <1>3, <1>4, <1>5, <1>6 DEF Layered
<1> HIDE DEF health, register, wellknown, oauth, routes
<1> QED
  BY <1>7

LEMMA MountedAnswers ==
    ASSUME Started, HasRoutes, conf.urlconf, NEW t
    PROVE  /\ \A view : Hit(HealthLayer, t) /\ Serves(HealthLayer, t, view) =>
                  Answer(Mounted, t) = view
           /\ ~Hit(HealthLayer, t) /\ ~Hit(RegisterLayer, t) =>
              /\ \A view : Hit(WellknownLayer, t) /\ Serves(WellknownLayer, t, view) =>
                     Answer(Mounted, t) = view
              /\ ~Hit(WellknownLayer, t) =>
                 /\ \A view : Hit(OAuthLayer, t) /\ Serves(OAuthLayer, t, view) =>
                        Answer(Mounted, t) = view
                 /\ ~Hit(OAuthLayer, t) =>
                    /\ \A view : Hit(RouteLayer, t) /\ Serves(RouteLayer, t, view) =>
                           Answer(Mounted, t) = view
                    /\ ~Hit(RouteLayer, t) => Answer(Mounted, t) = Answer(conf.host, t)
<1>1. PICK routes, oauth, wellknown, register : Layered(routes, oauth, wellknown, register)
  BY MountedLayers
<1>2. /\ \A view : Hit(HealthLayer, t) /\ Serves(HealthLayer, t, view) => Answer(Mounted, t) = view
      /\ ~Hit(HealthLayer, t) => Answer(Mounted, t) = Answer(register, t)
  <2>1. (\E S : register \in Seq(S)) /\ Mounted = InFront(HealthLayer, register)
    BY <1>1 DEF Layered
  <2> QED
    BY ONLY <2>1, FrontAnswers
<1>3. ~Hit(RegisterLayer, t) => Answer(register, t) = Answer(wellknown, t)
  <2>1. (\E S : wellknown \in Seq(S)) /\ register = InFront(RegisterLayer, wellknown)
    BY <1>1 DEF Layered
  <2> QED
    BY ONLY <2>1, FrontAnswers
<1>4. /\ \A view : Hit(WellknownLayer, t) /\ Serves(WellknownLayer, t, view) =>
             Answer(wellknown, t) = view
      /\ ~Hit(WellknownLayer, t) => Answer(wellknown, t) = Answer(oauth, t)
  <2>1. (\E S : oauth \in Seq(S)) /\ wellknown = InFront(WellknownLayer, oauth)
    BY <1>1 DEF Layered
  <2> QED
    BY ONLY <2>1, FrontAnswers
<1>5. /\ \A view : Hit(OAuthLayer, t) /\ Serves(OAuthLayer, t, view) => Answer(oauth, t) = view
      /\ ~Hit(OAuthLayer, t) => Answer(oauth, t) = Answer(routes, t)
  <2>1. (\E S : routes \in Seq(S)) /\ oauth = InFront(OAuthLayer, routes)
    BY <1>1 DEF Layered
  <2> QED
    BY ONLY <2>1, FrontAnswers
<1>6. /\ \A view : Hit(RouteLayer, t) /\ Serves(RouteLayer, t, view) => Answer(routes, t) = view
      /\ ~Hit(RouteLayer, t) => Answer(routes, t) = Answer(conf.host, t)
  <2>1. (\E S : conf.host \in Seq(S)) /\ routes = InFront(RouteLayer, conf.host)
    BY <1>1 DEF Layered
  <2> QED
    BY ONLY <2>1, FrontAnswers
<1> QED
  BY <1>2, <1>3, <1>4, <1>5, <1>6

\* What ready() accepts can be mounted.
LEMMA AcceptedIsUsable == Accepted => ~RoutesUnusable
<1>1. Report("E2", "error", "all") # {} /\ \A f \in Report("E2", "error", "all") : f.level = "error"
  BY DEF Report
<1> QED
  BY <1>1, AcceptedNames DEF Accepted, FatalRouteConfig, AuditRouteConfigs, When, RoutesUnusable

\* A path that ready() lets a route have: a sequence of segments, of its own, that neither lies
\* under a path of the package nor above one.
LEMMA RoutePath ==
    ASSUME Started, ~RoutesUnusable, NEW n \in Configured
    PROVE  /\ Block(n).path.path \in Seq(Range(Block(n).path.path))
           /\ Block(n).path.path # <<>>
           /\ \A r \in Reserved :
                  ~IsUnder(Block(n).path.path, r) /\ ~IsUnder(r, Block(n).path.path)
           /\ \A m \in Configured : Block(m).path.path = Block(n).path.path => m = n
           /\ HasRoutes
<1>1. conf.routes.form = "mapping" /\ n \in DOMAIN conf.routes.block
  BY DEF Configured
<1>2. Block(n).path.path \in Seq(Range(Block(n).path.path))
  BY <1>1, ConfigurationsAssumption DEF Started, Block
<1>3. ~PathFault(n)
  BY DEF RoutesUnusable
<1>4. HasRoutes
  BY <1>1 DEF HasRoutes
<1> QED
  BY <1>2, <1>3, <1>4 DEF PathFault, Unnormalizable, ClaimsReserved

\* What lies under the paths of the package, or is one, lies on no route.
LEMMA RouteMisses ==
    ASSUME Started, ~RoutesUnusable, NEW t, t.path \in Seq(Range(t.path)),
           \E r \in Reserved : IsUnder(t.path, r)
    PROVE  ~Hit(RouteLayer, t)
<1> SUFFICES ASSUME NEW n \in Configured, Matches(Pattern("either", Block(n).path.path, n, "none"), t)
             PROVE  FALSE
  BY DEF Hit, RouteLayer
<1>1. t.path = Block(n).path.path
  BY DEF Matches, Pattern
<1> QED
  BY <1>1, RoutePath

LEMMA WellknownTarget ==
    ASSUME Started, ~RoutesUnusable, NEW d \in Metadata, NEW suffix, suffix \in Seq(Range(suffix)),
           NEW t, t = [path |-> <<WellKnown, d>> \o suffix, slash |-> FALSE]
    PROVE  /\ ~Hit(HealthLayer, t) /\ ~Hit(RegisterLayer, t) /\ ~Hit(OAuthLayer, t)
           /\ ~Hit(RouteLayer, t)
           /\ Hit(WellknownUrls, t) /\ Serves(WellknownUrls, t, d)
<1> DEFINE All == Range(suffix) \cup {WellKnown, d}
<1>1. /\ <<WellKnown, d>> \in Seq(All) /\ suffix \in Seq(All)
      /\ t.path = <<WellKnown, d>> \o suffix /\ t.slash = FALSE
  OBVIOUS
<1> HIDE DEF All
<1>2. /\ t.path \in Seq(All) /\ Len(t.path) = 2 + Len(suffix) /\ Len(suffix) \in Nat
      /\ t.path[1] = WellKnown /\ t.path[2] = d
  BY <1>1
<1>3. \A y : IsUnder(t.path, <<WellKnown, y>>) <=> y = d
  <2> TAKE y
  <2> DEFINE head == SubSeq(t.path, 1, 2)
  <2>1. /\ head \in Seq(All) /\ Len(head) = 2 /\ Len(t.path) >= 2
        /\ head[1] = WellKnown /\ head[2] = d
    BY <1>2, SubSeqProperties
  <2>2. head = <<WellKnown, d>>
    <3> HIDE DEF head
    <3> QED
      BY <1>1, <2>1, SeqEqual
  <2> QED
    BY <2>1, <2>2 DEF IsUnder
<1>4. IsUnder(t.path, <<WellKnown>>)
  <2> DEFINE head == SubSeq(t.path, 1, 1)
  <2>1. /\ head \in Seq(All) /\ Len(head) = 1 /\ Len(t.path) >= 1 /\ head[1] = WellKnown
    BY <1>2, SubSeqProperties
  <2>2. head = <<WellKnown>>
    <3>1. <<WellKnown>> \in Seq(All)
      BY DEF All
    <3> HIDE DEF head
    <3> QED
      BY <2>1, <3>1, SeqEqual
  <2> QED
    BY <2>1, <2>2 DEF IsUnder
<1>5. ~Hit(HealthLayer, t)
  BY <1>1 DEF Hit, HealthLayer, Matches, Pattern
<1>6. ~Hit(RegisterLayer, t)
  BY <1>2 DEF Hit, RegisterLayer, When, Matches, Pattern
<1>7. ~Hit(OAuthLayer, t)
  BY <1>1 DEF Hit, OAuthLayer, OAuthUrls, When, Matches, Pattern
<1>8. ~Hit(RouteLayer, t)
  <2>1. t.path \in Seq(Range(t.path))
    <3>1. t.path \in [1..Len(t.path) -> All]
      BY <1>2, LenProperties
    <3>2. t.path \in [1..Len(t.path) -> Range(t.path)]
      BY <3>1 DEF Range
    <3>3. Len(t.path) \in Nat
      BY <1>2
    <3> QED
      BY ONLY <3>2, <3>3, SeqDef
  <2> QED
    BY <1>4, <2>1, RouteMisses DEF Reserved
<1>9. ASSUME NEW e, t.path = <<WellKnown, e>> \/ IsUnder(t.path, <<WellKnown, e>>)
      PROVE  e = d
  <2>1. CASE t.path = <<WellKnown, e>>
    BY ONLY <1>2, <2>1
  <2>2. CASE IsUnder(t.path, <<WellKnown, e>>)
    BY <1>3, <2>2
  <2> QED
    BY <1>9, <2>1, <2>2
<1>10. Serves(WellknownUrls, t, d)
  <2> SUFFICES ASSUME NEW p \in WellknownUrls, Matches(p, t) PROVE p.serves = d
    BY DEF Serves
  <2>1. p.path = <<WellKnown, p.serves>> /\ p.kind \in {"bare", "below"}
    BY DEF WellknownUrls, Pattern
  <2>2. t.path = p.path \/ IsUnder(t.path, p.path)
    BY <2>1 DEF Matches
  <2> QED
    BY <1>9, <2>1, <2>2
<1>11. Hit(WellknownUrls, t)
  <2> DEFINE p(kind) == Pattern(kind, <<WellKnown, d>>, d, "frisian_mcp_oauth_wellknown")
  <2>1. p("bare") \in WellknownUrls /\ p("below") \in WellknownUrls
    BY DEF WellknownUrls
  <2>2. CASE t.path = <<WellKnown, d>>
    <3>1. Matches(p("bare"), t)
      BY <1>1, <2>2 DEF Matches, Pattern
    <3> QED
      BY <2>1, <3>1 DEF Hit
  <2>3. CASE t.path # <<WellKnown, d>>
    <3>1. Matches(p("below"), t)
      BY <1>3, <2>3 DEF Matches, Pattern
    <3> QED
      BY <2>1, <3>1 DEF Hit
  <2> QED
    BY <2>2, <2>3
<1> QED
  BY <1>5, <1>6, <1>7, <1>8, <1>10, <1>11

LEMMA UnderItself ==
    ASSUME NEW S, NEW p \in Seq(S)
    PROVE  /\ IsUnder(p, p)
           /\ \A x, y : IsUnder(p, <<x, y>>) => IsUnder(p, <<x>>)
<1>1. IsUnder(p, p)
  <2>1. SubSeq(p, 1, Len(p)) \in Seq(S) /\ Len(SubSeq(p, 1, Len(p))) = Len(p)
        /\ \A i \in 1..Len(p) : SubSeq(p, 1, Len(p))[i] = p[i]
    BY SubSeqProperties
  <2>2. SubSeq(p, 1, Len(p)) = p
    BY <2>1, SeqEqual
  <2> QED
    BY <2>2 DEF IsUnder
<1>2. ASSUME NEW x, NEW y, IsUnder(p, <<x, y>>) PROVE IsUnder(p, <<x>>)
  <2>1. Len(p) >= 2 /\ SubSeq(p, 1, 2) = <<x, y>>
    BY <1>2 DEF IsUnder
  <2>2. SubSeq(p, 1, 2)[1] = p[1]
    BY <2>1, SubSeqProperties
  <2>3. p[1] = x /\ x \in S
    <3>1. <<x, y>>[1] = x
      OBVIOUS
    <3>2. p[1] = x
      BY ONLY <2>1, <2>2, <3>1
    <3>3. 1 \in 1..Len(p) /\ Len(p) \in Nat
      BY <2>1
    <3> QED
      BY <3>2, <3>3, ElementOfSeq
  <2>4. SubSeq(p, 1, 1) \in Seq(S) /\ Len(SubSeq(p, 1, 1)) = 1 /\ SubSeq(p, 1, 1)[1] = p[1]
    BY <2>1, SubSeqProperties
  <2>5. <<x>> \in Seq(S)
    BY <2>3
  <2>6. SubSeq(p, 1, 1) = <<x>>
    <3>1. Len(<<x>>) = 1 /\ <<x>>[1] = x
      OBVIOUS
    <3> DEFINE a == SubSeq(p, 1, 1)
               b == <<x>>
    <3>2. a \in Seq(S) /\ b \in Seq(S) /\ Len(a) = Len(b) /\ \A i \in 1..Len(a) : a[i] = b[i]
      BY <2>3, <2>4, <2>5, <3>1
    <3> HIDE DEF a, b
    <3>3. a = b
      BY <3>2, SeqEqual
    <3> QED
      BY <3>3 DEF a, b
  <2> QED
    BY <2>1, <2>6 DEF IsUnder
<1> QED
  BY <1>1, <1>2

LEMMA RouteTarget ==
    ASSUME Started, ~RoutesUnusable, NEW n \in Configured, NEW t, t.path = Block(n).path.path
    PROVE  /\ ~Hit(HealthLayer, t) /\ ~Hit(RegisterLayer, t)
           /\ ~Hit(WellknownLayer, t) /\ ~Hit(OAuthLayer, t)
           /\ Hit(RouteLayer, t) /\ Serves(RouteLayer, t, n)
<1>1. /\ t.path \in Seq(Range(t.path))
      /\ \A r \in Reserved : ~IsUnder(t.path, r)
      /\ \A m \in Configured : Block(m).path.path = t.path => m = n
  BY RoutePath
<1>2. \A r \in Reserved : t.path # r
  BY <1>1, UnderItself
<1>3. ~Hit(HealthLayer, t)
  BY <1>2 DEF Hit, HealthLayer, Matches, Pattern, Reserved
<1>4. ~Hit(RegisterLayer, t)
  BY <1>2 DEF Hit, RegisterLayer, When, Matches, Pattern, Reserved
<1>5. \A x, y : <<x>> \in Reserved => t.path # <<x, y>> /\ ~IsUnder(t.path, <<x, y>>)
  BY <1>1, UnderItself
<1>6. ~Hit(OAuthLayer, t)
  <2>1. \A p \in OAuthUrls : \E e : p.kind = "slashed" /\ p.path = <<"oauth", e>>
    BY DEF OAuthUrls, Pattern
  <2>2. <<"oauth">> \in Reserved
    BY DEF Reserved
  <2>3. \A e : t.path # <<"oauth", e>>
    BY ONLY <1>5, <2>2
  <2>4. \A p \in OAuthUrls : p.kind = "slashed" /\ t.path # p.path
    BY ONLY <2>1, <2>3
  <2>5. \A p \in OAuthUrls : ~Matches(p, t)
    BY <2>4 DEF Matches
  <2> QED
    BY <2>5 DEF Hit, OAuthLayer, When
<1>7. ~Hit(WellknownLayer, t)
  <2>1. \A p \in WellknownUrls : \E d : p.kind \in {"bare", "below"} /\ p.path = <<WellKnown, d>>
    BY DEF WellknownUrls, Pattern
  <2>2. <<WellKnown>> \in Reserved
    BY DEF Reserved
  <2>3. \A d : t.path # <<WellKnown, d>> /\ ~IsUnder(t.path, <<WellKnown, d>>)
    BY ONLY <1>5, <2>2
  <2>4. \A p \in WellknownUrls : t.path # p.path /\ ~IsUnder(t.path, p.path)
    BY ONLY <2>1, <2>3
  <2>5. \A p \in WellknownUrls : ~Matches(p, t)
    BY <2>4 DEF Matches
  <2> QED
    BY <2>5 DEF Hit, WellknownLayer, When
<1>8. \A p \in RouteLayer : \E m \in Configured :
          p.kind = "either" /\ p.path = Block(m).path.path /\ p.serves = m
  BY DEF RouteLayer, Pattern
<1>9. Serves(RouteLayer, t, n)
  BY <1>1, <1>8 DEF Serves, Matches
<1>10. Hit(RouteLayer, t)
  <2> DEFINE p == Pattern("either", Block(n).path.path, n, "none")
  <2>1. p \in RouteLayer
    BY DEF RouteLayer
  <2>2. Matches(p, t)
    BY DEF Matches, Pattern
  <2> QED
    BY <2>1, <2>2 DEF Hit
<1> QED
  BY <1>3, <1>4, <1>6, <1>7, <1>9, <1>10

LEMMA RouteAnswers ==
    ASSUME Started, ~RoutesUnusable, conf.urlconf, NEW n \in Configured, NEW t,
           t.path = Block(n).path.path
    PROVE  Answer(Mounted, t) = n
  BY RoutePath, RouteTarget, MountedAnswers

LEMMA HealthAnswers ==
    ASSUME Started, HasRoutes, conf.urlconf, NEW t, t.path \in conf.healthchecks, t.slash
    PROVE  Answer(Mounted, t) = "ok"
<1>1. Hit(HealthLayer, t)
  <2> DEFINE p == Pattern("slashed", t.path, "ok", "none")
  <2>1. p \in HealthLayer
    BY DEF HealthLayer
  <2>2. Matches(p, t)
    BY DEF Matches, Pattern
  <2> QED
    BY <2>1, <2>2 DEF Hit
<1>2. Serves(HealthLayer, t, "ok")
  BY DEF Serves, HealthLayer, Pattern
<1> QED
  BY <1>1, <1>2, MountedAnswers

LEMMA MetadataAnswers ==
    ASSUME Started, ~RoutesUnusable, HasRoutes, conf.urlconf,
           conf.oauth \/ Includes(conf.host, "frisian_mcp_oauth_wellknown"),
           NEW d \in Metadata, NEW suffix, suffix \in Seq(Range(suffix)),
           NEW t, t = [path |-> <<WellKnown, d>> \o suffix, slash |-> FALSE]
    PROVE  Answer(Mounted, t) = Provided("frisian_mcp_oauth_wellknown", t, d)
<1>1. /\ ~Hit(HealthLayer, t) /\ ~Hit(RegisterLayer, t) /\ ~Hit(OAuthLayer, t)
      /\ ~Hit(RouteLayer, t)
      /\ Hit(WellknownUrls, t) /\ Serves(WellknownUrls, t, d)
  BY WellknownTarget
<1>2. CASE Includes(conf.host, "frisian_mcp_oauth_wellknown")
  <2>1. ~Hit(WellknownLayer, t)
    BY <1>2 DEF Hit, WellknownLayer, When
  <2> QED
    BY <1>1, <1>2, <2>1, MountedAnswers DEF Provided
<1>3. CASE ~Includes(conf.host, "frisian_mcp_oauth_wellknown")
  <2>1. WellknownLayer = WellknownUrls
    BY <1>3 DEF WellknownLayer, When
  <2> QED
    BY <1>1, <1>3, <2>1, MountedAnswers DEF Provided
<1> QED
  BY <1>2, <1>3

LEMMA TokenAnswers ==
    ASSUME Started, ~RoutesUnusable, HasRoutes, conf.urlconf, conf.oauth,
           NEW t, t = [path |-> <<"oauth", "token">>, slash |-> TRUE],
           t.path \notin conf.healthchecks
    PROVE  Answer(Mounted, t) = Provided("frisian_mcp_oauth", t, "token")
<1>1. ~Hit(HealthLayer, t)
  BY DEF Hit, HealthLayer, Matches, Pattern
<1>2. ~Hit(RegisterLayer, t)
  BY DEF Hit, RegisterLayer, When, Matches, Pattern
<1>3. ~Hit(WellknownLayer, t)
  <2>1. \A d : ~IsUnder(t.path, <<WellKnown, d>>) /\ t.path # <<WellKnown, d>>
    <3>1. WellKnown # "oauth"
      BY Zenon DEF WellKnown
    <3>2. t.path = <<"oauth", "token">> /\ Len(t.path) = 2 /\ t.path[1] = "oauth"
      OBVIOUS
    <3>3. SubSeq(t.path, 1, 2) = t.path
      <4>1. t.path \in Seq({"oauth", "token"})
        BY <3>2
      <4>2. IsUnder(t.path, t.path)
        BY <4>1, UnderItself
      <4> QED
        BY <3>2, <4>2 DEF IsUnder
    <3>4. \A d : Len(<<WellKnown, d>>) = 2 /\ <<WellKnown, d>>[1] = WellKnown
      OBVIOUS
    <3>5. \A d : t.path # <<WellKnown, d>>
      BY ONLY <3>1, <3>2, <3>4
    <3> QED
      BY <3>3, <3>4, <3>5 DEF IsUnder
  <2>2. \A p \in WellknownUrls : ~Matches(p, t)
    <3>1. \A p \in WellknownUrls : \E d : p.kind \in {"bare", "below"} /\ p.path = <<WellKnown, d>>
      BY DEF WellknownUrls, Pattern
    <3> QED
      BY <2>1, <3>1 DEF Matches
  <2> QED
    BY <2>2 DEF Hit, WellknownLayer, When
<1>4. ~Hit(RouteLayer, t)
  <2>1. t.path \in Seq(Range(t.path)) /\ IsUnder(t.path, <<"oauth">>)
    <3>1. t.path = <<"oauth", "token">> /\ Len(t.path) = 2
      OBVIOUS
    <3>2. t.path \in Seq({"oauth", "token"})
      BY <3>1
    <3>3. t.path \in [1..Len(t.path) -> {"oauth", "token"}] /\ Len(t.path) \in Nat
      BY <3>2, LenProperties
    <3>4. t.path \in Seq(Range(t.path))
      <4>1. t.path \in [1..Len(t.path) -> Range(t.path)]
        BY <3>3 DEF Range
      <4> QED
        BY ONLY <3>3, <4>1, SeqDef
    <3>5. IsUnder(t.path, t.path)
      BY <3>2, UnderItself
    <3>6. IsUnder(t.path, <<"oauth">>)
      BY ONLY <3>1, <3>2, <3>5, UnderItself
    <3> QED
      BY <3>4, <3>6
  <2> QED
    BY <2>1, RouteMisses DEF Reserved
<1>5. Hit(OAuthUrls, t) /\ Serves(OAuthUrls, t, "token")
  <2>1. Hit(OAuthUrls, t)
    <3> DEFINE p == Pattern("slashed", <<"oauth", "token">>, "token", "frisian_mcp_oauth")
    <3>1. p \in OAuthUrls
      BY DEF OAuthUrls
    <3>2. Matches(p, t)
      BY DEF Matches, Pattern
    <3> QED
      BY <3>1, <3>2 DEF Hit
  <2>2. Serves(OAuthUrls, t, "token")
    BY DEF Serves, OAuthUrls, Matches, Pattern
  <2> QED
    BY <2>1, <2>2
<1>6. CASE Includes(conf.host, "frisian_mcp_oauth")
  <2>1. ~Hit(OAuthLayer, t)
    BY <1>6 DEF Hit, OAuthLayer, When
  <2> QED
    BY <1>1, <1>2, <1>3, <1>4, <1>6, <2>1, MountedAnswers DEF Provided
<1>7. CASE ~Includes(conf.host, "frisian_mcp_oauth")
  <2>1. OAuthLayer = OAuthUrls
    BY <1>7 DEF OAuthLayer, When
  <2> QED
    BY <1>1, <1>2, <1>3, <1>5, <1>7, <2>1, MountedAnswers DEF Provided
<1> QED
  BY <1>6, <1>7

\* Every configured route and every endpoint that the package mounts answers at its own path,
\* and endpoints that the host has included answer as they did (validate_route_paths, and the
\* installers of apps.py).
THEOREM MountsAnswer == Spec => []EveryMountAnswers
<1>1. Started => EveryMountAnswers
  <2> SUFFICES ASSUME Started, Up, conf.urlconf, HasRoutes
               PROVE  /\ \A n \in Configured, slash \in BOOLEAN :
                             Served(Target(Block(n).path.path, slash)) = n
                      /\ \A p \in conf.healthchecks \ {conf.prefix} : Served(Target(p, TRUE)) = "ok"
                      /\ conf.oauth =>
                             /\ TokenTarget.path \notin conf.healthchecks \cup {conf.prefix} =>
                                    Served(TokenTarget) = Provided("frisian_mcp_oauth", TokenTarget, "token")
                             /\ Served(MetadataTarget) =
                                    Provided("frisian_mcp_oauth_wellknown", MetadataTarget,
                                             "oauth-authorization-server")
    BY Zenon DEF EveryMountAnswers
  <2>1. ~RoutesUnusable /\ table = Mounted
    BY AcceptedIsUsable DEF Started
  <2>2. ASSUME NEW n \in Configured, NEW slash \in BOOLEAN
        PROVE  Served(Target(Block(n).path.path, slash)) = n
    <3> DEFINE t == Rewritten(Target(Block(n).path.path, slash))
    <3>1. t.path = Block(n).path.path
      BY DEF Rewritten, Target
    <3>2. Answer(Mounted, t) = n
      <4> HIDE DEF t
      <4> QED
        BY <2>1, <3>1, RouteAnswers
    <3> QED
      BY <2>1, <3>2 DEF Served
  <2>3. ASSUME NEW p \in conf.healthchecks \ {conf.prefix}
        PROVE  Served(Target(p, TRUE)) = "ok"
    <3> DEFINE t == [path |-> p, slash |-> TRUE]
    <3>1. t.path \in conf.healthchecks /\ t.slash /\ Rewritten(Target(p, TRUE)) = t
      BY DEF Rewritten, Target
    <3>2. Answer(Mounted, t) = "ok"
      <4> HIDE DEF t
      <4> QED
        BY <3>1, HealthAnswers
    <3> QED
      BY <2>1, <3>1, <3>2 DEF Served
  <2>4. ASSUME conf.oauth, TokenTarget.path \notin conf.healthchecks \cup {conf.prefix}
        PROVE  Served(TokenTarget) = Provided("frisian_mcp_oauth", TokenTarget, "token")
    <3>1. TokenTarget = [path |-> <<"oauth", "token">>, slash |-> TRUE]
      BY DEF TokenTarget, Target
    <3>2. Rewritten(TokenTarget) = TokenTarget
      <4>1. (TokenTarget.slash /\ TokenTarget.path # conf.prefix) = TRUE
        BY <2>4, <3>1
      <4> QED
        BY <3>1, <4>1 DEF Rewritten
    <3> QED
      BY <2>1, <2>4, <3>1, <3>2, TokenAnswers DEF Served
  <2>5. ASSUME conf.oauth
        PROVE  Served(MetadataTarget) = Provided("frisian_mcp_oauth_wellknown", MetadataTarget,
                                                 "oauth-authorization-server")
    <3>1. /\ "oauth-authorization-server" \in Metadata
          /\ MetadataTarget = [path |-> <<WellKnown, "oauth-authorization-server">>, slash |-> FALSE]
      BY Zenon DEF Metadata, MetadataTarget, Target
    <3>2. PICK d \in Metadata : d = "oauth-authorization-server"
      BY <3>1, Zenon
    <3>3. /\ <<>> \in Seq(Range(<<>>))
          /\ <<WellKnown, d>> \o <<>> = <<WellKnown, d>>
      OBVIOUS
    <3>4. MetadataTarget = [path |-> <<WellKnown, d>> \o <<>>, slash |-> FALSE]
      BY <3>1, <3>2, <3>3, Zenon
    <3>5. Rewritten(MetadataTarget) = MetadataTarget
      <4>1. MetadataTarget.slash = FALSE
        BY <3>4
      <4> QED
        BY <3>4, <4>1 DEF Rewritten
    <3>6. Answer(Mounted, MetadataTarget) = Provided("frisian_mcp_oauth_wellknown", MetadataTarget, d)
      BY <2>1, <2>5, <3>3, <3>4, MetadataAnswers
    <3> QED
      BY <2>1, <3>2, <3>5, <3>6, Zenon DEF Served
  <2> QED
    BY <2>2, <2>3, <2>4, <2>5, Zenon
<1> QED
  BY <1>1, StartsChecked, PTL

-----------------------------------------------------------------------------
(* Where a challenge leads. *)

LEMMA Challenge ==
    ASSUME Started, ~RoutesUnusable, NEW n \in ProtectedResources
    PROVE  LET path == Block(n).path.path
               url == ChallengeMetadataUrl(path)
           IN  /\ HasRoutes
               /\ path \in Seq(Range(path))
               /\ url = [path |-> MetadataPrefix \o path, slash |-> FALSE]
               /\ Rewritten(url) = url
               /\ Described(url) = {n}
<1> DEFINE path == Block(n).path.path
           url == [path |-> MetadataPrefix \o path, slash |-> FALSE]
           suffix == SubSeq(url.path, 3, Len(url.path))
<1>1. n \in Configured /\ \A m \in ProtectedResources : m \in Configured
  BY DEF ProtectedResources
<1>2. /\ path \in Seq(Range(path)) /\ path # <<>> /\ HasRoutes
      /\ \A m \in Configured : Block(m).path.path = path => m = n
  BY <1>1, RoutePath
<1>3. ResourceForPath(path) = {n}
  BY <1>1, <1>2 DEF ResourceForPath
<1>4. ChallengeMetadataUrl(path) = url
  BY <1>3 DEF ChallengeMetadataUrl
<1>5. Rewritten(url) = url
  <2>1. url.slash = FALSE
    OBVIOUS
  <2> QED
    BY <2>1 DEF Rewritten
<1>6. suffix = path
  <2>1. PICK head : MetadataPrefix = <<WellKnown, head>>
    BY Zenon DEF MetadataPrefix
  <2> DEFINE All == Range(path) \cup {WellKnown, head}
  <2>2. path \in Seq(All) /\ <<WellKnown, head>> \in Seq(All)
    BY <1>2
  <2> HIDE DEF path, All
  <2>3. /\ url.path = <<WellKnown, head>> \o path
        /\ url.path \in Seq(All) /\ Len(url.path) = 2 + Len(path) /\ Len(path) \in Nat
        /\ \A i \in 1..Len(path) : url.path[i + 2] = path[i]
    BY <2>1, <2>2
  <2> HIDE DEF url
  <2>4. /\ suffix \in Seq(All) /\ Len(suffix) = Len(path)
        /\ \A i \in 1..Len(suffix) : suffix[i] = url.path[i + 2]
    BY <2>3, SubSeqProperties
  <2> HIDE DEF suffix
  <2> QED
    BY <2>2, <2>3, <2>4, SeqEqual
<1>7. Len(MetadataPrefix) + 1 = 3
  BY DEF MetadataPrefix
<1> HIDE DEF suffix
<1>8. Described(url) = {n}
  <2>1. SubSeq(url.path, Len(MetadataPrefix) + 1, Len(url.path)) = path
    BY <1>6, <1>7 DEF suffix
  <2> QED
    BY <1>2, <1>3, <2>1 DEF Described
<1> QED
  BY <1>2, <1>4, <1>5, <1>8

LEMMA ChallengeAnswers ==
    ASSUME Started, ~RoutesUnusable, conf.urlconf,
           conf.oauth \/ Includes(conf.host, "frisian_mcp_oauth_wellknown"),
           NEW n \in ProtectedResources, NEW url, url = ChallengeMetadataUrl(Block(n).path.path)
    PROVE  Answer(Mounted, url) =
               Provided("frisian_mcp_oauth_wellknown", url, "oauth-protected-resource")
<1>1. PICK d \in Metadata : d = "oauth-protected-resource" /\ MetadataPrefix = <<WellKnown, d>>
  BY Zenon DEF Metadata, MetadataPrefix
<1>2. /\ HasRoutes
      /\ Block(n).path.path \in Seq(Range(Block(n).path.path))
      /\ url = [path |-> <<WellKnown, d>> \o Block(n).path.path, slash |-> FALSE]
  BY <1>1, Challenge
<1>3. Answer(Mounted, url) = Provided("frisian_mcp_oauth_wellknown", url, d)
  BY <1>2, MetadataAnswers
<1> QED
  BY <1>1, <1>3, Zenon

\* A refused client is led to a document that is there, and that describes the route that
\* refused it and no other (route_resources.py, the challenge of views.py).
THEOREM ChallengesLeadBack == Spec => []ChallengeLeadsBack
<1>1. Started => ChallengeLeadsBack
  <2> SUFFICES ASSUME Started, Up, conf.urlconf, conf.oauth, NEW n \in ProtectedResources,
                      NEW url, url = ChallengeMetadataUrl(Block(n).path.path)
               PROVE  /\ Served(url) = Provided("frisian_mcp_oauth_wellknown", url,
                                                "oauth-protected-resource")
                      /\ Described(url) = {n}
    BY Zenon DEF ChallengeLeadsBack
  <2>1. ~RoutesUnusable /\ table = Mounted
    BY AcceptedIsUsable DEF Started
  <2>2. Rewritten(url) = url /\ Described(url) = {n}
    BY <2>1, Challenge
  <2>3. Answer(Mounted, url) = Provided("frisian_mcp_oauth_wellknown", url, "oauth-protected-resource")
    BY <2>1, ChallengeAnswers
  <2> QED
    BY <2>1, <2>2, <2>3, Zenon DEF Served
<1> QED
  BY <1>1, StartsChecked, PTL

-----------------------------------------------------------------------------
(* What the silence of mcp_doctor means. *)

Quiet ==
    /\ Ran /\ HasRoutes /\ ~RoutesUnusable
    /\ ~Reported("metadata not mounted") /\ ~Reported("undiscoverable")

\* What the two sections of the command have seen.
Discoverable ==
    /\ WellknownUrlMounted("oauth-authorization-server")
    /\ WellknownUrlMounted("oauth-protected-resource") /\ ProtectedResources # {} =>
           conf.publicDiscovery

Silent ==
    /\ ~conf.enabled => table = conf.host
    /\ verdict.exit # "running" => phase # "refused"
    /\ Quiet => Discoverable

LEMMA NothingReported ==
    ASSUME HasRoutes, ~RoutesUnusable,
           ~\E r \in Diagnosis : r.id = "metadata not mounted",
           ~\E r \in Diagnosis : r.id = "undiscoverable"
    PROVE  Discoverable
<1>1. CheckUrlMounting \subseteq Diagnosis /\ CheckDiscoveryReachable \subseteq Diagnosis
  BY DEF Diagnosis
<1>2. WellknownUrlMounted("oauth-authorization-server")
  <2>1. ASSUME ~WellknownUrlMounted("oauth-authorization-server") PROVE FALSE
    <3>1. Warning("metadata not mounted") \subseteq Diagnosis
      BY <1>1, <2>1 DEF CheckUrlMounting, When
    <3> QED
      BY <3>1 DEF Warning
  <2> QED
    BY <2>1
<1>3. ~SchemaFault /\ \A n \in ProtectedResources : ~Unnormalizable(Block(n).path)
  BY DEF RoutesUnusable, PathFault, ProtectedResources
<1>4. ASSUME WellknownUrlMounted("oauth-protected-resource"), ProtectedResources # {},
             ~conf.publicDiscovery
      PROVE  FALSE
  <2>1. CheckDiscoveryReachable = Warning("undiscoverable")
    BY <1>3, <1>4, Zenon DEF CheckDiscoveryReachable, When
  <2> QED
    BY <1>1, <2>1 DEF Warning
<1> QED
  BY <1>2, <1>4 DEF Discoverable

LEMMA QuietReads ==
    ASSUME conf' = conf, table' = table
    PROVE  /\ HasRoutes' = HasRoutes /\ RoutesUnusable' = RoutesUnusable
           /\ Discoverable' = Discoverable
<1>1. HasRoutes' = HasRoutes
  BY DEF HasRoutes
<1>2. RoutesUnusable' = RoutesUnusable
  BY DEF RoutesUnusable, SchemaFault, Configured, Unparsable, Block, PathFault, Unnormalizable,
         ClaimsReserved, Reserved
<1>3. Discoverable' = Discoverable
  BY DEF Discoverable, WellknownUrlMounted, Named, ProtectedResources, Configured,
         AnonymousReachable, EffectiveClasses
<1> QED
  BY <1>1, <1>2, <1>3

LEMMA StepKeepsSilent == Gate /\ Silent /\ [Next]_doctorVars => Silent'
<1> SUFFICES ASSUME Gate, Silent, [Next]_doctorVars PROVE Silent'
  OBVIOUS
<1>1. CASE verdict.exit # "running"
  <2>1. UNCHANGED doctorVars
    BY <1>1, VerdictIsFinal
  <2>2. conf' = conf /\ table' = table /\ phase' = phase /\ verdict' = verdict
    BY <2>1 DEF doctorVars, bootVars
  <2>3. Ran' = Ran /\ \A id : Reported(id)' = Reported(id)
    BY <2>2 DEF Ran, Reported
  <2>4. HasRoutes' = HasRoutes /\ RoutesUnusable' = RoutesUnusable
    BY <2>2, QuietReads
  <2>5. Quiet' = Quiet
    BY ONLY <2>3, <2>4, Zenon DEF Quiet
  <2> QED
    BY <2>2, <2>5, QuietReads DEF Silent
<1>2. ASSUME verdict.exit = "running"
      PROVE  (~conf.enabled => table = conf.host)'
  <2>1. conf' = conf
    BY Steps DEF ReadyOff, ReadyRefused, ReadyMounts
  <2>2. CASE ReadyOff \/ ReadyRefused
    BY <2>1, <2>2 DEF ReadyOff, ReadyRefused, Silent
  <2>3. CASE ReadyMounts
    BY <2>1, <2>3 DEF ReadyMounts
  <2>4. CASE UNCHANGED <<conf, table>>
    BY <2>4 DEF Silent
  <2> QED
    BY <2>2, <2>3, <2>4, Steps
<1>3. CASE verdict' = verdict /\ verdict.exit = "running"
  BY <1>2, <1>3 DEF Silent, Quiet, Ran
<1>4. CASE CommandRefused /\ verdict.exit = "running"
  <2>1. verdict'.exit = "refused" /\ phase \in {"off", "mounted"} /\ phase' = phase
    BY <1>4 DEF CommandRefused, bootVars
  <2> QED
    BY <1>2, <1>4, <2>1 DEF Silent, Quiet, Ran
<1>5. CASE Reports
  <2>1. /\ phase \in {"finalized", "failed"}  /\ verdict.exit = "running"
        /\ verdict'.reports = Diagnosis
        /\ conf' = conf /\ table' = table /\ phase' = phase
    BY <1>5 DEF Reports, bootVars
  <2>2. Quiet' => Discoverable'
    <3>1. SUFFICES ASSUME Quiet' PROVE Discoverable
      BY <2>1, QuietReads, Zenon
    <3>2. HasRoutes' = HasRoutes /\ RoutesUnusable' = RoutesUnusable
      BY <2>1, QuietReads
    <3>3. HasRoutes /\ ~RoutesUnusable
      BY ONLY <3>1, <3>2, Zenon DEF Quiet
    <3>4. /\ ~\E r \in verdict'.reports : r.id = "metadata not mounted"
          /\ ~\E r \in verdict'.reports : r.id = "undiscoverable"
      BY <3>1, Zenon DEF Quiet, Reported
    <3> QED
      BY <2>1, <3>3, <3>4, NothingReported
  <2> QED
    BY <1>2, <2>1, <2>2 DEF Silent
<1> QED
  BY <1>1, <1>3, <1>4, <1>5
  DEF Next, Boots, FirstRequest, ForcesDiscovery, Scans, doctorVars

\* The package mounts the metadata only where it is to be an authorization server and the host
\* has not, and then all of them.
LEMMA NamedByMount ==
    ASSUME Started, HasRoutes, conf.urlconf, NEW view \in Metadata
    PROVE  Named(Mounted, view) <=>
               \/ conf.oauth /\ ~Includes(conf.host, "frisian_mcp_oauth_wellknown")
               \/ Named(conf.host, view)
<1> DEFINE Bare(p) ==
        p.app = "frisian_mcp_oauth_wellknown" /\ p.kind = "bare" /\ p.serves = view
<1>1. PICK routes, oauth, wellknown, register : Layered(routes, oauth, wellknown, register)
  BY MountedLayers
<1>2. \A p : Held(Mounted, p) <=> p \in HealthLayer \/ Held(register, p)
  BY <1>1, FrontHolds DEF Layered
<1>3. \A p : Held(register, p) <=> p \in RegisterLayer \/ Held(wellknown, p)
  BY <1>1, FrontHolds DEF Layered
<1>4. \A p : Held(wellknown, p) <=> p \in WellknownLayer \/ Held(oauth, p)
  BY <1>1, FrontHolds DEF Layered
<1>5. \A p : Held(oauth, p) <=> p \in OAuthLayer \/ Held(routes, p)
  BY <1>1, FrontHolds DEF Layered
<1>6. \A p : Held(routes, p) <=> p \in RouteLayer \/ Held(conf.host, p)
  BY <1>1, FrontHolds DEF Layered
<1>7. \A p \in HealthLayer \cup RegisterLayer \cup OAuthLayer \cup RouteLayer : ~Bare(p)
  BY DEF HealthLayer, RegisterLayer, OAuthLayer, OAuthUrls, RouteLayer, When, Pattern
<1>8. (\E p \in WellknownLayer : Bare(p)) <=>
          conf.oauth /\ ~Includes(conf.host, "frisian_mcp_oauth_wellknown")
  <2>1. \E p \in WellknownUrls : Bare(p)
    <3>1. Pattern("bare", <<WellKnown, view>>, view, "frisian_mcp_oauth_wellknown") \in WellknownUrls
      BY DEF WellknownUrls
    <3> QED
      BY <3>1 DEF Pattern
  <2> QED
    BY <2>1 DEF WellknownLayer, When
<1>9. \A layers : Named(layers, view) <=> \E p : Held(layers, p) /\ Bare(p)
  BY DEF Named, Held
<1> HIDE DEF Bare
<1> QED
  BY <1>2, <1>3, <1>4, <1>5, <1>6, <1>7, <1>8, <1>9

\* Where mcp_doctor has nothing to say about the metadata, every refused client is led to a
\* public document that describes the route that refused it, unless the host has written the
\* metadata patterns itself and left out some of the protected resources'
\* (_check_url_mounting, _check_discovery_reachable).
THEOREM SilenceIsTrue == Spec => []SilenceMeansDiscoverable
<1> DEFINE app == "frisian_mcp_oauth_wellknown"
           pr == "oauth-protected-resource"
           as == "oauth-authorization-server"
<1>1. Init => Started /\ Gate /\ Silent
  <2>1. Init => Gate
    BY DEF Init, Gate, Passes
  <2>2. Init => Silent
    BY DEF Init, AuditInit, ScanInit, BootInit, Silent, Quiet, Ran
  <2> QED
    BY <2>1, <2>2, StartedAtInit
<1>2. Started /\ Gate /\ Silent => SilenceMeansDiscoverable
  <2> SUFFICES ASSUME Started, Gate, Silent, Quiet, NEW n \in ProtectedResources, ~LeftOut(n)
               PROVE  Leads(n)
    BY Zenon DEF SilenceMeansDiscoverable, Quiet
  <2>1. PICK url : url = ChallengeMetadataUrl(Block(n).path.path)
    OBVIOUS
  <2>2. /\ ~RoutesUnusable /\ Named(table, as)
        /\ Named(table, pr) => conf.publicDiscovery
    BY DEF Silent, Discoverable, Quiet, WellknownUrlMounted
  <2>3. Rewritten(url) = url /\ Described(url) = {n} /\ HasRoutes
    BY <2>1, <2>2, Challenge
  <2>4. Includes(conf.host, app) => Named(conf.host, pr) /\ Answer(conf.host, url) = pr
    BY <2>1 DEF LeftOut
  <2>5. \A view : Named(conf.host, view) => Includes(conf.host, app)
    BY DEF Named, Includes
  <2>6. as \in Metadata /\ pr \in Metadata
    BY DEF Metadata
  <2>7. Named(table, pr) /\ Answer(table, url) = pr
    <3>1. phase # "refused" /\ phase # "new"
      BY DEF Quiet, Ran, Gate, Silent
    <3>2. CASE conf.enabled /\ conf.urlconf
      <4>1. table = Mounted
        BY <3>1, <3>2 DEF Started, Up
      <4>2. conf.oauth \/ Includes(conf.host, app)
        BY <2>2, <2>3, <2>5, <2>6, <3>2, <4>1, NamedByMount
      <4>3. Named(Mounted, pr)
        BY <2>3, <2>4, <2>6, <3>2, <4>2, NamedByMount
      <4>4. Answer(Mounted, url) = Provided(app, url, pr)
        BY <2>1, <2>2, <3>2, <4>2, ChallengeAnswers
      <4> QED
        BY <2>4, <4>1, <4>3, <4>4 DEF Provided
    <3>3. CASE ~conf.enabled \/ ~conf.urlconf
      <4>1. table = conf.host
        BY <3>1, <3>3 DEF Silent, Started, Up, Mounted
      <4> QED
        BY <2>2, <2>4, <2>5, <4>1
    <3> QED
      BY <3>2, <3>3
  <2> QED
    BY <2>1, <2>2, <2>3, <2>7, Zenon DEF Served, Leads
<1> QED
  BY <1>1, <1>2, StepKeepsStarted, StepKeepsGate, StepKeepsSilent, PTL DEF Spec

-----------------------------------------------------------------------------
(* What the walk finds, and what the registry makes of it. *)

Claims(d) == <<d.class, d.action>>

\* Each action of a class has been found once, and the walk knows which.
FoundOnce ==
    /\ found \in Seq(Range(found))
    /\ seen = {Claims(d) : d \in EveryDefinition}
    /\ \A d \in EveryDefinition : d.class \in DOMAIN ViewSets
    /\ \A i, j \in DOMAIN found : \A d \in found[i], e \in found[j] :
           Claims(d) = Claims(e) => i = j /\ d = e

\* What has been chosen under a name was found under it, at an API URL if there was one.
Chosen ==
    /\ \A n \in DOMAIN merged : merged[n] \in EveryDefinition /\ merged[n].name = n
    /\ \A d \in EveryDefinition : d.name \in DOMAIN merged /\ (d.api => merged[d.name].api)

\* Relations are those of a tool that was found under the name.
Recorded ==
    \A n \in DOMAIN relations :
        \E d \in EveryDefinition :
            d.name = n /\ relations[n] = Narrowed(d.class, d.action, n)

\* A pattern is still to come, or its actions have been found.
Onward ==
    phase = "scanning" \/ Walked =>
        /\ todo \in Seq(Range(todo)) /\ Range(todo) \subseteq Range(conf.urls)
        /\ Walked => todo = <<>>
        /\ NothingRaises => \A p \in Range(conf.urls) : p \in Range(todo) \/ Covered(p)

EntryFields == {"class", "action", "tier", "api", "method", "members", "hidden"}

\* An entry that stands for an action stands for one that was found under its name.
Stands(n, entry) ==
    /\ DOMAIN entry = EntryFields
    /\ entry.action # "none" =>
           \E d \in EveryDefinition : d.name = n /\ d.class = entry.class /\ d.action = entry.action

Genuine ==
    \A n \in DOMAIN registered :
        Stands(n, registered[n]) /\ registered[n].members \subseteq DOMAIN registered

ApiFirst ==
    \A d \in EveryDefinition : d.api /\ Kept(d.name) /\ d.name \notin Installed => registered[d.name].api

ScanInv ==
    /\ \E i \in DOMAIN Configurations : conf \in Configurations[i]
    /\ FoundOnce /\ Chosen /\ Recorded /\ Onward /\ Genuine
    /\ Walked => ApiFirst

-----------------------------------------------------------------------------

LEMMA AppendTo ==
    ASSUME NEW f, f \in Seq(Range(f)), NEW x
    PROVE  LET g == Append(f, x) IN
           /\ g \in Seq(Range(g))
           /\ Range(g) = Range(f) \cup {x}
           /\ DOMAIN g = DOMAIN f \cup {Len(f) + 1} /\ Len(f) + 1 \notin DOMAIN f
           /\ g[Len(f) + 1] = x
           /\ \A i \in DOMAIN f : g[i] = f[i]
<1> DEFINE g == Append(f, x)
<1>1. DOMAIN f = 1..Len(f) /\ Len(f) \in Nat
  OBVIOUS
<1>2. f \in Seq(Range(f) \cup {x})
  <2>1. \A i \in 1..Len(f) : f[i] \in Range(f)
    BY <1>1 DEF Range
  <2> QED
    BY <1>1, <2>1
<1>3. /\ g \in Seq(Range(f) \cup {x}) /\ Len(g) = Len(f) + 1
      /\ g[Len(f) + 1] = x /\ \A i \in 1..Len(f) : g[i] = f[i]
  BY <1>2
<1>4. DOMAIN g = 1..(Len(f) + 1)
  BY <1>3
<1> HIDE DEF g
<1>5. DOMAIN g = DOMAIN f \cup {Len(f) + 1} /\ Len(f) + 1 \notin DOMAIN f
  BY <1>1, <1>4
<1>6. Range(g) = Range(f) \cup {x}
  BY <1>1, <1>3, <1>5 DEF Range
<1> QED
  BY <1>1, <1>3, <1>5, <1>6 DEF g

LEMMA TailOf ==
    ASSUME NEW s, s \in Seq(Range(s)), s # <<>>
    PROVE  /\ Head(s) \in Range(s) /\ Tail(s) \in Seq(Range(Tail(s)))
           /\ Range(s) = {Head(s)} \cup Range(Tail(s))
<1>1. DOMAIN s = 1..Len(s) /\ Len(s) \in Nat \ {0}
  BY EmptySeq
<1>2. Head(s) = s[1] /\ Head(s) \in Range(s)
  BY <1>1 DEF Range
<1> DEFINE t == Tail(s)
<1>3. t \in Seq(Range(s)) /\ Len(t) = Len(s) - 1 /\ DOMAIN t = 1..(Len(s) - 1)
      /\ \A i \in 1..(Len(s) - 1) : t[i] = s[i + 1]
  BY <1>1
<1> HIDE DEF t
<1>4. Range(s) = {Head(s)} \cup Range(t)
  <2>1. ASSUME NEW i \in DOMAIN s, i # 1 PROVE \E j \in DOMAIN t : t[j] = s[i]
    <3>1. i - 1 \in DOMAIN t /\ (i - 1) + 1 = i
      BY <1>1, <1>3, <2>1
    <3>2. t[i - 1] = s[(i - 1) + 1]
      BY ONLY <1>3, <3>1
    <3> QED
      BY <3>1, <3>2
  <2>2. \A i \in DOMAIN t : i + 1 \in DOMAIN s /\ t[i] = s[i + 1]
    BY <1>1, <1>3
  <2>3. \A x \in Range(s) : x = Head(s) \/ x \in Range(t)
    BY <1>2, <2>1 DEF Range
  <2>4. \A x \in Range(t) : x \in Range(s)
    BY <2>2 DEF Range
  <2> QED
    BY <1>2, <2>3, <2>4
<1>5. t \in Seq(Range(t))
  <2>1. \A i \in 1..Len(t) : t[i] \in Range(t)
    BY <1>3 DEF Range
  <2> QED
    BY <1>3, <2>1
<1> QED
  BY <1>2, <1>4, <1>5 DEF t

-----------------------------------------------------------------------------

LEMMA NewDefinitions ==
    ASSUME NEW p
    PROVE  /\ \A d \in Definitions(p) :
                  /\ d.class = p.class /\ d.action \in NewActions(p) /\ Claims(d) \notin seen
                  /\ \A e \in Definitions(p) : /\ d.api <=> e.api
                                               /\ Claims(d) = Claims(e) => d = e
           /\ \A a \in NewActions(p) : \E d \in Definitions(p) : d.class = p.class /\ d.action = a
<1>1. \A a : Definition(p, a).class = p.class /\ Definition(p, a).action = a
             /\ (Definition(p, a).api <=> "api" \in Range(p.path))
  BY DEF Definition
<1>2. \A a \in NewActions(p) : <<p.class, a>> \notin seen
  BY DEF NewActions, Taken
<1>3. \A d : d \in Definitions(p) <=> \E a \in NewActions(p) : d = Definition(p, a)
  BY DEF Definitions
<1> QED
  BY <1>1, <1>2, <1>3 DEF Claims

\* The merge keeps what it knows, and an API tool once it has one.
LEMMA Merges ==
    ASSUME Chosen, NEW defs, \A d, e \in defs : d.api <=> e.api
    PROVE  LET next == MergedWith(defs) IN
           /\ \A n \in DOMAIN next : next[n] \in EveryDefinition \cup defs /\ next[n].name = n
           /\ \A d \in EveryDefinition \cup defs :
                  d.name \in DOMAIN next /\ (d.api => next[d.name].api)
<1> DEFINE next == MergedWith(defs)
           names == {d.name : d \in defs}
           of(n) == CHOOSE d \in defs : d.name = n
<1>1. DOMAIN next = DOMAIN merged \cup names
  BY DEF MergedWith
<1>2. \A n \in DOMAIN next :
          next[n] = IF n \notin names THEN merged[n]
                    ELSE IF n \notin DOMAIN merged THEN of(n) ELSE PreferApiTool(merged[n], of(n))
  BY DEF MergedWith
<1>3. \A n \in names : of(n) \in defs /\ of(n).name = n
  OBVIOUS
<1>4. \A n \in DOMAIN merged : merged[n] \in EveryDefinition /\ merged[n].name = n
  BY DEF Chosen
<1>5. \A d \in defs : d.name \in names
  OBVIOUS
<1> HIDE DEF next, of, names
<1>6. \A n \in DOMAIN next : next[n] \in EveryDefinition \cup defs /\ next[n].name = n
  BY <1>1, <1>2, <1>3, <1>4 DEF PreferApiTool
<1>7. ASSUME NEW d \in EveryDefinition PROVE d.name \in DOMAIN next /\ (d.api => next[d.name].api)
  <2>1. d.name \in DOMAIN merged /\ (d.api => merged[d.name].api)
    BY DEF Chosen
  <2> QED
    BY <1>1, <1>2, <2>1 DEF PreferApiTool
<1>8. ASSUME NEW d \in defs PROVE d.name \in DOMAIN next /\ (d.api => next[d.name].api)
  <2>1. d.name \in names /\ of(d.name) \in defs
    BY <1>3, <1>5
  <2>2. d.api => of(d.name).api
    BY <2>1
  <2> QED
    BY <1>1, <1>2, <2>1, <2>2 DEF PreferApiTool
<1> QED
  BY <1>6, <1>7, <1>8 DEF next

LEMMA Examines ==
    ASSUME Recorded, NEW defs, NEW n \in DOMAIN Examined(defs)
    PROVE  \E d \in EveryDefinition \cup defs :
               d.name = n /\ Examined(defs)[n] = Narrowed(d.class, d.action, n)
<1> DEFINE writes == {d \in defs : d.method \in {"post", "put"}}
           names == {d.name : d \in writes}
           of(m) == CHOOSE d \in writes : d.name = m
<1>1. n \in DOMAIN relations \cup names
  BY DEF Examined
<1>2. Examined(defs)[n] = IF n \in names THEN Narrowed(of(n).class, of(n).action, n) ELSE relations[n]
  BY DEF Examined
<1>3. CASE n \in names
  <2>1. of(n) \in writes /\ of(n).name = n
    BY <1>3
  <2>2. of(n) \in defs
    BY <2>1
  <2> HIDE DEF of
  <2> QED
    BY <1>2, <1>3, <2>1, <2>2
<1>4. CASE n \notin names
  BY <1>1, <1>2, <1>4 DEF Recorded
<1> QED
  BY <1>3, <1>4

LEMMA SettingsStayScan ==
    ASSUME conf' = conf
    PROVE  /\ \A c, a, n : Narrowed(c, a, n)' = Narrowed(c, a, n)
           /\ NothingRaises' = NothingRaises
  BY DEF Narrowed, RequiredFields, Collected, SchemaFields, NothingRaises

LEMMA PatternKeeps ==
    ASSUME ScanInv, ScanPattern
    PROVE  ScanInv'
<1> DEFINE p == Head(todo)
           defs == Definitions(p)
           after == EveryDefinition \cup defs
<1>1. /\ phase = "scanning" /\ todo # <<>> /\ Eligible(p.class)
      /\ seen' = seen \cup {<<p.class, a>> : a \in NewActions(p)}
      /\ found' = Append(found, defs) /\ merged' = MergedWith(defs)
      /\ relations' = Examined(defs)
      /\ todo' = Tail(todo) /\ registered' = registered /\ conf' = conf /\ phase' = phase
  BY DEF ScanPattern, bootVars
<1>2. /\ found \in Seq(Range(found))
      /\ seen = {Claims(d) : d \in EveryDefinition}
      /\ \A d \in EveryDefinition : d.class \in DOMAIN ViewSets
      /\ \A i, j \in DOMAIN found : \A d \in found[i], e \in found[j] :
             Claims(d) = Claims(e) => i = j /\ d = e
  BY DEF ScanInv, FoundOnce
<1>3. /\ \A d \in defs :
             /\ d.class = p.class /\ d.action \in NewActions(p) /\ Claims(d) \notin seen
             /\ \A e \in defs : (d.api <=> e.api) /\ (Claims(d) = Claims(e) => d = e)
      /\ \A a \in NewActions(p) : \E d \in defs : d.class = p.class /\ d.action = a
  BY NewDefinitions
<1>4. p \in Range(todo) /\ Tail(todo) \in Seq(Range(Tail(todo)))
      /\ Range(todo) = {p} \cup Range(Tail(todo)) /\ Range(todo) \subseteq Range(conf.urls)
  BY <1>1, TailOf DEF ScanInv, Onward
<1>5. p.class \in DOMAIN ViewSets
  BY <1>4, HostAssumption DEF ScanInv
<1>6. /\ found' \in Seq(Range(found')) /\ Range(found') = Range(found) \cup {defs}
      /\ DOMAIN found' = DOMAIN found \cup {Len(found) + 1} /\ Len(found) + 1 \notin DOMAIN found
      /\ found'[Len(found) + 1] = defs
      /\ \A i \in DOMAIN found : found'[i] = found[i]
  <2> HIDE DEF defs
  <2> QED
    BY <1>1, <1>2, AppendTo
<1> HIDE DEF defs, p
<1>7. EveryDefinition' = after
  BY <1>6 DEF EveryDefinition
<1> HIDE DEF after
<1>7a. \A d : d \in after <=> d \in EveryDefinition \/ d \in defs
  BY DEF after
<1>8. FoundOnce'
  <2>1. seen' = {Claims(d) : d \in after}
    <3>1. \A x : x \in seen' <=> x \in seen \/ \E a \in NewActions(p) : x = <<p.class, a>>
      BY <1>1
    <3>2. \A x : (\E a \in NewActions(p) : x = <<p.class, a>>) <=> \E d \in defs : x = Claims(d)
      BY <1>3 DEF Claims
    <3> QED
      BY <1>2, <1>7a, <3>1, <3>2
  <2>2. \A d \in after : d.class \in DOMAIN ViewSets
    BY <1>2, <1>3, <1>5, <1>7a
  <2>3. ASSUME NEW i \in DOMAIN found', NEW j \in DOMAIN found', NEW d \in found'[i], NEW e \in found'[j],
               Claims(d) = Claims(e)
        PROVE  i = j /\ d = e
    <3>1. \A k \in DOMAIN found : \A x \in found[k] : Claims(x) \in seen
      BY <1>2 DEF EveryDefinition, Range
    <3>2. i \in DOMAIN found \/ i = Len(found) + 1
      BY <1>6
    <3>3. j \in DOMAIN found \/ j = Len(found) + 1
      BY <1>6
    <3> QED
      BY <1>2, <1>3, <1>6, <2>3, <3>1, <3>2, <3>3
  <2> QED
    BY <1>6, <1>7, <2>1, <2>2, <2>3 DEF FoundOnce, Claims
<1>9. Chosen'
  <2>1. \A d, e \in defs : d.api <=> e.api
    BY <1>3
  <2> QED
    BY <1>1, <1>7, <2>1, Merges DEF Chosen, ScanInv, after
<1>10. Recorded'
  <2>1. \A n \in DOMAIN relations' :
            \E d \in after : d.name = n /\ relations'[n] = Narrowed(d.class, d.action, n)
    BY <1>1, Examines DEF ScanInv, after
  <2> QED
    BY <1>1, <1>7, <2>1, SettingsStayScan DEF Recorded
<1>11. Onward'
  <2>1. NothingRaises' = NothingRaises
    BY <1>1, SettingsStayScan
  <2>2. ASSUME NEW q, q = p PROVE Covered(q)'
    <3> SUFFICES ASSUME NEW a \in {b.action : b \in Range(p.bindings)}, Selected(p.class, a)
        PROVE  \E d \in after : d.class = p.class /\ d.action = a
      BY <1>7, <2>2 DEF Covered, Selected, Eligible, Range
    <3>1. CASE Taken(p, a)
      <4>1. <<p.class, a>> \in seen
        BY <3>1 DEF Taken
      <4> QED
        BY <1>2, <1>7a, <4>1 DEF Claims
    <3>2. CASE ~Taken(p, a)
      BY <1>3, <1>7a, <3>2 DEF NewActions
    <3> QED
      BY <3>1, <3>2
  <2>3. \A q : Covered(q) => Covered(q)'
    BY <1>7, <1>7a DEF Covered, Selected, Eligible, Range
  <2>4. NothingRaises => \A q \in Range(conf.urls) : q \in Range(todo) \/ Covered(q)
    BY <1>1 DEF ScanInv, Onward
  <2>5. NothingRaises => \A q \in Range(conf.urls) : q \in Range(Tail(todo)) \/ Covered(q)'
    BY <1>4, <2>2, <2>3, <2>4
  <2>6. ~Walked'
    BY <1>1 DEF Walked
  <2> QED
    BY <1>1, <1>4, <2>1, <2>5, <2>6 DEF Onward, Range
<1>12. Genuine'
  BY <1>1, <1>7, <1>7a DEF ScanInv, Genuine, Stands
<1> QED
  BY <1>1, <1>8, <1>9, <1>10, <1>11, <1>12 DEF ScanInv, Walked

-----------------------------------------------------------------------------
(* The registration. *)

LEMMA ToolsStand ==
    ASSUME ScanInv
    PROVE  /\ \A n \in DOMAIN WithTools :
                  Stands(n, WithTools[n]) /\ WithTools[n].members \subseteq DOMAIN WithTools
           /\ \A d \in EveryDefinition :
                  d.api /\ Kept(d.name) => d.name \in DOMAIN WithTools /\ WithTools[d.name].api
<1> DEFINE kept == {n \in DOMAIN merged : Kept(n)}
           entries == WithTools
<1>1. DOMAIN entries = DOMAIN registered \cup kept
  BY DEF WithTools
<1>2. \A n \in DOMAIN entries : entries[n] = IF n \in kept THEN Entry(merged[n]) ELSE registered[n]
  BY DEF WithTools
<1>3. \A n \in kept : n \in DOMAIN merged /\ Kept(n)
  OBVIOUS
<1>4. \A n \in DOMAIN merged : Kept(n) => n \in kept
  OBVIOUS
<1> HIDE DEF kept, entries
<1>5. \A d : /\ DOMAIN Entry(d) = EntryFields /\ Entry(d).class = d.class
             /\ Entry(d).action = d.action /\ Entry(d).api = d.api /\ Entry(d).members = {}
  BY DEF Entry, EntryFields
<1>6. ASSUME NEW n \in DOMAIN entries
      PROVE  Stands(n, entries[n]) /\ entries[n].members \subseteq DOMAIN entries
  <2>1. CASE n \in kept
    <3>1. merged[n] \in EveryDefinition /\ merged[n].name = n
      BY <1>3, <2>1 DEF ScanInv, Chosen
    <3>2. entries[n] = Entry(merged[n])
      BY <1>2, <2>1
    <3> QED
      BY <1>5, <3>1, <3>2 DEF Stands
  <2>2. CASE n \notin kept
    BY <1>1, <1>2, <2>2 DEF ScanInv, Genuine
  <2> QED
    BY <2>1, <2>2
<1>7. ASSUME NEW d \in EveryDefinition, d.api, Kept(d.name)
      PROVE  d.name \in DOMAIN entries /\ entries[d.name].api
  <2>1. d.name \in DOMAIN merged /\ merged[d.name].api
    BY <1>7 DEF ScanInv, Chosen
  <2>2. d.name \in kept
    BY <1>4, <1>7, <2>1
  <2>3. entries[d.name] = Entry(merged[d.name])
    BY <1>1, <1>2, <2>2
  <2>4. Entry(merged[d.name]).api
    BY <2>1 DEF Entry
  <2> QED
    BY <1>1, <2>2, <2>3, <2>4
<1> QED
  BY <1>6, <1>7 DEF entries

LEMMA GroupsStand ==
    ASSUME ScanInv
    PROVE  /\ \A n \in DOMAIN WithGroups :
                  Stands(n, WithGroups[n]) /\ WithGroups[n].members \subseteq DOMAIN WithGroups
           /\ DOMAIN WithTools \subseteq DOMAIN WithGroups
           /\ \A d \in EveryDefinition :
                  d.api /\ Kept(d.name) /\ d.name \notin Installed => WithGroups[d.name].api
<1> DEFINE tools == WithTools
           hidden(n) == \E g \in Installed : n \in MembersOf(g)
           entries == WithGroups
<1>1. DOMAIN entries = DOMAIN tools \cup Installed
  BY DEF WithGroups
<1>2. \A n \in DOMAIN entries : entries[n] = IF n \in Installed THEN GroupEntry(n)
                                             ELSE [tools[n] EXCEPT !.hidden = hidden(n)]
  BY DEF WithGroups
<1> HIDE DEF entries, tools, hidden
<1>3. /\ \A n \in DOMAIN tools : Stands(n, tools[n]) /\ tools[n].members \subseteq DOMAIN tools
      /\ \A d \in EveryDefinition :
             d.api /\ Kept(d.name) => d.name \in DOMAIN tools /\ tools[d.name].api
  BY ToolsStand DEF tools
<1>4. \A g : /\ DOMAIN GroupEntry(g) = EntryFields /\ GroupEntry(g).action = "none"
             /\ GroupEntry(g).members \subseteq DOMAIN tools
  BY DEF GroupEntry, EntryFields, MembersOf, tools
<1>5. ASSUME NEW n \in DOMAIN tools, n \notin Installed
      PROVE  /\ DOMAIN entries[n] = EntryFields /\ entries[n].class = tools[n].class
             /\ entries[n].action = tools[n].action /\ entries[n].api = tools[n].api
             /\ entries[n].members = tools[n].members
  <2>1. entries[n] = [tools[n] EXCEPT !.hidden = hidden(n)]
    BY <1>1, <1>2, <1>5
  <2>2. DOMAIN tools[n] = EntryFields
    BY <1>3 DEF Stands
  <2> QED
    BY <2>1, <2>2 DEF EntryFields
<1>6. ASSUME NEW n \in DOMAIN entries
      PROVE  Stands(n, entries[n]) /\ entries[n].members \subseteq DOMAIN entries
  <2>1. CASE n \in Installed
    BY <1>1, <1>2, <1>4, <2>1 DEF Stands
  <2>2. CASE n \notin Installed
    BY <1>1, <1>3, <1>5, <2>2 DEF Stands
  <2> QED
    BY <2>1, <2>2
<1>7. ASSUME NEW d \in EveryDefinition, d.api, Kept(d.name), d.name \notin Installed
      PROVE  entries[d.name].api
  BY <1>3, <1>5, <1>7
<1> QED
  BY <1>1, <1>6, <1>7 DEF entries, tools

LEMMA RegistrationKeeps ==
    ASSUME ScanInv, ScanFails \/ ScanEnds
    PROVE  ScanInv'
<1>1. /\ phase = "scanning" /\ todo = <<>> /\ phase' \in {"finalized", "failed"}
      /\ conf' = conf /\ todo' = todo /\ seen' = seen /\ found' = found /\ merged' = merged
      /\ relations' = relations
      /\ registered' = WithTools \/ registered' = WithGroups
  BY DEF ScanFails, ScanEnds
<1>2. EveryDefinition' = EveryDefinition
  BY <1>1 DEF EveryDefinition, Range
<1>3. FoundOnce' /\ Chosen'
  BY <1>1, <1>2 DEF ScanInv, FoundOnce, Chosen, Claims, Range
<1>4. Recorded'
  <2>1. \A n \in DOMAIN relations :
            \E d \in EveryDefinition : d.name = n /\ relations[n] = Narrowed(d.class, d.action, n)
    BY DEF ScanInv, Recorded
  <2> QED
    BY <1>1, <1>2, <2>1, SettingsStayScan DEF Recorded
<1>5. Onward'
  <2>1. NothingRaises => \A p \in Range(conf.urls) : p \in Range(todo) \/ Covered(p)
    BY <1>1 DEF ScanInv, Onward
  <2>2. \A p : Covered(p)' = Covered(p)
    BY <1>2 DEF Covered, Selected, Eligible, Range
  <2>3. todo \in Seq(Range(todo)) /\ Range(todo) \subseteq Range(conf.urls)
    BY <1>1 DEF ScanInv, Onward
  <2>4. Range(todo)' = Range(todo) /\ Range(conf.urls)' = Range(conf.urls)
    BY <1>1 DEF Range
  <2> QED
    BY <1>1, <2>1, <2>2, <2>3, <2>4, SettingsStayScan DEF Onward
<1>6. /\ \A n \in DOMAIN registered' :
             Stands(n, registered'[n]) /\ registered'[n].members \subseteq DOMAIN registered'
      /\ DOMAIN WithTools \subseteq DOMAIN registered'
      /\ \A d \in EveryDefinition :
             d.api /\ Kept(d.name) /\ d.name \notin Installed => registered'[d.name].api
  BY <1>1, ToolsStand, GroupsStand
<1>7. Genuine'
  BY <1>2, <1>6 DEF Genuine, Stands
<1>8. ApiFirst'
  <2>1. DOMAIN registered' \subseteq DOMAIN WithTools'
    BY DEF WithTools
  <2>2. \A g : MembersOf(g) \subseteq MembersOf(g)'
    BY <1>6, <2>1 DEF MembersOf
  <2>3. Installed \subseteq Installed'
    BY <2>2 DEF Installed
  <2>4. \A n : Kept(n)' = Kept(n)
    BY <1>1 DEF Kept
  <2> QED
    BY <1>2, <1>6, <2>3, <2>4 DEF ApiFirst
<1> QED
  BY <1>1, <1>3, <1>4, <1>5, <1>7, <1>8 DEF ScanInv

LEMMA OtherStepsKeep ==
    ASSUME ScanInv, [Next]_doctorVars, ~(Scan \/ ScanFinalizes)
    PROVE  ScanInv'
<1> SUFFICES ScanInv'
  OBVIOUS
<1>1. /\ conf' = conf /\ seen' = seen /\ found' = found /\ merged' = merged
      /\ relations' = relations /\ registered' = registered
      /\ \/ ~(phase' = "scanning" \/ Walked')
         \/ phase' = "scanning" /\ todo' = conf.urls
         \/ phase' = phase /\ todo' = todo
  <2>1. CASE Boots
    BY <2>1 DEF Boots, ReadyWaits, ReadyFinalizes, ReadyStops, ReadyMounts, ReadyOff, ReadyRefused,
                scanVars, Walked
  <2>2. CASE FirstRequest \/ ForcesDiscovery
    BY <2>2 DEF FirstRequest, ForcesDiscovery, StartScan
  <2>3. CASE CommandRefused \/ Reports \/ UNCHANGED doctorVars
    BY <2>3 DEF CommandRefused, Reports, doctorVars, bootVars, scanVars
  <2> QED
    BY <2>1, <2>2, <2>3 DEF Next, Scans
<1>2. EveryDefinition' = EveryDefinition
  BY <1>1 DEF EveryDefinition, Range
<1>3. FoundOnce' /\ Chosen' /\ Genuine'
  BY <1>1, <1>2 DEF ScanInv, FoundOnce, Chosen, Claims, Range, Genuine, Stands
<1>4. Recorded'
  <2>1. \A n \in DOMAIN relations :
            \E d \in EveryDefinition : d.name = n /\ relations[n] = Narrowed(d.class, d.action, n)
    BY DEF ScanInv, Recorded
  <2> QED
    BY <1>1, <1>2, <2>1, SettingsStayScan DEF Recorded
<1>5. Onward'
  <2>1. CASE phase' = "scanning" /\ todo' = conf.urls
    <3>1. conf.urls \in Seq(Range(conf.urls))
      BY HostAssumption DEF ScanInv
    <3>2. todo' \in Seq(Range(todo')) /\ Range(todo') = Range(conf'.urls)
      BY <1>1, <2>1, <3>1
    <3> QED
      BY <2>1, <3>2 DEF Onward, Walked, Range
  <2>2. CASE phase' = phase /\ todo' = todo
    <3>1. \A p : Covered(p)' = Covered(p)
      BY <1>2 DEF Covered, Selected, Eligible, Range
    <3>2. Range(todo)' = Range(todo) /\ Range(conf.urls)' = Range(conf.urls)
      BY <1>1, <2>2 DEF Range
    <3>3. Onward /\ Walked' = Walked
      BY <2>2 DEF ScanInv, Walked
    <3> QED
      BY <1>1, <2>2, <3>1, <3>2, <3>3, SettingsStayScan DEF Onward
  <2>3. CASE ~(phase' = "scanning" \/ Walked')
    BY <2>3 DEF Onward
  <2> QED
    BY <1>1, <2>1, <2>2, <2>3
<1>6. Walked' => ApiFirst'
  <2> SUFFICES ASSUME Walked' PROVE ApiFirst'
    OBVIOUS
  <2>1. Walked
    BY <1>1 DEF Walked
  <2>2. WithTools' = WithTools
    BY <1>1 DEF WithTools, Kept
  <2>3. Installed' = Installed
    BY <2>2 DEF Installed, MembersOf
  <2>4. \A n : Kept(n)' = Kept(n)
    BY <1>1 DEF Kept
  <2> QED
    BY <1>1, <1>2, <2>1, <2>3, <2>4 DEF ScanInv, ApiFirst
<1> QED
  BY <1>1, <1>3, <1>4, <1>5, <1>6 DEF ScanInv

\* A pattern that is passed over, and one that ends the walk.
LEMMA PassedKeeps ==
    ASSUME ScanInv, SkipPattern \/ ScanRaises
    PROVE  ScanInv'
<1>1. /\ phase = "scanning" /\ todo # <<>> /\ phase' = phase
      /\ conf' = conf /\ seen' = seen /\ found' = found /\ merged' = merged
      /\ relations' = relations /\ registered' = registered
  BY DEF SkipPattern, ScanRaises, bootVars
<1>2. EveryDefinition' = EveryDefinition
  BY <1>1 DEF EveryDefinition, Range
<1>3. FoundOnce' /\ Chosen' /\ Genuine'
  BY <1>1, <1>2 DEF ScanInv, FoundOnce, Chosen, Claims, Range, Genuine, Stands
<1>4. Recorded'
  <2>1. \A n \in DOMAIN relations :
            \E d \in EveryDefinition : d.name = n /\ relations[n] = Narrowed(d.class, d.action, n)
    BY DEF ScanInv, Recorded
  <2> QED
    BY <1>1, <1>2, <2>1, SettingsStayScan DEF Recorded
<1>5. Onward'
  <2>1. \A p : Covered(p)' = Covered(p)
    BY <1>2 DEF Covered, Selected, Eligible, Range
  <2>2. /\ todo \in Seq(Range(todo)) /\ Range(todo) \subseteq Range(conf.urls)
        /\ NothingRaises => \A p \in Range(conf.urls) : p \in Range(todo) \/ Covered(p)
    BY <1>1 DEF ScanInv, Onward
  <2>3. /\ Head(todo) \in Range(todo) /\ Tail(todo) \in Seq(Range(Tail(todo)))
        /\ Range(todo) = {Head(todo)} \cup Range(Tail(todo))
    BY <1>1, <2>2, TailOf
  <2>4. Range(todo)' = Range(todo') /\ Range(conf.urls)' = Range(conf.urls)
    BY <1>1 DEF Range
  <2>5. ~Walked'
    BY <1>1 DEF Walked
  <2>6. CASE SkipPattern
    <3>1. todo' = Tail(todo) /\ Covered(Head(todo))
      BY <2>6 DEF SkipPattern, Covered
    <3> QED
      BY <1>1, <2>1, <2>2, <2>3, <2>4, <2>5, <3>1, SettingsStayScan DEF Onward
  <2>7. CASE ScanRaises
    <3>1. todo' = <<>> /\ ~NothingRaises
      BY <2>2, <2>3, <2>7 DEF ScanRaises, NothingRaises
    <3>2. Range(<<>>) = {} /\ <<>> \in Seq({})
      BY DEF Range
    <3> QED
      BY <1>1, <2>4, <2>5, <3>1, <3>2, SettingsStayScan DEF Onward
  <2> QED
    BY <2>6, <2>7
<1>6. ~Walked'
  BY <1>1 DEF Walked
<1> QED
  BY <1>1, <1>3, <1>4, <1>5, <1>6 DEF ScanInv

LEMMA InitScan == Init => ScanInv
<1> SUFFICES ASSUME Init PROVE ScanInv
  OBVIOUS
<1>1. /\ \E i \in DOMAIN Configurations : conf \in Configurations[i]
      /\ phase = "new" /\ seen = {} /\ found = <<>> /\ merged = [n \in {} |-> {}]
      /\ relations = [n \in {} |-> {}]
      /\ \A n \in DOMAIN registered :
             registered[n] = [class |-> "none", action |-> "none", tier |-> "read", api |-> FALSE,
                              method |-> "none", members |-> {}, hidden |-> FALSE]
  BY DEF Init, AuditInit, ScanInit, BootInit
<1>2. Range(found) = {} /\ EveryDefinition = {} /\ DOMAIN found = {}
  BY <1>1 DEF Range, EveryDefinition
<1>3. FoundOnce
  BY <1>1, <1>2 DEF FoundOnce
<1>4. Chosen /\ Recorded /\ Onward /\ ~Walked
  BY <1>1, <1>2 DEF Chosen, Recorded, Onward, Walked
<1>5. Genuine
  BY <1>1 DEF Genuine, Stands, EntryFields
<1> QED
  BY <1>1, <1>3, <1>4, <1>5 DEF ScanInv

LEMMA StepKeepsScan == ScanInv /\ [Next]_doctorVars => ScanInv'
  BY PatternKeeps, PassedKeeps, RegistrationKeeps, OtherStepsKeep DEF Scan, ScanFinalizes

\* The walk registers what it should, once, and prefers the API: whatever the order of the
\* URLs, and however classes and names are shared (_process_pattern, _prefer_api_tool).
THEOREM ScanHolds == Spec => []ScanIsFaithful
<1>1. ScanInv => ScanIsFaithful
  <2> SUFFICES ASSUME ScanInv, Walked PROVE
          /\ \A i, j \in DOMAIN found : \A d \in found[i], e \in found[j] :
                 d.class = e.class /\ d.action = e.action => i = j /\ d = e
          /\ NothingRaises => \A p \in Range(conf.urls) : Covered(p)
          /\ \A d \in EveryDefinition :
                 d.api /\ Kept(d.name) /\ d.name \notin Installed => registered[d.name].api
    BY DEF ScanIsFaithful
  <2>1. \A i, j \in DOMAIN found : \A d \in found[i], e \in found[j] :
            d.class = e.class /\ d.action = e.action => i = j /\ d = e
    BY DEF ScanInv, FoundOnce, Claims
  <2>2. NothingRaises => \A p \in Range(conf.urls) : Covered(p)
    BY DEF ScanInv, Onward, Range
  <2>3. ApiFirst
    BY DEF ScanInv
  <2> QED
    BY <2>1, <2>2, <2>3 DEF ApiFirst
<1> QED
  BY <1>1, InitScan, StepKeepsScan, PTL DEF Spec

\* mcp_doctor --strict passes a process only where discovery came to its end, every list
\* parsed, nothing on the surface that requests meet is LOUD and, unless a class of the host
\* ended the walk by raising, every action there is to find is on it (mcp_doctor.py).
THEOREM StrictGate == Spec => []StrictIsAGate
<1>1. Init => Gate /\ ScanInv
  BY InitScan DEF Init, Gate, Passes
<1>2. Gate /\ ScanInv => StrictIsAGate
  <2> SUFFICES ASSUME Gate, ScanInv, verdict.exit = "clean", conf.command = "strict", HasRoutes
               PROVE  /\ phase = "finalized"
                      /\ ~Unreadably
                      /\ \A f \in AuditRouteSurface(registered) : f.severity # "LOUD"
                      /\ NothingRaises => \A p \in Range(conf.urls) : Covered(p)
    BY DEF StrictIsAGate
  <2>1. /\ phase = "finalized" /\ ~Unreadably
        /\ \A f \in AuditRouteSurface(registered) : f.severity # "LOUD"
    BY DEF Gate, Passes
  <2>2. NothingRaises => \A p \in Range(conf.urls) : Covered(p)
    BY <2>1 DEF ScanInv, Onward, Walked, Range
  <2> QED
    BY <2>1, <2>2
<1> QED
  BY <1>1, <1>2, StepKeepsGate, StepKeepsScan, PTL DEF Spec

-----------------------------------------------------------------------------
(* What the audit says of relations. *)

\* The findings of one of the two codes for a route are the one on its relations, if any.
LEMMA RelationFindings ==
    ASSUME NEW n \in Configured, ~Unreadably, NEW f, f \in AuditRouteSurface(registered), f.route = n
    PROVE  /\ f.code = "W017" => f.about = Unreadable(Net(n, registered), registered)
           /\ f.code = "W019" => f.about = Unevaluated(Net(n, registered), registered)
<1>1. \A m : \A g \in CarveFindings(m, registered) : g.code \notin {"W017", "W019"}
  BY DEF CarveFindings, When, Finding
<1>2. \A m : \A g \in CrossCarveFindings(m, registered) :
          /\ g.route = m
          /\ g.code = "W017" => g.about = Unreadable(Net(m, registered), registered)
          /\ g.code = "W019" => g.about = Unevaluated(Net(m, registered), registered)
  BY DEF CrossCarveFindings, When, Finding
<1>3. \A e, surface : InertBecause(e, surface) \notin {"W017", "W019"}
  <2> SUFFICES ASSUME NEW e, NEW surface PROVE InertBecause(e, surface) \notin {"W017", "W019"}
    OBVIOUS
  <2>1. InertBecause(e, surface) \in {"no", "W110", "W111", "W112"}
    BY DEF InertBecause
  <2> QED
    BY <2>1
<1>4. \A m : \A g \in AuditEntries(m, registered) : g.code \notin {"W017", "W019"}
  <2>1. \A m, e : \A g \in AuditAllow(e, m, registered) : g.code \notin {"W017", "W019"}
    BY <1>3 DEF AuditAllow, When, Finding
  <2>2. \A m, e : \A g \in AuditDeny(e, m, registered) : g.code \notin {"W017", "W019"}
    BY <1>3 DEF AuditDeny, Finding
  <2> QED
    BY <2>1, <2>2 DEF AuditEntries
<1> QED
  BY <1>1, <1>2, <1>4 DEF AuditRouteSurface

\* And where there are unreadable or undecided relations there is a finding.
LEMMA RelationsReported ==
    ASSUME NEW n \in Configured, ~Unreadably
    PROVE  LET net == Net(n, registered) IN
           /\ Unreadable(net, registered) # {} =>
                  \E f \in AuditRouteSurface(registered) : f.route = n /\ f.code = "W017"
           /\ Unevaluated(net, registered) # {} =>
                  \E f \in AuditRouteSurface(registered) : f.route = n /\ f.code = "W019"
<1>1. CrossCarveFindings(n, registered) \subseteq AuditRouteSurface(registered)
  BY DEF AuditRouteSurface
<1>2. ASSUME Unreadable(Net(n, registered), registered) # {}
      PROVE  \E f \in CrossCarveFindings(n, registered) : f.route = n /\ f.code = "W017"
  <2> DEFINE f == [code |-> "W017", severity |-> "SOFT", route |-> n,
                   about |-> Unreadable(Net(n, registered), registered)]
  <2>1. f \in CrossCarveFindings(n, registered)
    BY <1>2 DEF CrossCarveFindings, When, Finding
  <2> QED
    BY <2>1
<1>3. ASSUME Unevaluated(Net(n, registered), registered) # {}
      PROVE  \E f \in CrossCarveFindings(n, registered) : f.route = n /\ f.code = "W019"
  <2> DEFINE f == [code |-> "W019", severity |-> "SOFT", route |-> n,
                   about |-> Unevaluated(Net(n, registered), registered)]
  <2>1. f \in CrossCarveFindings(n, registered)
    BY <1>3 DEF CrossCarveFindings, When, Finding
  <2> QED
    BY <2>1
<1> QED
  BY <1>1, <1>2, <1>3

\* What has been recorded of a tool that has been claimed once is what its class demands.
LEMMA RecordedIsDemanded ==
    ASSUME ScanInv, NEW t \in DOMAIN registered, registered[t].action \in {"create", "update"},
           ClaimedOnce(t), t \in DOMAIN relations
    PROVE  /\ registered[t].class \in DOMAIN ViewSets
           /\ relations[t] = Narrowed(registered[t].class, registered[t].action, t)
<1>1. PICK d \in EveryDefinition : d.name = t /\ d.class = registered[t].class
                                   /\ d.action = registered[t].action
  BY DEF ScanInv, Genuine, Stands
<1>2. PICK e \in EveryDefinition : e.name = t /\ relations[t] = Narrowed(e.class, e.action, t)
  BY DEF ScanInv, Recorded
<1>3. d.class = e.class /\ d.action = e.action
  BY <1>1, <1>2 DEF ClaimedOnce
<1> QED
  BY <1>1, <1>2, <1>3 DEF ScanInv, FoundOnce

LEMMA DemandedIsNarrowed ==
    ASSUME NEW t, NEW r \in Demanded(t),
           relations[t] = Narrowed(registered[t].class, registered[t].action, t)
    PROVE  \E x \in relations[t] : x.field = r.field /\ x.target = r.target
<1> DEFINE x == [field |-> r.field, target |-> r.target, outcome |-> r.outcome,
                 required |-> r.field \in RequiredFields(registered[t].class, registered[t].action, t)]
<1>1. /\ r \in Collected(registered[t].class, registered[t].action)
      /\ r.field \in RequiredFields(registered[t].class, registered[t].action, t)
  BY DEF Demanded
<1>2. x \in relations[t]
  BY <1>1 DEF Narrowed
<1> QED
  BY <1>2

\* One relation to a field.
LEMMA FieldsDiffer ==
    ASSUME NEW c \in DOMAIN ViewSets, NEW a, NEW n, NEW r \in Collected(c, a),
           NEW x \in Narrowed(c, a, n), x.field = r.field
    PROVE  x.target = r.target
<1>0. \A y \in Collected(c, a) : \E f \in ViewSets[c].fields : y.field = f.name /\ y.target = f.target
  <2>1. SchemaFields(c, a) \subseteq ViewSets[c].fields
    BY DEF SchemaFields
  <2> TAKE y \in Collected(c, a)
  <2>2. PICK f \in {g \in SchemaFields(c, a) : Outcome(g) # "not applicable"} :
          y = [field |-> f.name, target |-> f.target, outcome |-> Outcome(f)]
    BY Zenon DEF Collected
  <2>3. y.field = f.name /\ y.target = f.target
    BY <2>2
  <2> QED
    BY <2>1, <2>2, <2>3
<1>1. PICK y \in Collected(c, a) : x.field = y.field /\ x.target = y.target
  BY DEF Narrowed
<1>2. PICK f \in ViewSets[c].fields : r.field = f.name /\ r.target = f.target
  BY <1>0
<1>3. PICK g \in ViewSets[c].fields : y.field = g.name /\ y.target = g.target
  BY <1>0
<1> QED
  BY <1>1, <1>2, <1>3, HostAssumption

LEMMA Decided ==
    ASSUME NEW net, NEW entries, Unevaluated(net, entries) = {}, NEW t \in Satisfiable(net, entries)
    PROVE  t \in DOMAIN relations /\ \A x \in relations[t] : ~Undecidable(x)
<1>1. t \in DOMAIN relations
  <2>1. \A m \in Satisfiable(net, entries) \ DOMAIN relations : <<m, "relations">> \in Unevaluated(net, entries)
    BY DEF Unevaluated
  <2> QED
    BY <2>1
<1>2. ASSUME NEW x \in relations[t], Undecidable(x) PROVE <<t, x.field>> \in Unevaluated(net, entries)
  <2>1. t \in Satisfiable(net, entries) \cap DOMAIN relations
    BY <1>1
  <2>2. <<t, x.field>> \in {<<t, r.field>> : r \in {y \in relations[t] : Undecidable(y)}}
    BY <1>2
  <2>3. <<t, x.field>> \in UNION {{<<n, r.field>> : r \in {y \in relations[n] : Undecidable(y)}} :
                                     n \in Satisfiable(net, entries) \cap DOMAIN relations}
    BY <2>1, <2>2
  <2> QED
    BY <2>3 DEF Unevaluated
<1> QED
  BY <1>1, <1>2

LEMMA Readable ==
    ASSUME NEW net, NEW entries, Unreadable(net, entries) = {},
           NEW t \in Satisfiable(net, entries) \cap DOMAIN relations,
           NEW x \in relations[t], ~Undecidable(x)
    PROVE  x.target \in ReadableModels(net, entries)
<1> DEFINE off(n) == {y \in relations[n] : ~Undecidable(y) /\ y.target \notin ReadableModels(net, entries)}
<1> SUFFICES ASSUME x \in off(t) PROVE FALSE
  OBVIOUS
<1>1. <<t, x.field>> \in {<<t, r.field>> : r \in off(t)}
  OBVIOUS
<1>2. <<t, x.field>> \in UNION {{<<n, r.field>> : r \in off(n)} :
                                   n \in Satisfiable(net, entries) \cap DOMAIN relations}
  BY <1>1
<1> QED
  BY <1>2 DEF Unreadable

\* Where the audit of a route has nothing to say about relations, callers can look up what its
\* writing tools demand, and what it says is true (audit_cross_carve_surface, _relations.py).
THEOREM RelationsAudited == Spec => []DiscoverabilityIsDecided
<1>1. ScanInv /\ Surveyed => DiscoverabilityIsDecided
  <2> SUFFICES ASSUME ScanInv, Surveyed, Audited, NEW n \in Configured
      PROVE  LET net == Net(n, registered)
                 shown(m) == \E t \in net : /\ registered[t].action \in {"list", "retrieve"}
                                            /\ ViewSets[registered[t].class].model = m
                 known == {t \in net : /\ registered[t].action \in {"create", "update"}
                                       /\ registered[t].tier = "read_write"
                                       /\ ClaimedOnce(t)}
                 reported(code) == {f.about : f \in {g \in surfaceFindings :
                                                        g.route = n /\ g.code = code}}
             IN  /\ reported("W017") \cup reported("W019") = {} =>
                        \A t \in known : \A r \in Demanded(t) : shown(r.target)
                 /\ \A pairs \in reported("W017") : \A t \in known :
                        \A r \in Demanded(t) : <<t, r.field>> \in pairs => ~shown(r.target)
    BY DEF DiscoverabilityIsDecided
  <2> DEFINE net == Net(n, registered)
             shown(m) == \E t \in net : /\ registered[t].action \in {"list", "retrieve"}
                                        /\ ViewSets[registered[t].class].model = m
             known == {t \in net : /\ registered[t].action \in {"create", "update"}
                                   /\ registered[t].tier = "read_write"
                                   /\ ClaimedOnce(t)}
             reported(code) == {f.about : f \in {g \in surfaceFindings :
                                                     g.route = n /\ g.code = code}}
  <2>1. ~Unreadably /\ surfaceFindings = AuditRouteSurface(registered)
    BY DEF Surveyed, Audited
  <2>2. net \subseteq DOMAIN registered
    <3> DEFINE surface == ToolSurface(registered)
    <3>1. /\ surface.names = DOMAIN registered
          /\ \A g \in DOMAIN surface.members : surface.members[g] \subseteq DOMAIN registered
      BY DEF ToolSurface, ScanInv, Genuine
    <3> HIDE DEF surface
    <3>2. ASSUME NEW e PROVE Resolve(e, surface) \subseteq DOMAIN registered
      <4>1. ResolveBare(e, surface) \subseteq DOMAIN registered
        BY <3>1 DEF ResolveBare
      <4>2. ResolveQualified(e, surface) \subseteq DOMAIN registered
        BY <3>1 DEF ResolveQualified
      <4>3. Resolve(e, surface) \in {surface.names, ResolveBare(e, surface),
                                    ResolveQualified(e, surface), {}}
        BY DEF Resolve
      <4> QED
        BY <3>1, <4>1, <4>2, <4>3
    <3> QED
      BY <3>2 DEF Net, Select, Matched, surface
  <2>3. ASSUME NEW t \in known
        PROVE  /\ t \in net /\ t \in DOMAIN registered /\ t \in Satisfiable(net, registered)
               /\ t \in DOMAIN relations =>
                      /\ registered[t].class \in DOMAIN ViewSets
                      /\ relations[t] = Narrowed(registered[t].class, registered[t].action, t)
    <3>1. /\ t \in net /\ t \in DOMAIN registered /\ registered[t].action \in {"create", "update"}
          /\ registered[t].tier = "read_write" /\ ClaimedOnce(t)
      BY <2>2
    <3>2. HttpMethods(registered[t]) \cap {"post", "put"} # {}
      BY <3>1 DEF HttpMethods, Standard, StandardMethod
    <3>3. t \in Satisfiable(net, registered)
      BY <3>1, <3>2 DEF Satisfiable, Writes
    <3> QED
      BY <3>1, <3>3, RecordedIsDemanded
  <2>4. \A m : m \in ReadableModels(net, registered) <=> shown(m) /\ m # "unknown"
    BY DEF ReadableModels
  <2>5. ASSUME reported("W017") \cup reported("W019") = {}, NEW t \in known, NEW r \in Demanded(t)
        PROVE  shown(r.target)
    <3>1. Unreadable(net, registered) = {} /\ Unevaluated(net, registered) = {}
      <4>1. \A f \in surfaceFindings : f.route = n => f.code \notin {"W017", "W019"}
        BY <2>5
      <4> QED
        BY <2>1, <4>1, RelationsReported
    <3>2. t \in Satisfiable(net, registered)
      BY <2>3
    <3>3. t \in DOMAIN relations /\ \A x \in relations[t] : ~Undecidable(x)
      BY <3>1, <3>2, Decided
    <3>4. PICK x \in relations[t] : x.field = r.field /\ x.target = r.target
      BY <2>3, <3>3, DemandedIsNarrowed
    <3>5. ~Undecidable(x)
      BY <3>3
    <3>6. x.target \in ReadableModels(net, registered)
      BY <3>1, <3>2, <3>3, <3>5, Readable
    <3> QED
      BY <2>4, <3>4, <3>6
  <2>6. ASSUME NEW pairs \in reported("W017"), NEW t \in known, NEW r \in Demanded(t),
               <<t, r.field>> \in pairs, shown(r.target)
        PROVE  FALSE
    <3>1. pairs = Unreadable(net, registered)
      <4>1. PICK f \in surfaceFindings : f.route = n /\ f.code = "W017" /\ f.about = pairs
        OBVIOUS
      <4> QED
        BY <2>1, <4>1, RelationFindings
    <3>2. PICK m \in Satisfiable(net, registered) \cap DOMAIN relations :
              \E y \in relations[m] : /\ ~Undecidable(y) /\ y.target \notin ReadableModels(net, registered)
                                      /\ <<t, r.field>> = <<m, y.field>>
      BY <2>6, <3>1 DEF Unreadable
    <3>3. PICK x \in relations[m] : /\ ~Undecidable(x) /\ x.target \notin ReadableModels(net, registered)
                                    /\ <<t, r.field>> = <<m, x.field>>
      BY <3>2
    <3>4. t = m /\ x.field = r.field
      BY <3>3
    <3>5. /\ registered[t].class \in DOMAIN ViewSets
          /\ relations[t] = Narrowed(registered[t].class, registered[t].action, t)
      BY <2>3, <3>2, <3>4
    <3>6. r \in Collected(registered[t].class, registered[t].action)
      BY DEF Demanded
    <3>7. x.target = r.target
      BY <3>3, <3>4, <3>5, <3>6, FieldsDiffer
    <3>8. x.target # "unknown"
      BY <3>3 DEF Undecidable
    <3> QED
      BY <2>4, <2>6, <3>3, <3>7, <3>8
  <2> QED
    BY <2>5, <2>6
<1>2. Init => Surveyed
  BY DEF Init, AuditInit, ScanInit, BootInit, Surveyed
<1> QED
  BY <1>1, <1>2, InitScan, StepKeepsScan, StepKeepsSurveyed, PTL DEF Spec

=============================================================================
