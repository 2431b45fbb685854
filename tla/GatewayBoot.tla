----------------------------- MODULE GatewayBoot -----------------------------
(***************************************************************************)
(* ready() of the package: the settings are audited, and then the gateway, *)
(* the authorization server, the metadata and the healthchecks are mounted *)
(* in front of the host's own URLs (apps.py, route_config.py,              *)
(* route_paths.py, route_views.py, middleware.py).                         *)
(*                                                                         *)
(* A path is the sequence of its segments; a URL table is a sequence of    *)
(* layers, each a set of patterns that do not overlap, and the first layer *)
(* that has a match answers.  A permission class is represented by the     *)
(* bucket it falls into, and an opaque one by what it decides.             *)
(***************************************************************************)
EXTENDS RouteGrammar, Naturals, Sequences, FiniteSets, Functions

CONSTANTS
    Configurations      \* families of settings to consider, with the host's URLs

VARIABLES
    conf,       \* the settings
    phase,      \* how far ready() has come
    table       \* the URL table

bootVars == <<conf, phase, table>>

ASSUME ConfigurationsAssumption ==
    \A i \in DOMAIN Configurations : \A c \in Configurations[i] :
        /\ c.host \in Seq(Range(c.host))
        /\ c.routes.form = "mapping" =>
               \A n \in DOMAIN c.routes.block :
                   LET path == c.routes.block[n].path.path IN path \in Seq(Range(path))
        /\ c.maxTier.spelling \in {"absent", "exact", "padded", "wrong"}
        /\ c.maxTier.tier \in {"read", "read_write", "admin"}

IsUnder(child, parent) ==
    Len(parent) <= Len(child) /\ SubSeq(child, 1, Len(parent)) = parent

-----------------------------------------------------------------------------
(* Tiers. *)

Tiers == {"read", "read_write", "admin"}

\* An unknown word ranks with read where ceilings are compared, and below it for a caller.
TierRank(t) == IF t = "admin" THEN 2 ELSE IF t = "read_write" THEN 1 ELSE 0

CallerRank(t) == IF t \in Tiers THEN TierRank(t) + 1 ELSE 0

\* A setting that names a tier: absent, spelled exactly, with blanks or capitals, or wrongly.
\* Only the exact spelling is the tier itself.
Raw(setting) == IF setting.spelling = "exact" THEN setting.tier ELSE "unknown"

NormalizedTier(setting) ==
    IF setting.spelling \in {"exact", "padded"} THEN setting.tier ELSE "unknown"

-----------------------------------------------------------------------------
(* The parsed routes, and what is wrong with them. *)

RouteNames == {"default", "elevated", "admin"}

\* FRISIAN_MCP_ROUTES is truthy: the gateway is mounted per route.
HasRoutes ==
    \/ conf.routes.form = "text"
    \/ conf.routes.form = "mapping" /\ DOMAIN conf.routes.block # {}

Configured == IF conf.routes.form = "mapping" THEN DOMAIN conf.routes.block ELSE {}

Block(n) == conf.routes.block[n]

\* parse_route_config() raises.
Unparsable(n) ==
    \/ n \notin RouteNames
    \/ ~Block(n).mapping
    \/ Block(n).surplus                     \* a key that is none of the six
    \/ Block(n).path.form = "unusable"      \* missing, empty or no string
    \/ Block(n).tier \notin Tiers \cup {"undeclared"}
    \/ Block(n).auto_discover \notin {"on", "off"}
    \/ Block(n).auto_register \notin {"on", "off"}
    \/ \E e \in Block(n).allow \cup Block(n).deny : e.kind = "number"

SchemaFault ==
    \/ conf.routes.form = "text"
    \/ \E n \in Configured : Unparsable(n)

WellKnown == ".well-known"

\* Seeded defect: the healthchecks, which are mounted last, may be claimed.
StaticReserved == {<<WellKnown>>, <<"oauth">>, <<"register">>}

Reserved == {<<WellKnown>>, <<"oauth">>, <<"register">>} \cup conf.healthchecks

ClaimsReserved(path) ==
    \E r \in Reserved : IsUnder(path, r) \/ IsUnder(r, path)

\* normalize_route_path(): a template that a URL would read variables from, or no segment.
Unnormalizable(path) == path.form = "template" \/ path.path = <<>>

\* validate_route_paths(): one finding, for the first fault.
PathFault(n) ==
    LET path == Block(n).path IN
    \/ Unnormalizable(path)
    \/ ClaimsReserved(path.path)
    \/ \E m \in Configured \ {n} : Block(m).path.path = path.path

-----------------------------------------------------------------------------
(* Permission classes, and who passes them. *)

\* The global classes replace the default of the route.
EffectiveClasses(n) ==
    IF conf.classes # {} THEN conf.classes
    ELSE IF n = "default" THEN {} ELSE {"auth_requiring"}

AnonymousReachable(n) == EffectiveClasses(n) \subseteq {"anonymous_granting"}

AnonymousStream(n) ==
    EffectiveClasses(n) \subseteq {"anonymous_granting", "partial_anonymous"}

\* What the classes say to a request without credentials when it comes.
AdmitsAnonymous(n, method) ==
    \A c \in EffectiveClasses(n) :
        \/ c = "anonymous_granting"
        \/ c = "partial_anonymous" /\ method = "GET"
        \/ c = "opaque" /\ conf.opaqueAdmits

SecureDefaultCeiling(n) ==
    IF n = "admin" THEN "admin" ELSE IF n = "elevated" THEN "read_write" ELSE "read"

RouteCeiling(n) ==
    IF Block(n).tier = "undeclared" THEN SecureDefaultCeiling(n) ELSE Block(n).tier

\* _min_tier(): the setting enters as it is spelled, and wins a tie.
RouteMaxTier(n) ==
    IF conf.maxTier.spelling = "absent" \/ TierRank(RouteCeiling(n)) < TierRank(Raw(conf.maxTier))
    THEN RouteCeiling(n)
    ELSE Raw(conf.maxTier)

\* Seeded defect: a word that is no tier caps nothing.
CapsByTierOnly(t, cap) == IF cap \in Tiers /\ CallerRank(t) > CallerRank(cap) THEN cap ELSE t

\* _apply_max_tier_cap(): what a credential of tier t gets where cap is the highest tier.
Capped(t, cap) == IF CallerRank(t) > TierRank(cap) + 1 THEN cap ELSE t

\* The views that the package mounts, and the highest tier each of them serves.
EffectiveMaxTier(view) ==
    IF view \in Configured THEN RouteMaxTier(view)
    ELSE IF view = "protected" \/ conf.maxTier.spelling = "absent" THEN "admin"
    ELSE NormalizedTier(conf.maxTier)

ServedTier(t, view) == Capped(t, EffectiveMaxTier(view))

-----------------------------------------------------------------------------
(* The checks of one route at startup. *)

Report(id, level, n) == {[id |-> id, level |-> level, route |-> n]}

When(condition, report) == IF condition THEN report ELSE {}

CheckOpenWorld(n) ==
    When(/\ n = "default"
         /\ TierRank(Block(n).tier) > 0
         /\ AnonymousReachable(n), Report("E004", "error", n))

MalformedKinds == {"empty", "dunder", "segments"}

\* An entry that the grammar has no reading for; or a wildcard in a deny list.
CheckGrammar(n) ==
    When(\/ \E e \in Block(n).allow \cup Block(n).deny : e.kind \in MalformedKinds
         \/ \E e \in Block(n).deny : e.kind = "wildcard", Report("E1", "error", n))

CheckEmptyAllowList(n) == When(Block(n).allow = {}, Report("W004", "warning", n))

CheckAutoRegister(n) ==
    When(Block(n).auto_register = "on" /\ AnonymousReachable(n), Report("W005", "warning", n))

CheckAutoDiscover(n) == When(Block(n).auto_discover = "on", Report("W006", "warning", n))

\* Seeded defect: the literal grant is looked for on the open route.
BucketsOfDefault(n) ==
    When(n = "default" /\ "anonymous_granting" \in EffectiveClasses(n), Report("E006", "error", n))

CheckPrivilegedBuckets(n) ==
    IF n = "default" THEN {}
    ELSE IF "anonymous_granting" \in EffectiveClasses(n) THEN Report("E006", "error", n)
    ELSE When("opaque" \in EffectiveClasses(n), Report("W011", "warning", n))

CheckAnonymousSSE(n) ==
    When(~conf.allowUnauthenticated /\ AnonymousStream(n), Report("W010", "warning", n))

\* Both ranks are those of the words as they are spelled.
CheckMaxTierCapsRoute(n) ==
    When(/\ Block(n).tier # "undeclared"
         /\ conf.maxTier.spelling = "exact"
         /\ TierRank(conf.maxTier.tier) < TierRank(Block(n).tier), Report("W007", "warning", n))

AuditRoute(n) ==
    CheckOpenWorld(n) \cup CheckGrammar(n) \cup CheckEmptyAllowList(n)
        \cup CheckAutoRegister(n) \cup CheckAutoDiscover(n)
        \cup CheckPrivilegedBuckets(n) \cup CheckAnonymousSSE(n) \cup CheckMaxTierCapsRoute(n)

\* audit_route_configs(): what does not parse is the only finding.
AuditRouteConfigs ==
    IF SchemaFault THEN Report("E005", "error", "all")
    ELSE When(\E n \in Configured : PathFault(n), Report("E2", "error", "all"))
             \cup UNION {AuditRoute(n) : n \in Configured}

FatalRouteConfig == \E f \in AuditRouteConfigs : f.level = "error"

InvalidMaxTier == conf.maxTier.spelling = "wrong"

-----------------------------------------------------------------------------
(* The URL table. *)

Pattern(kind, path, serves, app) ==
    [kind |-> kind, path |-> path, serves |-> serves, app |-> app]

\* ^path/?$, path("path/"), path("path") and path("path/<path:rest>").
Matches(p, target) ==
    \/ p.kind = "either" /\ target.path = p.path
    \/ p.kind = "slashed" /\ target.path = p.path /\ target.slash
    \/ p.kind = "bare" /\ target.path = p.path /\ ~target.slash
    \/ p.kind = "below" /\ IsUnder(target.path, p.path) /\ target.path # p.path

\* McpTrailingSlashMiddleware, which ready() has put into the host's MIDDLEWARE.
Rewritten(target) ==
    [path |-> target.path, slash |-> target.slash /\ target.path # conf.prefix]

\* The first pattern of the table that matches.
Answer(layers, target) ==
    LET hits(i) == {p \in layers[i] : Matches(p, target)}
        found == {i \in DOMAIN layers : hits(i) # {}}
    IN  IF found = {} THEN "nothing"
        ELSE (CHOOSE p \in hits(CHOOSE i \in found : \A j \in found : i <= j) : TRUE).serves

Served(target) == Answer(table, Rewritten(target))

Includes(layers, app) == \E i \in DOMAIN layers : \E p \in layers[i] : p.app = app

InFront(patterns, layers) == IF patterns = {} THEN layers ELSE <<patterns>> \o layers

InstallMcpUrl(layers) ==
    IF Includes(layers, "frisian_mcp") THEN layers
    ELSE InFront({Pattern("either", conf.path, "gateway", "frisian_mcp")}, layers)

InstallExtraPaths(layers) ==
    InFront({Pattern("either", p, "gateway", "frisian_mcp") : p \in conf.extra}, layers)

InstallProtectedUrl(layers) ==
    InFront({Pattern("either", p, "protected", "none") : p \in conf.protected}, layers)

InstallRouteUrls(layers) ==
    InFront({Pattern("either", Block(n).path.path, n, "none") : n \in Configured}, layers)

\* Seeded defect: the routes are mounted beside the whole surface.
RoutesBesideGateway(layers) ==
    LET gateway == InstallProtectedUrl(InstallExtraPaths(InstallMcpUrl(layers)))
    IN  IF HasRoutes THEN InstallRouteUrls(gateway) ELSE gateway

InstallGatewayUrls(layers) ==
    IF HasRoutes THEN InstallRouteUrls(layers)
    ELSE InstallProtectedUrl(InstallExtraPaths(InstallMcpUrl(layers)))

OAuthUrls ==
    {Pattern("slashed", <<"oauth", e>>, e, "frisian_mcp_oauth") :
         e \in {"authorize", "token", "register"}}

InstallOAuthUrls(layers) ==
    InFront(When(conf.oauth /\ ~Includes(layers, "frisian_mcp_oauth"), OAuthUrls), layers)

Metadata == {"oauth-protected-resource", "oauth-authorization-server", "openid-configuration"}

\* Each document by its own name, and by its name and the path of a resource.
WellknownUrls ==
    {Pattern("bare", <<WellKnown, d>>, d, "frisian_mcp_oauth_wellknown") : d \in Metadata}
        \cup
    {Pattern("below", <<WellKnown, d>>, d, "frisian_mcp_oauth_wellknown") : d \in Metadata}

InstallWellknownUrls(layers) ==
    InFront(When(conf.oauth /\ ~Includes(layers, "frisian_mcp_oauth_wellknown"), WellknownUrls),
            layers)

InstallBareRegisterUrl(layers) ==
    InFront(When(conf.oauth, {Pattern("bare", <<"register">>, "unregistered", "none")}),
            layers)

InstallHealthcheckUrls(layers) ==
    InFront({Pattern("slashed", p, "ok", "none") : p \in conf.healthchecks}, layers)

\* Every installer returns at once when the host has no ROOT_URLCONF.
Mounted ==
    IF ~conf.urlconf THEN conf.host
    ELSE InstallHealthcheckUrls(InstallBareRegisterUrl(InstallWellknownUrls(InstallOAuthUrls(
             InstallGatewayUrls(conf.host)))))

-----------------------------------------------------------------------------
(* The protected resources that the metadata documents describe (route_resources.py). *)

ProtectedResources == {n \in Configured : ~AnonymousReachable(n)}

\* Seeded defect: the route that the path lies under.
ResourceAbove(path) == {n \in ProtectedResources : IsUnder(path, Block(n).path.path)}

ResourceForPath(path) == {n \in ProtectedResources : Block(n).path.path = path}

MetadataPrefix == <<WellKnown, "oauth-protected-resource">>

\* Where a 401 on this path sends the client.
ChallengeMetadataUrl(path) ==
    [path |-> MetadataPrefix \o (IF ResourceForPath(path) = {} THEN <<>> ELSE path),
     slash |-> FALSE]

\* What the document at a metadata URL describes: the resource its suffix names or, at the
\* bare URL, the one with the lowest ceiling, and the first of those by name.
NameOrder == [admin |-> 1, default |-> 2, elevated |-> 3]

Before(m, n) ==
    \/ TierRank(RouteCeiling(m)) < TierRank(RouteCeiling(n))
    \/ TierRank(RouteCeiling(m)) = TierRank(RouteCeiling(n)) /\ NameOrder[m] <= NameOrder[n]

Described(target) ==
    LET suffix == SubSeq(target.path, Len(MetadataPrefix) + 1, Len(target.path))
    IN  IF suffix # <<>> THEN ResourceForPath(suffix)
        ELSE {n \in ProtectedResources : \A m \in ProtectedResources : Before(n, m)}

-----------------------------------------------------------------------------
(* ready(). It runs once: a second call returns at once. *)

BootInit ==
    /\ \E i \in DOMAIN Configurations : conf \in Configurations[i]
    /\ phase = "new"
    /\ table = conf.host

ReadyOff ==
    /\ phase = "new" /\ ~conf.enabled
    /\ phase' = "off"
    /\ UNCHANGED <<conf, table>>

\* The host's process does not start.
ReadyRefused ==
    /\ phase = "new" /\ conf.enabled
    /\ FatalRouteConfig \/ InvalidMaxTier
    /\ phase' = "refused"
    /\ UNCHANGED <<conf, table>>

ReadyMounts ==
    /\ phase = "new" /\ conf.enabled
    /\ ~FatalRouteConfig /\ ~InvalidMaxTier
    /\ phase' = "mounted"
    /\ table' = Mounted
    /\ UNCHANGED conf

-----------------------------------------------------------------------------
(* Properties. *)

Up == conf.enabled /\ phase \notin {"new", "refused"}

Target(path, slash) == [path |-> path, slash |-> slash]

TokenTarget == Target(<<"oauth", "token">>, TRUE)

MetadataTarget == Target(<<WellKnown, "oauth-authorization-server">>, FALSE)

\* A host that has included the patterns of an app has them where it chose.
Provided(app, target, view) ==
    IF Includes(conf.host, app) THEN Answer(conf.host, target) ELSE view

\* Every configured route, and every endpoint of the package, answers at its own path: none is
\* shadowed by a mount that came later or by the host, with or without a slash where both are
\* meant to work; and endpoints that the host has included itself answer as they did.  Only a
\* healthcheck, and a gateway prefix that takes the slash away, can be set upon an endpoint
\* (route_paths.py, the installers of apps.py).
EveryMountAnswers ==
    Up /\ conf.urlconf /\ HasRoutes =>
        /\ \A n \in Configured, slash \in BOOLEAN : Served(Target(Block(n).path.path, slash)) = n
        /\ \A p \in conf.healthchecks \ {conf.prefix} : Served(Target(p, TRUE)) = "ok"
        /\ conf.oauth =>
               /\ TokenTarget.path \notin conf.healthchecks \cup {conf.prefix} =>
                      Served(TokenTarget) = Provided("frisian_mcp_oauth", TokenTarget, "token")
               /\ Served(MetadataTarget) = Provided("frisian_mcp_oauth_wellknown", MetadataTarget,
                                                    "oauth-authorization-server")

\* While routes are configured the package itself mounts nothing that serves the unfiltered
\* surface, whatever the other settings ask for (_install_gateway_urls).
NoUnfilteredMount ==
    Up /\ HasRoutes =>
        \A i \in DOMAIN table : \A p \in table[i] :
            p.serves \in {"gateway", "protected"} =>
                \E j \in DOMAIN conf.host : p \in conf.host[j]

\* A process that starts admits an anonymous POST to a route above read only through a
\* permission class of the host that cannot be read, which W011 names on a privileged route;
\* and holds a stream open for anonymous clients only with W010, such a class, or the
\* operator's acknowledgement (E004, E006, W010, W011 of route_audit.py).
AnonymousIsBounded ==
    Up =>
        \A n \in Configured :
            /\ AdmitsAnonymous(n, "POST") /\ RouteCeiling(n) # "read" =>
                   /\ "opaque" \in EffectiveClasses(n)
                   /\ n # "default" => Report("W011", "warning", n) \subseteq AuditRouteConfigs
            /\ AdmitsAnonymous(n, "GET") =>
                   \/ "opaque" \in EffectiveClasses(n)
                   \/ conf.allowUnauthenticated
                   \/ Report("W010", "warning", n) \subseteq AuditRouteConfigs

\* Nobody is served above the ceiling of the route nor, however it is spelled, above
\* FRISIAN_MCP_MAX_TIER; and W007 says of a declared ceiling that it has no effect exactly when
\* no credential reaches it because of the setting as it stands.
CeilingsHold ==
    Up =>
        \A n \in Configured, t \in Tiers :
            /\ CallerRank(ServedTier(t, n)) <= CallerRank(RouteCeiling(n))
            /\ conf.maxTier.spelling # "absent" =>
                   CallerRank(ServedTier(t, n)) <= CallerRank(conf.maxTier.tier)
            /\ conf.maxTier.spelling = "exact" /\ Block(n).tier # "undeclared" =>
                   (Report("W007", "warning", n) \subseteq AuditRouteConfigs
                       <=> CallerRank(ServedTier("admin", n)) < CallerRank(Block(n).tier))

\* The metadata that a refused client is sent to is served, unless the host serves the metadata,
\* and describes the route that refused it and no other (route_resources.py).
ChallengeLeadsBack ==
    Up /\ conf.urlconf /\ conf.oauth =>
        \A n \in ProtectedResources :
            LET url == ChallengeMetadataUrl(Block(n).path.path) IN
            /\ Served(url) = Provided("frisian_mcp_oauth_wellknown", url, "oauth-protected-resource")
            /\ Described(url) = {n}

\* "One normalisation, shared by the runtime and the startup check" (registry.py): a tier that
\* the startup check accepts is the tier that the routes apply.
OneNormalisation ==
    Up /\ conf.maxTier.spelling # "absent" =>
        \A n \in Configured, t \in Tiers :
            CallerRank(t) <= CallerRank(conf.maxTier.tier)
                /\ CallerRank(t) <= CallerRank(RouteCeiling(n)) => ServedTier(t, n) = t

=============================================================================
