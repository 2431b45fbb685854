------------------------------- MODULE MCBoot -------------------------------
(***************************************************************************)
(* A small host: two classes of devices, one of sites, and classes that    *)
(* the scan passes over or stumbles on.                                    *)
(***************************************************************************)
EXTENDS Doctor

HostClass(model, fields, mapping) ==
    [viewset |-> TRUE, ignored |-> FALSE, json |-> TRUE, raises |-> FALSE, includesAll |-> TRUE,
     include |-> {}, exclude |-> {}, ignoredActions |-> {}, mapping |-> mapping,
     ownSerializer |-> {}, derivable |-> TRUE, fields |-> fields, model |-> model]

\* A foreign key, by its column; and a field that names its target by a slug.
Key(name, column, required) ==
    [name |-> name, readOnly |-> FALSE, related |-> TRUE, target |-> name, slug |-> FALSE,
     column |-> column, required |-> required]

Slug(name) == [Key(name, "mandatory", FALSE) EXCEPT !.slug = TRUE]

Plain(name) == [Key(name, "mandatory", TRUE) EXCEPT !.related = FALSE]

NoMapping == [a \in {} |-> {}]

MCViewSets ==
    [site |-> HostClass("site", {}, NoMapping),
     device |-> [HostClass("device",
         {Key("site", "mandatory", FALSE), Slug("tag"), Plain("name"),
          [Key("rack", "mandatory", FALSE) EXCEPT !.readOnly = TRUE]}, [sync |-> {"post"}])
         EXCEPT !.exclude = {"destroy"}],
     plainDevice |-> HostClass("device", {Key("site", "mandatory", FALSE)},
                               NoMapping),
     apiDevice |-> [HostClass("device", 
         {Key("rack", "optional", FALSE), [Slug("tag") EXCEPT !.required = TRUE]},
                              [sync |-> {"get", "post"}]) EXCEPT !.ownSerializer = {"sync"}],
     opaqueDevice |-> [HostClass("device", {Key("site", "unknown", TRUE)},
                                 NoMapping) EXCEPT !.derivable = FALSE],
     page |-> [HostClass("page", {}, NoMapping) EXCEPT !.json = FALSE],
     broken |-> [HostClass("broken", {}, NoMapping) EXCEPT !.raises = TRUE],
     quiet |-> [HostClass("site", {}, NoMapping) EXCEPT !.includesAll = FALSE, !.include = {"list"}]]

MCTools == {"device_list", "device_create", "device_sync", "site_list", "site_create", "hello"}

MCGroups == {"net", "spare"}

MCToolName ==
    [k \in {"device", "site"} \X {"list", "create", "sync", "destroy", "partial_update"} |->
        CASE k[1] = "device" /\ k[2] = "list"   -> "device_list"
          [] k[1] = "device" /\ k[2] = "create" -> "device_create"
          [] k[1] = "device" /\ k[2] = "sync"   -> "device_sync"
          [] k[1] = "site" /\ k[2] = "list"     -> "site_list"
          [] OTHER                              -> "site_create"]

HostTool(kind, annotated, discoverable) ==
    [kind |-> kind, annotated |-> annotated, discoverable |-> discoverable]

MCDeclared == [hello |-> HostTool("tool", TRUE, FALSE)]

MCBundles == [net |-> {"device"}, spare |-> {"rack"}]

MCVersionSegments == {"api", "v1"}

MCLabels == {"device", "device_create", "site", "net", "rack", "none"}

MCUnder ==
    [l \in MCLabels |->
        CASE l = "device" -> {"device_list", "device_create", "device_sync"}
          [] l = "device_create" -> {"device_create"}
          [] l = "site" -> {"site_list", "site_create"}
          [] l = "net" -> {"net"}
          [] OTHER -> {}]

Url(class, basename, path, bindings) ==
    [class |-> class, basename |-> basename, path |-> path, bindings |-> bindings]

Bind(method, action) == [method |-> method, action |-> action]

ListCreate == <<Bind("get", "list"), Bind("post", "create")>>

Api(resource) == <<"api", resource>>

Sites == Url("site", "site", Api("places"), ListCreate)
Quiet == Url("quiet", "none", <<"site", "v1">>, ListCreate)
Devices(class) == Url(class, "device", Api("device"), ListCreate)
Pages(class) == Url(class, "none", <<"device">>, ListCreate)
Sync(class) == Url(class, "device", Api("device"), <<Bind("post", "sync")>>)

HostUrls ==
    {<<Sites, Devices("device"), Devices("device"), Sync("device")>>,
     <<Pages("plainDevice"), Sites, Devices("apiDevice"), Sync("apiDevice")>>,
     <<Devices("apiDevice"), Pages("plainDevice"), Quiet>>,
     <<Devices("plainDevice"), Sites>>,
     <<Devices("opaqueDevice"), Url("page", "site", Api("site"), ListCreate), Sites>>,
     <<Sites, Url("broken", "device", Api("device"), ListCreate), Devices("device")>>}

Entry_(kind, label, resource) == [kind |-> kind, label |-> label, resource |-> resource]

Everything == Entry_("wildcard", "none", "none")

Entries ==
    {Entry_("bare", "device", "none"), Entry_("bare", "site", "none"),
     Entry_("bare", "rack", "none"), Entry_("starred", "net", "none"),
     Entry_("qualified", "net", "device"), Entry_("qualified", "net", "rack"),
     Entry_("qualified", "rack", "device"), Entry_("unmatchable", "none", "device")}

FewOf(S) == {{}} \cup {{x} : x \in S} \cup {{x, y} : x, y \in S}

Path(form, path) == [form |-> form, path |-> path]

Literal(path) == Path("literal", path)

RouteBlock(path, tier) ==
    [mapping |-> TRUE, surplus |-> FALSE, path |-> path, tier |-> tier, auto_discover |-> "off",
     auto_register |-> "off", allow |-> {Everything}, deny |-> {}]

Routes(blocks) == [form |-> "mapping", block |-> blocks]

Setting(spelling, tier) == [spelling |-> spelling, tier |-> tier]

Elevated == RouteBlock(Literal(<<"mcp", "elevated">>), "read_write")

Base ==
    [enabled |-> TRUE, urlconf |-> TRUE, oauth |-> TRUE, autodiscover |-> TRUE,
     routes |-> Routes([default |-> RouteBlock(Literal(<<"mcp">>), "read"),
                        elevated |-> Elevated]),
     path |-> <<"mcp">>, prefix |-> <<"mcp">>, extra |-> {}, protected |-> {},
     healthchecks |-> {<<"backend", "healthcheck">>}, host |-> <<>>,
     classes |-> {}, opaqueAdmits |-> FALSE, allowUnauthenticated |-> FALSE,
     maxTier |-> Setting("absent", "admin"),
     urls |-> <<Sites, Devices("device")>>, overrides |-> {},
     allowsAllTools |-> TRUE, allowedTools |-> {}, deniedTools |-> {}, middlewareBroken |-> FALSE,
     command |-> "serve", skipsChecks |-> FALSE, security |-> FALSE,
     debug |-> FALSE, apiKeys |-> {}, serviceAccount |-> "unset", anonymousTier |-> "absent",
     permissionAware |-> FALSE, publicDiscovery |-> TRUE, tokenRate |-> "unset",
     usagePolicy |-> "unset", heavyCache |-> "own", agents |-> FALSE, tokens |-> TRUE,
     authenticators |-> {"tokens", "oauth"}, hmacKey |-> "own", proxies |-> 1,
     localCache |-> FALSE, paged |-> FALSE, listCached |-> FALSE, registrationOpen |-> FALSE,
     authorizeUrl |-> "unset", tierPermissions |-> "unset", redirectTierMap |-> FALSE,
     autoRegister |-> FALSE, autoRegisterHosts |-> "none", autoApprove |-> FALSE,
     consents |-> FALSE, serviceUser |-> TRUE, bodyLimit |-> TRUE]

-----------------------------------------------------------------------------
(* Where everything is mounted. *)

Paths ==
    {Literal(p) : p \in {<<"mcp">>, <<"mcp", "elevated">>, <<"mcp", "x">>, <<"x">>, <<"oauth">>,
                         <<"backend">>, <<"backend", "healthcheck">>, <<"register", "x">>,
                         <<WellKnown>>}}
    \cup {Path("template", <<"mcp">>), Literal(<<>>), Path("unusable", <<>>)}

ManualMount == Pattern("slashed", <<"mcp">>, "gateway", "frisian_mcp")

\* Hosts that write the metadata patterns themselves: without some of those of the protected
\* resources, or with no others.
LeavesOut(kinds) ==
    <<{p \in WellknownUrls : p.serves = "oauth-protected-resource" => p.kind \notin kinds}>>

HandRolled ==
    {LeavesOut({"bare", "below"}), LeavesOut({"bare"}), LeavesOut({"below"}),
     <<{p \in WellknownUrls : p.serves = "oauth-protected-resource"}>>}

Hosts ==
    {<<>>, <<{ManualMount}>>, <<{Pattern("below", <<"x">>, "page", "host")}>>,
     <<OAuthUrls, {Pattern("either", <<"mcp">>, "page", "host")}>>, <<WellknownUrls>>}

Mounts ==
    {[Base EXCEPT !.routes = Routes([default |-> RouteBlock(p, "read"),
                                     elevated |-> RouteBlock(q, "read_write")]),
                  !.host = h, !.oauth = o] :
        p \in Paths, q \in Paths, h \in Hosts, o \in BOOLEAN}
    \cup
    {[Base EXCEPT !.routes = Routes([default |-> RouteBlock(p, "read"),
                                     elevated |-> RouteBlock(q, "read_write")]),
                  !.classes = {"auth_requiring"}] : p \in Paths, q \in Paths}
    \cup
    {[Base EXCEPT !.routes.form = f, !.host = h, !.urlconf = u, !.extra = e, !.protected = e,
                  !.healthchecks = k] :
        f \in {"unset", "empty", "text", "mapping"}, h \in Hosts, u \in BOOLEAN,
        e \in {{}, {<<"x">>}}, k \in {{}, {<<"x">>}, {<<"mcp", "up">>}}}

-----------------------------------------------------------------------------
(* Who may pass, and how far. *)

Words == {"read", "read_write", "admin", "undeclared"}

MaxTiers == {Setting(s, t) : s \in {"exact", "padded"}, t \in Tiers}
            \cup {Setting("absent", "admin"), Setting("wrong", "read")}

Ceilings ==
    {[Base EXCEPT !.routes = Routes([default |-> RouteBlock(Literal(<<"mcp">>), d),
                                     admin |-> RouteBlock(Literal(<<"x">>), a)]),
                  !.classes = c, !.opaqueAdmits = o, !.allowUnauthenticated = u, !.maxTier = m] :
        d \in Words, a \in Words, o \in BOOLEAN, u \in BOOLEAN, m \in MaxTiers,
        c \in SUBSET {"auth_requiring", "anonymous_granting", "partial_anonymous", "opaque"}}

FaultyBlocks ==
    {[Elevated EXCEPT !.mapping = FALSE], [Elevated EXCEPT !.surplus = TRUE],
     [Elevated EXCEPT !.tier = "root"], [Elevated EXCEPT !.auto_discover = "maybe"],
     [Elevated EXCEPT !.auto_discover = "on"], [Elevated EXCEPT !.auto_register = "on"],
     [Elevated EXCEPT !.auto_register = "maybe"], [Elevated EXCEPT !.allow = {}]}
    \cup {[Elevated EXCEPT !.deny = {Entry_(k, "none", "none")}] :
              k \in MalformedKinds \cup {"wildcard", "number"}}

-----------------------------------------------------------------------------
(* What is scanned, and what the routes make of it. *)

Carves ==
    {[Base EXCEPT !.urls = u, !.routes = Routes([default |->
          [RouteBlock(Literal(<<"mcp">>), "read") EXCEPT !.allow = a, !.deny = d]])] :
        u \in HostUrls, a \in FewOf(Entries \cup {Everything}), d \in FewOf(Entries)}

-----------------------------------------------------------------------------
(* What an operator is told. *)

OneRoute(block) == Routes([elevated |-> block])

Told ==
    LET some == {Base, [Base EXCEPT !.debug = TRUE, !.oauth = FALSE],
                 [Base EXCEPT !.routes = Routes([default |-> [Elevated EXCEPT !.deny =
                     {Entry_("bare", "device", "none"), Entry_("bare", "site", "none"),
                      Entry_("bare", "rack", "none")}]]), !.classes = {"auth_requiring"}],
                 [Base EXCEPT !.routes.form = "unset"], [Base EXCEPT !.host = <<OAuthUrls>>,
                                                        !.urlconf = FALSE]}
             \cup {[Base EXCEPT !.routes = OneRoute(b)] : b \in FaultyBlocks}
             \cup {[Base EXCEPT !.routes = OneRoute([Elevated EXCEPT !.path = p])] : p \in Paths}
             \cup {[Base EXCEPT !.urls = u] : u \in HostUrls}
             \cup {[Base EXCEPT !.host = h, !.publicDiscovery = p] :
                       h \in HandRolled \cup {<<WellknownUrls>>}, p \in BOOLEAN}
    IN  UNION {
          {[b EXCEPT !.command = c, !.skipsChecks = s, !.enabled = e, !.autodiscover = a,
                     !.middlewareBroken = m] :
              b \in some, c \in {"serve", "doctor", "strict"}, s \in BOOLEAN, e \in BOOLEAN,
              a \in BOOLEAN, m \in BOOLEAN},
          {[b EXCEPT !.command = c, !.security = TRUE] : c \in {"doctor", "strict"}, b \in
              {[Base EXCEPT !.publicDiscovery = FALSE], [Base EXCEPT !.tokenRate = "malformed"],
               [Base EXCEPT !.permissionAware = TRUE], [Base EXCEPT !.usagePolicy = "malformed"],
               [Base EXCEPT !.agents = TRUE, !.tokens = FALSE],
               [Base EXCEPT !.paged = TRUE, !.listCached = TRUE],
               [Base EXCEPT !.registrationOpen = TRUE, !.authorizeUrl = "down"],
               [Base EXCEPT !.tierPermissions = "malformed", !.redirectTierMap = TRUE],
               [Base EXCEPT !.apiKeys = {[hashed |-> FALSE, tier |-> "root"]}],
               [Base EXCEPT !.autoApprove = TRUE, !.autoRegister = TRUE],
               [Base EXCEPT !.localCache = TRUE, !.authenticators = {}, !.proxies = 0]}
              \cup {[Base EXCEPT !.heavyCache = h] : h \in {"default", "missing", "same store"}}
              \cup {[Base EXCEPT !.hmacKey = k] : k \in {"unset", "secret"}}
              \cup {[Base EXCEPT !.serviceAccount = a, !.serviceUser = FALSE, !.bodyLimit = FALSE] :
                        a \in {"missing", "staff", "superuser", "plain"}}
              \cup {[Base EXCEPT !.anonymousTier = t] : t \in Tiers \cup {"none", "wrong"}}
              \cup {[Base EXCEPT !.autoRegister = r, !.autoRegisterHosts = k, !.debug = d] :
                        r \in BOOLEAN, d \in BOOLEAN, k \in {"some", "none", "no list"}}}}

Scanned ==
    {[Base EXCEPT !.urls = u, !.command = "doctor", !.overrides = o, !.allowsAllTools = w,
                  !.allowedTools = {"device_create", "site_list"}, !.deniedTools = d] :
        u \in HostUrls, o \in {{}, {<<"device_create", "tag">>, <<"device_create", "rack">>}},
        w \in BOOLEAN, d \in {{}, {"site_list"}}}

MCConfigurations == <<Mounts, Ceilings, Carves, Told, Scanned>>
=============================================================================
