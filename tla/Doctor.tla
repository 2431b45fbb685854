------------------------------- MODULE Doctor -------------------------------
(***************************************************************************)
(* What an operator learns of a host: the system checks of the package     *)
(* (checks.py) and the command mcp_doctor.  The command runs in a process  *)
(* that ready() has set up, runs the system checks unless it is told to    *)
(* skip them, forces discovery, and reports; with --strict it exits with   *)
(* an error where a route exposes nothing or an audit could not run.       *)
(*                                                                         *)
(* A check is the set of what it reports; messages that all is well are    *)
(* left out.                                                               *)
(***************************************************************************)
EXTENDS RouteAudit

CONSTANT ManyTools      \* the number of tools above which a list should be paged: 80

VARIABLE verdict        \* what the command has come to, and what it has reported

doctorVars == <<bootVars, scanVars, surfaceFindings, verdict>>

Error(id) == {[id |-> id, level |-> "error"]}

Warning(id) == {[id |-> id, level |-> "warning"]}

-----------------------------------------------------------------------------
(* The system checks. *)

CheckPermissionClasses ==
    When(~conf.debug /\ ~conf.allowUnauthenticated /\ conf.classes = {}, Warning("W001"))

CheckApiKeys ==
    When(\E k \in conf.apiKeys : ~k.hashed \/ k.tier \notin Tiers, Warning("W002"))

CheckServiceAccount == When(~conf.debug /\ conf.serviceAccount # "unset", Warning("W003"))

CheckMaxTierValue == When(InvalidMaxTier, Error("E010"))

\* classify_unauthenticated_tier(): what an anonymous caller is granted; "none" is nothing.
AnonymousTier ==
    IF conf.anonymousTier = "absent" THEN "read"
    ELSE IF conf.anonymousTier \in Tiers THEN conf.anonymousTier ELSE "none"

CheckUnauthenticatedTier ==
    When(conf.anonymousTier \notin Tiers \cup {"absent", "none"}, Error("E007"))

HostTools == DOMAIN Declared \cap DOMAIN registered

\* A dispatcher that has neither actions of its own nor members can route to nothing.
CheckDispatcherMembership ==
    When(\E n \in HostTools : Declared[n].kind = "bare dispatcher", Error("E008"))

\* What a caller may discover by its permissions must be known of every tool.
CheckCapabilities ==
    When(\E n \in HostTools : Declared[n].kind = "class dispatcher" /\ ~Declared[n].annotated,
         Error("E003"))
    \cup
    When(\E n \in HostTools :
             ~registered[n].hidden /\ registered[n].class = "none"
             /\ ~Declared[n].discoverable /\ registered[n].members = {}, Warning("W015"))

CheckPublicDiscovery == When(conf.oauth /\ ~conf.publicDiscovery, Warning("W012"))

CheckTokenRateLimit == When(conf.oauth /\ conf.tokenRate = "malformed", Warning("W013"))

CheckUsagePolicy == When(conf.usagePolicy = "malformed", Warning("W014"))

\* The cache of continuations: the one of the authorization codes, one that does not exist,
\* another name for the same store, or a store of its own.
CheckHeavyCache ==
    When(conf.heavyCache \in {"default", "same store"}, Warning("W016"))
        \cup When(conf.heavyCache = "missing", Error("E009"))

SystemChecks ==
    {[id |-> f.id, level |-> f.level] : f \in AuditRouteConfigs}
        \cup CheckPermissionClasses \cup CheckApiKeys \cup CheckServiceAccount
        \cup CheckMaxTierValue \cup CheckUnauthenticatedTier \cup CheckDispatcherMembership
        \cup When(conf.permissionAware, CheckCapabilities)
        \cup CheckPublicDiscovery \cup CheckTokenRateLimit \cup CheckUsagePolicy
        \cup CheckHeavyCache

-----------------------------------------------------------------------------
(* The sections of mcp_doctor. *)

CheckInstalledApps == When(conf.agents /\ ~conf.tokens, Error("agents without tokens"))

\* The layers hold the bare URL of one of the metadata documents, under its name.
Named(layers, view) ==
    \E i \in DOMAIN layers : \E p \in layers[i] :
        p.app = "frisian_mcp_oauth_wellknown" /\ p.kind = "bare" /\ p.serves = view

\* Seeded defect: asks for a neighbour of the endpoint that the check is about.
NeighbourMounted(view) == \E other \in Metadata \ {view} : Named(table, other)

\* _wellknown_url_mounted(): the name can be reversed.
WellknownUrlMounted(view) == Named(table, view)

CheckUrlMounting ==
    When(~HasRoutes /\ ~Includes(table, "frisian_mcp"), Warning("gateway not mounted"))
        \cup When(~WellknownUrlMounted("oauth-authorization-server"),
                  Warning("metadata not mounted"))

CheckAuthWiring ==
    When(conf.tokens /\ "tokens" \notin conf.authenticators, Warning("tokens not wired"))
        \cup When(conf.oauth /\ "oauth" \notin conf.authenticators, Warning("oauth not wired"))

CheckSecuritySettings ==
    When(conf.debug, Warning("debug"))
        \cup When(conf.hmacKey = "unset", Warning("hmac key unset"))
        \cup When(CheckUnauthenticatedTier # {}, Error("anonymous tier"))
        \cup When(CheckUnauthenticatedTier = {} /\ AnonymousTier \in {"read_write", "admin"},
                  Warning("anonymous tier"))
        \cup When(~conf.debug /\ conf.proxies = 0, Warning("no trusted proxy"))

CheckCacheBackend == When(conf.localCache, Warning("cache per process"))

Listed == {n \in DOMAIN registered : ~registered[n].hidden}

CheckPerformance ==
    IF phase = "failed" THEN Warning("performance not evaluated")
    ELSE When(Cardinality(Listed) > ManyTools /\ ~conf.paged, Warning("page size"))
             \cup When(Cardinality(Listed) > ManyTools /\ ~conf.listCached, Warning("list cache"))

CheckOAuthRegistration == When(conf.oauth /\ ~conf.registrationOpen, Warning("registration"))

\* The metadata view is called itself, where its bare URL is mounted; routes that do not parse
\* are no resources, paths that do not normalise raise.
CheckDiscoveryReachable ==
    IF ~HasRoutes \/ ~WellknownUrlMounted("oauth-protected-resource") \/ SchemaFault THEN {}
    ELSE IF \E n \in ProtectedResources : Unnormalizable(Block(n).path)
    THEN Warning("reachability not evaluated")
    ELSE When(ProtectedResources # {} /\ ~conf.publicDiscovery, Warning("undiscoverable"))

CheckAuthorizeUrl ==
    When(conf.authorizeUrl \in {"no url", "down", "not found"}, Warning("authorize url"))

CheckTierPermissions ==
    When(conf.oauth /\ conf.tierPermissions = "malformed", Warning("tier permissions"))

CheckRedirectTierMap == When(conf.redirectTierMap, Warning("redirect tier map"))

\* Seeded defect: --strict escalates nothing.
UnprovedWarns(id) == Warning(id)

\* What is LOUD, or proves nothing, is a failure where the command is a gate.
Unproved(id) == IF conf.command = "strict" THEN Error(id) ELSE Warning(id)

\* Reported by the next section.
CrossCarveCodes == {"W017", "W019"}

CheckRouteSurface ==
    IF ~HasRoutes THEN {}
    ELSE IF phase = "failed" THEN Unproved("surface not audited")
    ELSE UNION {IF f.severity = "LOUD" THEN Unproved(f.code) ELSE Warning(f.code) :
                    f \in {g \in AuditRouteSurface(registered) : g.code \notin CrossCarveCodes}}

CheckCrossCarve ==
    IF ~HasRoutes THEN {}
    ELSE IF phase = "failed" \/ ~CrossCarveReport(registered).evaluated
    THEN Unproved("relations not audited")
    ELSE {[id |-> f.code, level |-> "warning"] : f \in CrossCarveReport(registered).findings}

\* --security.
CheckAutoRegistration ==
    When(conf.autoRegisterHosts = "no list", Warning("allowlist shape"))
        \cup
    IF ~conf.autoRegister THEN {}
    ELSE IF conf.autoRegisterHosts = "some" THEN When(conf.debug, Warning("auto-registration"))
    ELSE IF conf.debug THEN Warning("auto-registration") ELSE Error("auto-registration")

CheckAutoApprove ==
    When(conf.autoApprove /\ ~conf.debug,
         Warning("auto-approval") \cup When(conf.autoRegister, Warning("approved on sight")))

CheckConsentRecords ==
    When(conf.oauth /\ conf.autoApprove /\ ~conf.consents, Warning("no consents"))

CheckSecurity ==
    When(conf.oauth /\ ~conf.serviceUser, Warning("service user"))
        \cup When(conf.serviceAccount \in {"missing", "staff", "superuser"},
                  Warning("service account"))
        \cup When(~conf.bodyLimit, Warning("body limit"))
        \cup CheckAutoRegistration \cup CheckAutoApprove \cup CheckConsentRecords
        \cup When(conf.hmacKey # "own", Warning("hmac key"))

Diagnosis ==
    CheckInstalledApps \cup CheckUrlMounting \cup CheckAuthWiring \cup CheckSecuritySettings
        \cup CheckCacheBackend \cup CheckPerformance \cup CheckOAuthRegistration
        \cup CheckDiscoveryReachable \cup CheckAuthorizeUrl \cup CheckTierPermissions
        \cup CheckRedirectTierMap \cup CheckRouteSurface \cup CheckCrossCarve
        \cup When(conf.security, CheckSecurity)

-----------------------------------------------------------------------------
(* A process of the host: it serves, or it runs the command. *)

HasErrors(reports) == \E r \in reports : r.level = "error"

Init == AuditInit /\ verdict = [exit |-> "running", reports |-> {}]

Boots == (ReadyWaits \/ ReadyFinalizes \/ ReadyStops) /\ UNCHANGED verdict

\* The receiver of request_started is there only where ready() came to connect it.
FirstRequest ==
    /\ conf.command = "serve" /\ phase = "mounted" /\ conf.autodiscover
    /\ StartScan
    /\ UNCHANGED <<surfaceFindings, verdict>>

CommandRefused ==
    /\ conf.command # "serve" /\ phase \in {"off", "mounted"} /\ verdict.exit = "running"
    /\ ~conf.skipsChecks /\ HasErrors(SystemChecks)
    /\ verdict' = [exit |-> "refused", reports |-> SystemChecks]
    /\ UNCHANGED <<bootVars, scanVars, surfaceFindings>>

\* force_tool_discovery() asks neither FRISIAN_MCP_ENABLED nor FRISIAN_MCP_AUTODISCOVER.
ForcesDiscovery ==
    /\ conf.command # "serve" /\ phase \in {"off", "mounted"} /\ verdict.exit = "running"
    /\ conf.skipsChecks \/ ~HasErrors(SystemChecks)
    /\ StartScan
    /\ UNCHANGED <<surfaceFindings, verdict>>

Scans == (Scan \/ ScanFinalizes) /\ UNCHANGED verdict

Reports ==
    /\ conf.command # "serve" /\ phase \in {"finalized", "failed"} /\ verdict.exit = "running"
    /\ verdict' = [exit |-> IF HasErrors(Diagnosis) THEN "failed" ELSE "clean",
                   reports |-> Diagnosis]
    /\ UNCHANGED <<bootVars, scanVars, surfaceFindings>>

Next ==
    \/ Boots \/ FirstRequest \/ CommandRefused \/ ForcesDiscovery \/ Scans \/ Reports

Spec == Init /\ [][Next]_doctorVars

-----------------------------------------------------------------------------
(* Properties. *)

Ran == verdict.exit \in {"failed", "clean"}

Reported(id) == \E r \in verdict.reports : r.id = id

\* mcp_doctor --strict is a gate on the surface it has audited: where it exits without an error
\* discovery came to its end, the lists of every route parsed, nothing on the surface that
\* requests will meet is LOUD, and that surface was made of every action there is to find.
\* Only where a class of the host raises under the walk, which is logged and no more
\* (discover_tools), does it pass on what the walk had found by then, although "A gate that
\* cannot evaluate must not pass" (mcp_doctor.py).
StrictIsAGate ==
    verdict.exit = "clean" /\ conf.command = "strict" /\ HasRoutes =>
        /\ phase = "finalized"
        /\ ~Unreadably
        /\ \A f \in AuditRouteSurface(registered) : f.severity # "LOUD"
        /\ NothingRaises => \A p \in Range(conf.urls) : Covered(p)

\* A client that is refused by the route is led by its challenge to a document that describes
\* that route, and the document is public.
Leads(n) ==
    LET url == ChallengeMetadataUrl(Block(n).path.path) IN
    /\ conf.publicDiscovery
    /\ Served(url) = "oauth-protected-resource"
    /\ Described(url) = {n}

\* The host has written patterns of its own under the namespace of the metadata, and left out
\* the bare document of the resources, or those by path.
LeftOut(n) ==
    /\ Includes(conf.host, "frisian_mcp_oauth_wellknown")
    /\ \/ ~Named(conf.host, "oauth-protected-resource")
       \/ Answer(conf.host, ChallengeMetadataUrl(Block(n).path.path)) # "oauth-protected-resource"

\* Where mcp_doctor has nothing to say about the metadata of a host with routes that can be
\* mounted, every route leads the clients it refuses to its document.  Only of a host that
\* writes the metadata patterns itself and leaves out some of the protected resources' does it
\* say nothing, or that all is well, while the challenge leads nowhere (_check_url_mounting,
\* _check_discovery_reachable, _wellknown_url_mounted).
SilenceMeansDiscoverable ==
    Ran /\ HasRoutes /\ ~RoutesUnusable
        /\ ~Reported("metadata not mounted") /\ ~Reported("undiscoverable") =>
        \A n \in ProtectedResources : Leads(n) \/ LeftOut(n)
=============================================================================
