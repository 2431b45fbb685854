----------------------------- MODULE RouteAudit -----------------------------
(***************************************************************************)
(* The audit of the routes against the registry that discovery has filled  *)
(* (route_audit.py and RouteMatcher.audit of route_grammar.py): what a     *)
(* route's lists select, entries that select nothing, and required         *)
(* relations whose targets the route does not show.  ready() and the end   *)
(* of discovery run it and log its findings; so does mcp_doctor.           *)
(***************************************************************************)
EXTENDS HostScan

VARIABLE surfaceFindings    \* what the last audit of the surface returned

\* parse_entry(): group:* is the group, everything else is what it says.
ParseEntry(e) == [kind |-> IF e.kind = "starred" THEN "bare" ELSE e.kind,
                  label |-> e.label, resource |-> e.resource]

ParseLists(n) == [allow |-> {ParseEntry(e) : e \in Block(n).allow},
                  deny |-> {ParseEntry(e) : e \in Block(n).deny}]

\* Every group with members; a name without them is no group to the matcher.
ToolSurface(entries) ==
    LET groups == {n \in DOMAIN entries : entries[n].members # {}}
    IN  [names |-> DOMAIN entries, members |-> [g \in groups |-> entries[g].members]]

Net(n, entries) == Select(ParseLists(n), ToolSurface(entries))

AllowUnion(n, entries) == Matched(ParseLists(n).allow, ToolSurface(entries))

-----------------------------------------------------------------------------
(* Entries that select nothing. *)

Finding(code, severity, n, about) ==
    {[code |-> code, severity |-> severity, route |-> n, about |-> about]}

InertBecause(e, surface) ==
    CASE e.kind = "wildcard"                                       -> "no"
      [] e.kind = "unmatchable"                                    -> "W110"
      [] e.kind = "qualified" /\ e.label \notin DOMAIN surface.members -> "W112"
      [] OTHER -> IF Resolve(e, surface) = {} THEN "W111" ELSE "no"

\* Seeded defect: survivors are looked for under the group that the entry names.
ProbeGroup(e) == e.label

\* The label that the entry's resource part begins with: of an unmatchable entry, what stands
\* before its wildcard.
ProbeResource(e) == IF e.kind = "bare" THEN e.label ELSE e.resource

\* What an inert deny entry would have removed and is still exposed.
Survivors(e, net) == net \cap Under[ProbeResource(e)]

AuditAllow(e, n, entries) ==
    LET code == InertBecause(e, ToolSurface(entries)) IN
    When(code # "no", Finding(code, "SOFT", n, e))

AuditDeny(e, n, entries) ==
    LET code == InertBecause(e, ToolSurface(entries)) IN
    IF code = "no" THEN {}
    ELSE IF Survivors(e, Net(n, entries)) # {} THEN Finding("W113", "LOUD", n, e)
    ELSE Finding(code, "SOFT", n, e)

AuditEntries(n, entries) ==
    (UNION {AuditAllow(e, n, entries) : e \in ParseLists(n).allow})
        \cup UNION {AuditDeny(e, n, entries) : e \in ParseLists(n).deny}

\* A deny list that takes everything, or something.
CarveFindings(n, entries) ==
    LET allowed == AllowUnion(n, entries)
        net == Net(n, entries)
    IN  IF allowed # {} /\ net = {} THEN Finding("W008", "LOUD", n, "deny_list")
        ELSE When(allowed # net, Finding("W009", "SOFT", n, "deny_list"))

-----------------------------------------------------------------------------
(* Required relations off the surface of a route. *)

\* The registry does not know a tool's class: only of the actions that every viewset has is
\* the method known.
HttpMethods(entry) == IF entry.action \in Standard THEN {StandardMethod[entry.action]} ELSE {}

\* Seeded defect: what can be written counts as what can be read.
ShownModels(net, entries) ==
    {ViewSets[entries[n].class].model : n \in {m \in net : entries[m].action # "none"}}

ReadableModels(net, entries) ==
    {ViewSets[entries[n].class].model :
        n \in {m \in net : entries[m].action \in {"list", "retrieve"}}} \ {"unknown"}

Writes(net, entries) ==
    {n \in net : entries[n].tier # "read" /\ entries[n].action # "none"}

Undetermined(net, entries) == {n \in Writes(net, entries) : HttpMethods(entries[n]) = {}}

Satisfiable(net, entries) ==
    {n \in Writes(net, entries) : HttpMethods(entries[n]) \cap {"post", "put"} # {}}

Undecidable(r) == (r.outcome = "unevaluated" /\ ~r.required) \/ r.target = "unknown"

\* Pairs of a tool and a relation of it; a tool itself where nothing was recorded of it.
Unevaluated(net, entries) ==
    {<<n, "method">> : n \in Undetermined(net, entries)}
    \cup {<<n, "relations">> : n \in Satisfiable(net, entries) \ DOMAIN relations}
    \cup UNION {{<<n, r.field>> : r \in {x \in relations[n] : Undecidable(x)}} :
                    n \in Satisfiable(net, entries) \cap DOMAIN relations}

Unreadable(net, entries) ==
    UNION {{<<n, r.field>> : r \in {x \in relations[n] :
                ~Undecidable(x) /\ x.target \notin ReadableModels(net, entries)}} :
                    n \in Satisfiable(net, entries) \cap DOMAIN relations}

CrossCarveFindings(n, entries) ==
    LET net == Net(n, entries) IN
    When(Unreadable(net, entries) # {}, Finding("W017", "SOFT", n, Unreadable(net, entries)))
    \cup
    When(Unevaluated(net, entries) # {}, Finding("W019", "SOFT", n, Unevaluated(net, entries)))

-----------------------------------------------------------------------------
(* The two audits. *)

\* Lists that do not parse raise; audit_route_surface() logs that and returns no finding.
Unreadably == SchemaFault \/ \E n \in Configured : CheckGrammar(n) # {}

AuditRouteSurface(entries) ==
    IF Unreadably THEN {}
    ELSE UNION {CarveFindings(n, entries) \cup AuditEntries(n, entries)
                    \cup CrossCarveFindings(n, entries) : n \in Configured}

\* audit_cross_carve_surface() keeps apart what it has found and whether it could look.
CrossCarveReport(entries) ==
    [evaluated |-> ~Unreadably,
     findings |-> IF Unreadably THEN {}
                  ELSE UNION {CrossCarveFindings(n, entries) : n \in Configured}]

-----------------------------------------------------------------------------
(* ready() and discovery, with the audit that ends them. *)

AuditInit == ScanInit /\ surfaceFindings = {}

\* The receiver of request_started is connected, and discovery is left to the first request.
ReadyWaits ==
    /\ ReadyMounts /\ conf.autodiscover
    /\ UNCHANGED <<scanVars, surfaceFindings>>

\* FRISIAN_MCP_AUTODISCOVER = False: what the host has declared is all there is.
ReadyFinalizes ==
    /\ ReadyMounts /\ ~conf.autodiscover
    /\ surfaceFindings' = AuditRouteSurface(registered)
    /\ UNCHANGED scanVars

ReadyStops ==
    /\ ReadyOff \/ ReadyRefused
    /\ UNCHANGED <<scanVars, surfaceFindings>>

Scan ==
    /\ SkipPattern \/ ScanPattern \/ ScanRaises \/ ScanFails
    /\ UNCHANGED surfaceFindings

ScanFinalizes ==
    /\ ScanEnds
    /\ surfaceFindings' = AuditRouteSurface(registered')

-----------------------------------------------------------------------------
(* Properties. *)

Audited == phase = "finalized" /\ HasRoutes

EntriesFound(n) ==
    {f.about : f \in {g \in surfaceFindings :
        g.route = n /\ g.code \in {"W110", "W111", "W112", "W113"}}}

NamedBy(e) == Under[IF e.kind = "bare" THEN e.label ELSE e.resource]

\* The findings logged when discovery ends are true of the registry that requests meet: the
\* entries they call inert can be deleted without a change to what any route exposes; and a
\* deny entry that removes nothing is LOUD exactly when something it names by its resource is
\* still exposed there (RouteMatcher.audit).
EntryFindingsHold ==
    Audited =>
        \A n \in Configured :
            LET surface == ToolSurface(registered)
                lists == ParseLists(n)
                net == Select(lists, surface)
            IN  /\ net = Select([allow |-> lists.allow \ EntriesFound(n),
                                 deny |-> lists.deny \ EntriesFound(n)], surface)
                /\ \A e \in lists.deny :
                       Finding("W113", "LOUD", n, e) \subseteq surfaceFindings
                           <=> Resolve(e, surface) = {} /\ net \cap NamedBy(e) # {}

\* The relations that a class really demands.
Demanded(name) ==
    LET entry == registered[name] IN
    {r \in Collected(entry.class, entry.action) : r.field \in RequiredFields(entry.class, entry.action, name)}

\* Only one action of one class has claimed the tool.
ClaimedOnce(name) ==
    \A d, e \in EveryDefinition :
        d.name = name /\ e.name = name => d.class = e.class /\ d.action = e.action

\* Where a route has neither W017 nor W019 a caller can find, on the route itself, a value for
\* every relation that its creating and replacing tools demand: the target has a list or a
\* retrieve there.  And W017 names no relation for which this is so.  Of tools that two actions
\* claim, and of serializers that cannot be built, the audit knows less (_relations.py).
DiscoverabilityIsDecided ==
    Audited =>
        \A n \in Configured :
            LET net == Net(n, registered)
                shown(m) == \E t \in net : /\ registered[t].action \in {"list", "retrieve"}
                                            /\ ViewSets[registered[t].class].model = m
                known == {t \in net : /\ registered[t].action \in {"create", "update"}
                                       /\ registered[t].tier = "read_write"
                                       /\ ClaimedOnce(t)}
                reported(code) == {f.about : f \in {g \in surfaceFindings :
                                                       g.route = n /\ g.code = code}}
            IN  /\ reported("W017") \cup reported("W019") = {} =>
                       \A t \in known : \A r \in Demanded(t) : shown(r.target)
                /\ \A pairs \in reported("W017") : \A t \in known :
                       \A r \in Demanded(t) : <<t, r.field>> \in pairs => ~shown(r.target)
=============================================================================
