------------------------------ MODULE HostScan ------------------------------
(***************************************************************************)
(* Discovery walks the host's URL table, once, and registers a tool for    *)
(* every action of every viewset it finds (backends/discovery.py,          *)
(* _relations.py, and the merge in apps.py).  The walk takes one URL       *)
(* pattern after the other; an exception ends it, is logged, and what has  *)
(* been found by then is registered.                                       *)
(*                                                                         *)
(* A viewset is a record of what reflection says of it.  Of a tool's input *)
(* schema only the relations count that a caller must supply.              *)
(***************************************************************************)
EXTENDS GatewayBoot

CONSTANTS
    ViewSets,       \* ViewSets[c] : the declarations of class c
    VersionSegments,    \* segments of a path that name no resource
    ToolName,       \* ToolName[<<resource, action>>] : the name of the tool
    Declared,       \* Declared[n] : what the host says of the tool it registers itself as n
    Bundles,        \* Bundles[g] : the resources that dispatch group g is configured for
    Shadows         \* tools that a class dispatcher of the host stands for

\* The URL patterns of a host, in order, lead to classes; a serializer's fields have names.
ASSUME HostAssumption ==
    /\ \A i \in DOMAIN Configurations : \A c \in Configurations[i] :
           /\ c.urls \in Seq(Range(c.urls))
           /\ \A p \in Range(c.urls) : p.class \in DOMAIN ViewSets
    /\ \A c \in DOMAIN ViewSets : \A f, g \in ViewSets[c].fields : f.name = g.name => f = g

VARIABLES
    todo,           \* the URL patterns still to be walked
    seen,           \* the pairs of class and action that have a tool
    found,          \* the tools found, pattern by pattern
    merged,         \* one of them for each name, as the merge at the end will choose it
    relations,      \* relations[n] : the relations recorded under tool name n
    registered      \* the registry: an entry for each name

scanVars == <<todo, seen, found, merged, relations, registered>>

WriteMethods == {"post", "put", "patch", "delete"}

StandardMethod ==
    [list |-> "get", retrieve |-> "get", create |-> "post", update |-> "put",
     partial_update |-> "patch", destroy |-> "delete"]

Standard == DOMAIN StandardMethod

\* The methods that @action or a router has bound to an action of its own, if any.
Mapping(c, a) == IF a \in DOMAIN ViewSets[c].mapping THEN ViewSets[c].mapping[a] ELSE {}

-----------------------------------------------------------------------------
(* The relations a caller must supply. *)

BodyActions ==
    {"create", "update", "partial_update", "bulk_update", "bulk_partial_update"}

HasBody(c, a) == a \in BodyActions \/ Mapping(c, a) \cap {"post", "put", "patch"} # {}

\* resolve_relation(): a serializer's field, and the column it is looked up in, which may be
\* unknown, optional (nullable, or with a default) or mandatory.
Outcome(f) ==
    IF ~f.related THEN "not applicable"
    ELSE IF f.target = "unknown" \/ f.slug \/ f.column = "unknown" THEN "unevaluated"
    ELSE "resolved"

InferRequired(f) == Outcome(f) = "resolved" /\ f.column = "mandatory"

\* get_input_schema(): what a serializer that cannot be built says is nothing.
SchemaFields(c, a) ==
    IF HasBody(c, a) /\ ViewSets[c].derivable
    THEN {f \in ViewSets[c].fields : ~f.readOnly} ELSE {}

Collected(c, a) ==
    {[field |-> f.name, target |-> f.target, outcome |-> Outcome(f)] :
        f \in {g \in SchemaFields(c, a) : Outcome(g) # "not applicable"}}

\* A custom action requires what its own serializer requires, not what create does.
InheritsRequired(c, a) == a \in Standard \/ a \in ViewSets[c].ownSerializer

\* The fields of the schema that are required: the serializer's, unless the action updates
\* a part, and those of FRISIAN_MCP_REQUIRED_FIELD_OVERRIDES.
RequiredFields(c, a, name) ==
    {f.name : f \in {g \in SchemaFields(c, a) :
        a # "partial_update" /\ InheritsRequired(c, a) /\ (g.required \/ InferRequired(g))}}
    \cup {o[2] : o \in {x \in conf.overrides : x[1] = name}}

\* narrow_relations(): required ones are marked, others kept only while nothing is known.
Narrowed(c, a, name) ==
    {[field |-> r.field, target |-> r.target, outcome |-> r.outcome,
      required |-> r.field \in RequiredFields(c, a, name)] :
        r \in {x \in Collected(c, a) :
                  x.field \in RequiredFields(c, a, name) \/ x.outcome = "unevaluated"}}

-----------------------------------------------------------------------------
(* One URL pattern. *)

Eligible(c) == ViewSets[c].viewset /\ ~ViewSets[c].ignored /\ ViewSets[c].json

\* mcp_include_actions, mcp_exclude_actions and @mcp_ignore.
Selected(c, a) ==
    /\ ViewSets[c].includesAll \/ a \in ViewSets[c].include
    /\ a \notin ViewSets[c].exclude \cup ViewSets[c].ignoredActions

Taken(p, a) == <<p.class, a>> \in seen

NewActions(p) ==
    {a \in {b.action : b \in Range(p.bindings)} : Selected(p.class, a) /\ ~Taken(p, a)}

\* The first method that the URL binds to the action decides whether the tool writes.
MethodOf(p, a) ==
    LET bound == {i \in DOMAIN p.bindings : p.bindings[i].action = a}
    IN  p.bindings[CHOOSE i \in bound : \A j \in bound : i <= j].method

TierOf(m) == IF m \in WriteMethods THEN "read_write" ELSE "read"

\* The basename of the router or, without one, the last segment that is no version.
Resource(p) ==
    LET named == {i \in DOMAIN p.path : p.path[i] \notin VersionSegments}
    IN  IF p.basename # "none" THEN p.basename
        ELSE IF named = {} THEN "unknown"
        ELSE p.path[CHOOSE i \in named : \A j \in named : j <= i]

Definition(p, a) ==
    [name |-> ToolName[<<Resource(p), a>>], class |-> p.class, action |-> a,
     method |-> MethodOf(p, a), tier |-> TierOf(MethodOf(p, a)), api |-> "api" \in Range(p.path)]

Definitions(p) == {Definition(p, a) : a \in NewActions(p)}

\* record_write_relations(): under the tool's name, over what was there.
Examined(defs) ==
    LET writes == {d \in defs : d.method \in {"post", "put"}}
        names == {d.name : d \in writes}
        of(n) == CHOOSE d \in writes : d.name = n
    IN  [n \in DOMAIN relations \cup names |->
            IF n \in names THEN Narrowed(of(n).class, of(n).action, n) ELSE relations[n]]

\* Seeded defect: the last one that is found wins.
PreferLatest(existing, candidate) == candidate

PreferApiTool(existing, candidate) ==
    IF candidate.api /\ ~existing.api THEN candidate ELSE existing

\* The merge when the walk is over takes the tools in the order in which they were found.
MergedWith(defs) ==
    LET names == {d.name : d \in defs}
        of(n) == CHOOSE d \in defs : d.name = n
    IN  [n \in DOMAIN merged \cup names |->
            IF n \notin names THEN merged[n]
            ELSE IF n \notin DOMAIN merged THEN of(n)
            ELSE PreferApiTool(merged[n], of(n))]

ScanInit ==
    /\ BootInit
    /\ todo = <<>> /\ seen = {} /\ found = <<>> /\ merged = [n \in {} |-> {}]
    /\ relations = [n \in {} |-> {}]
    /\ registered = [n \in DOMAIN Declared |->
           [class |-> "none", action |-> "none", tier |-> "read", api |-> FALSE,
            method |-> "none", members |-> {}, hidden |-> FALSE]]

\* The first request, or a command that forces discovery; not twice.
StartScan ==
    /\ phase' = "scanning"
    /\ todo' = conf.urls
    /\ UNCHANGED <<conf, table, seen, found, merged, relations, registered>>

SkipPattern ==
    /\ phase = "scanning" /\ todo # <<>>
    /\ ~Eligible(Head(todo).class)
    /\ todo' = Tail(todo)
    /\ UNCHANGED <<bootVars, seen, found, merged, relations, registered>>

ScanPattern ==
    /\ phase = "scanning" /\ todo # <<>>
    /\ LET p == Head(todo) IN
           /\ Eligible(p.class) /\ ~ViewSets[p.class].raises
           /\ seen' = seen \cup {<<p.class, a>> : a \in NewActions(p)}
           /\ found' = Append(found, Definitions(p))
           /\ merged' = MergedWith(Definitions(p))
           /\ relations' = Examined(Definitions(p))
    /\ todo' = Tail(todo)
    /\ UNCHANGED <<bootVars, registered>>

\* discover_tools() catches whatever the walk raises and returns what it has.
ScanRaises ==
    /\ phase = "scanning" /\ todo # <<>>
    /\ Eligible(Head(todo).class) /\ ViewSets[Head(todo).class].raises
    /\ todo' = <<>>
    /\ UNCHANGED <<bootVars, seen, found, merged, relations, registered>>

-----------------------------------------------------------------------------
(* The registration of what the merge has chosen. *)

\* FRISIAN_MCP_TOOL_ALLOWLIST, FRISIAN_MCP_TOOL_DENYLIST, and the host's dispatchers.
Kept(n) ==
    /\ conf.allowsAllTools \/ n \in conf.allowedTools
    /\ n \notin conf.deniedTools \cup Shadows

Entry(d) == [class |-> d.class, action |-> d.action, tier |-> d.tier, api |-> d.api,
             method |-> d.method, members |-> {}, hidden |-> FALSE]

\* Discovery overwrites what the host declared under the same name.
WithTools ==
    LET kept == {n \in DOMAIN merged : Kept(n)}
    IN  [n \in DOMAIN registered \cup kept |->
            IF n \in kept THEN Entry(merged[n]) ELSE registered[n]]

\* _find_group_members(): the tools whose names begin with one of the resources.
MembersOf(g) == (UNION {Under[l] : l \in Bundles[g]}) \cap DOMAIN WithTools

Installed == {g \in DOMAIN Bundles : MembersOf(g) # {}}

GroupEntry(g) == [class |-> "none", action |-> "none", tier |-> "read", api |-> FALSE,
                  method |-> "none", members |-> MembersOf(g), hidden |-> FALSE]

WithGroups ==
    [n \in DOMAIN WithTools \cup Installed |->
        IF n \in Installed THEN GroupEntry(n)
        ELSE [WithTools[n] EXCEPT !.hidden = \E g \in Installed : n \in MembersOf(g)]]

\* Routes that do not parse raise where they are named; load_middleware() may raise.
RoutesUnusable == SchemaFault \/ \E n \in Configured : PathFault(n)

\* There are neither groups nor an audit; or, where a list does not parse, no views.
ScanFails ==
    /\ phase = "scanning" /\ todo = <<>>
    /\ \/ /\ conf.middlewareBroken \/ RoutesUnusable
          /\ registered' = WithTools
       \/ /\ ~conf.middlewareBroken /\ ~RoutesUnusable
          /\ \E n \in Configured : CheckGrammar(n) # {}
          /\ registered' = WithGroups
    /\ phase' = "failed"
    /\ UNCHANGED <<conf, table, todo, seen, found, merged, relations>>

ScanEnds ==
    /\ phase = "scanning" /\ todo = <<>>
    /\ ~conf.middlewareBroken /\ ~RoutesUnusable
    /\ \A n \in Configured : CheckGrammar(n) = {}
    /\ phase' = "finalized"
    /\ registered' = WithGroups
    /\ UNCHANGED <<conf, table, todo, seen, found, merged, relations>>

-----------------------------------------------------------------------------
(* Properties. *)

Walked == phase \in {"finalized", "failed"}

EveryDefinition == UNION Range(found)

NothingRaises == \A p \in Range(conf.urls) : Eligible(p.class) => ~ViewSets[p.class].raises

\* What the pattern leads to, and its class selects, has been found.
Covered(p) ==
    Eligible(p.class) =>
        \A a \in {b.action : b \in Range(p.bindings)} :
            Selected(p.class, a) => \E d \in EveryDefinition : d.class = p.class /\ d.action = a

\* The scan registers each action of a class once, whatever URLs lead to it; unless it raises
\* it passes over no action that is selected; and where two classes share a tool's name the
\* one under the API root is registered, in whichever order the URLs stand (_process_pattern
\* and its set of pairs seen, _prefer_api_tool).
ScanIsFaithful ==
    Walked =>
        /\ \A i, j \in DOMAIN found : \A d \in found[i], e \in found[j] :
               d.class = e.class /\ d.action = e.action => i = j /\ d = e
        /\ NothingRaises => \A p \in Range(conf.urls) : Covered(p)
        /\ \A d \in EveryDefinition :
               d.api /\ Kept(d.name) /\ d.name \notin Installed => registered[d.name].api
=============================================================================
