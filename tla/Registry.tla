------------------------------ MODULE Registry ------------------------------
(***************************************************************************)
(* The tool registry (registry.py) and what a route view is made of        *)
(* (route_views.py).                                                       *)
(*                                                                         *)
(* An entry is an object: registering a name again puts another object in  *)
(* its place, and a view goes on holding the old one.  Entries of a name   *)
(* are told apart by who registered them: the import of a decorated module *)
(* or the thread that ran discovery, each of which registers a name once.  *)
(* The hidden flag belongs to the object, the registry's lock makes each   *)
(* operation one step, and entries are never removed.                      *)
(***************************************************************************)
EXTENDS RouteGrammar

CONSTANTS
    Threads,        \* worker threads of one process
    Importer,       \* who registers the tools decorated with @mcp_tool
    Manual,         \* the tools registered at import
    Discovered,     \* the tools the discovery backends find, filtered and merged
    Bundles,        \* Bundles[g] : the tools the prefixes of group g match
    Absent          \* no entry

ASSUME RegistryAssumption ==
    /\ Importer \notin Threads
    /\ Manual \in SUBSET Tools
    /\ Discovered \in SUBSET Tools
    /\ Bundles \in [Groups -> SUBSET Tools]

VARIABLES
    registry,       \* registry[n] : the entry of name n
    hidden          \* the entries whose hidden flag is set, as <<name, author>>

Authors == Threads \cup {Importer}

\* A flat tool has no members; a dispatcher is registered only if it has some.
ToolEntries == [by : Authors, members : SUBSET Tools]

ASSUME AbsentAssumption == Absent \notin ToolEntries

Registries == [Names -> ToolEntries \cup {Absent}]

Present(base) == {n \in Names : base[n] # Absent}

GroupsOf(base) == {n \in Present(base) : base[n].members # {}}

Surface(base) ==
    [names |-> Present(base), members |-> [g \in GroupsOf(base) |-> base[g].members]]

Register(n, author, members) ==
    registry' = [registry EXCEPT ![n] = [by |-> author, members |-> members]]

\* Seeded defect: the flag is kept by name, for every entry of it.
SetHiddenByName(n) == hidden' = hidden \cup {n}

\* The flag is set on whatever object the name has now.
SetHidden(n) ==
    hidden' = IF registry[n] = Absent THEN hidden ELSE hidden \cup {<<n, registry[n].by>>}

\* What the host's modules have registered when they have been imported.
Imported ==
    [n \in Names |-> IF n \in Manual THEN [by |-> Importer, members |-> {}] ELSE Absent]

RegistryInit == registry = Imported /\ hidden = {}

RegistryRestarts == registry' = Imported /\ hidden' = {}

-----------------------------------------------------------------------------
(* A view of a route, given the snapshot it was built from. *)

Visible(rule, base) == Select(rule, Surface(base))

Survivors(rule, base, g) == base[g].members \cap Visible(rule, base)

\* Seeded defect: a dispatcher is kept if its own name is selected.
EntriesSelected(rule, base) == Present(base) \cap Visible(rule, base)

\* A dispatcher is kept for its surviving members, whether or not its name is selected.
EntriesOf(rule, base) ==
    LET visible == Visible(rule, base) IN
    {n \in Present(base) : IF n \in GroupsOf(base)
                           THEN base[n].members \cap visible # {}
                           ELSE n \in visible}

\* Seeded defect: a dispatcher that lost some members is shared with the registry.
RebuiltKeepsShared(rule, base) ==
    {g \in EntriesOf(rule, base) \cap GroupsOf(base) : Survivors(rule, base, g) = {}}

\* The dispatchers that lost some members, and got a route-local closure.
Rebuilt(rule, base) ==
    {g \in EntriesOf(rule, base) \cap GroupsOf(base) :
        Survivors(rule, base, g) # base[g].members}

\* What a call through a dispatcher of the view reaches: a local closure knows the
\* survivors; a shared dispatcher is called by name, in the registry of the moment.
Reaches(rule, base, g) ==
    IF g \in Rebuilt(rule, base) THEN Survivors(rule, base, g)
    ELSE IF registry[g] = Absent THEN {} ELSE registry[g].members

\* The flat tools a request with this view can invoke, directly or through a group.
Callable(rule, base) ==
    (EntriesOf(rule, base) \ GroupsOf(base))
        \cup UNION {Reaches(rule, base, g) : g \in EntriesOf(rule, base) \cap GroupsOf(base)}

\* What tools/list shows of it under the given flags ...
Shown(rule, base, flags) == {n \in EntriesOf(rule, base) : <<n, base[n].by>> \notin flags}

\* ... and what it shows now: flags are read through the shared entries.
Listing(rule, base) == Shown(rule, base, hidden)
=============================================================================
