---------------------------- MODULE RouteGrammar ----------------------------
(***************************************************************************)
(* The allow and deny lists of a route (route_grammar.py): what a parsed   *)
(* entry matches on a surface, and what a route selects.                   *)
(*                                                                         *)
(* A surface is what the matcher knows of the registry: the registered     *)
(* names, and the members of each registered dispatch group.  Prefixes are *)
(* a table: Under[l] is every name that is l or begins with l and the      *)
(* separator.                                                              *)
(***************************************************************************)
CONSTANTS
    Tools,      \* names of flat tools
    Groups,     \* names of configured dispatch groups
    Labels,     \* what a list entry may name
    Under       \* Under[l] : the names that label l is a prefix of

Names == Tools \cup Groups

ASSUME NamesAssumption ==
    /\ Tools \cap Groups = {}
    /\ Under \in [Labels -> SUBSET Names]

Kinds == {"wildcard", "bare", "qualified", "unmatchable"}

ParsedEntries == [kind : Kinds, label : Labels, resource : Labels]

\* A wildcard in a deny list is refused at boot, and the process does not start.
DenyEntries == {e \in ParsedEntries : e.kind # "wildcard"}

RouteRules == [allow : SUBSET ParsedEntries, deny : SUBSET DenyEntries]

\* A registered group shadows a tool or resource of the same name.
ResolveBare(e, surface) ==
    IF e.label \in DOMAIN surface.members
    THEN surface.members[e.label] \cup ({e.label} \cap surface.names)
    ELSE surface.names \cap Under[e.label]

ResolveQualified(e, surface) ==
    IF e.label \in DOMAIN surface.members
    THEN surface.members[e.label] \cap Under[e.resource]
    ELSE {}

Resolve(e, surface) ==
    CASE e.kind = "wildcard"  -> surface.names
      [] e.kind = "bare"      -> ResolveBare(e, surface)
      [] e.kind = "qualified" -> ResolveQualified(e, surface)
      [] OTHER                -> {}

Matched(entries, surface) == UNION {Resolve(e, surface) : e \in entries}

\* Deny is evaluated after allow and always wins.
Select(rule, surface) ==
    Matched(rule.allow, surface) \ Matched(rule.deny, surface)

\* What a rule denies by the name of a tool or a resource: this part of a deny list
\* means the same on every surface.
DeniedByName(rule) ==
    UNION {Under[e.label] : e \in {d \in rule.deny : d.kind = "bare" /\ d.label \notin Groups}}
=============================================================================
