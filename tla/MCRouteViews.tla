---------------------------- MODULE MCRouteViews ----------------------------
EXTENDS RouteViews

CONSTANTS item, tag, ping, catalog, empty, t1, t2, open, narrow

MCTools == {item, tag, ping}
MCGroups == {catalog, empty}
MCLabels == {item, tag, ping, catalog, empty}
MCUnder == [l \in MCLabels |-> {l}]
MCBundles == [g \in MCGroups |-> IF g = catalog THEN {item, tag} ELSE {}]

\* Other processes have their discovery behind them.
MCElsewhere ==
    {[registry |-> [n \in MCTools \cup MCGroups |->
                        IF n = empty THEN Absent
                        ELSE [by |-> t1, members |-> IF n = catalog THEN {item, tag} ELSE {}]],
      hidden   |-> {item, tag} \X {t1, Importer}]}

Wild == [kind |-> "wildcard", label |-> item, resource |-> item]
Bare(l) == [kind |-> "bare", label |-> l, resource |-> l]
Slice(g, l) == [kind |-> "qualified", label |-> g, resource |-> l]
Glob == [kind |-> "unmatchable", label |-> item, resource |-> item]

Rule(allow, deny) == [allow |-> allow, deny |-> deny]

Config(o, n) == [r \in {open, narrow} |-> IF r = open THEN o ELSE n]

\* The narrow route keeps a part of the group, whose name it does not select; the other one
\* has the whole group.
MCSettings ==
    {Config(Rule({Bare(catalog), Bare(tag), Bare(ping)}, {Bare(ping), Glob}),
            Rule({Bare(ping), Bare(tag), Bare(item)}, {Slice(catalog, item)}))}

\* Everything but a group, or but a slice of it.
MCWildSettings ==
    {Config(Rule({Wild}, {Bare(catalog)}), Rule({Wild}, {Slice(catalog, tag)}))}
=============================================================================
