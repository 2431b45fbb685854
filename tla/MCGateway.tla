------------------------------ MODULE MCGateway ------------------------------
(***************************************************************************)
(* A gateway with the tools of devices, on their own and in a group, a     *)
(* class dispatcher and a Python callable.                                 *)
(***************************************************************************)
EXTENDS Gateway, TLC

ToolOf(kind, tier) ==
    [kind |-> kind, tier |-> tier, members |-> {}, discloses |-> TRUE, admits |-> TRUE,
     write |-> FALSE, heavy |-> FALSE, backed |-> "view", retrieve |-> None, hidden |-> FALSE]

Writer(tier, retrieve) == [ToolOf("flat", tier) EXCEPT !.write = TRUE, !.retrieve = retrieve]

MCTool ==
    [device_create   |-> [Writer(1, "device_retrieve") EXCEPT !.hidden = TRUE],
     device_update   |-> [Writer(1, "device_retrieve") EXCEPT !.discloses = FALSE],
     device_retrieve |-> ToolOf("flat", 0),
     device_wipe     |-> Writer(2, None),
     archive         |-> [Writer(1, None) EXCEPT !.heavy = TRUE],
     report          |-> [ToolOf("flat", 0) EXCEPT !.heavy = TRUE],
     vault           |-> [ToolOf("flat", 0) EXCEPT !.admits = FALSE],
     hello           |-> [ToolOf("flat", 0) EXCEPT !.backed = "python"],
     net             |-> [ToolOf("group", 0) EXCEPT !.members =
                              {"device_create", "device_retrieve", "device_wipe", "report"}],
     ops             |-> [ToolOf("class", 0) EXCEPT !.members = {"status", "restart"}],
     status          |-> ToolOf("action", 0),
     restart         |-> [ToolOf("action", 2) EXCEPT !.write = TRUE]]

MCNames == DOMAIN MCTool

Result(shape, id, large) == [shape |-> shape, id |-> id, large |-> large]

MCResults ==
    [view   |-> {Result("object", TRUE, FALSE), Result("object", FALSE, TRUE),
                 Result("list", TRUE, TRUE), Result("empty list", FALSE, FALSE),
                 Result("deleted", FALSE, FALSE)},
     python |-> {Result("other", FALSE, TRUE), Result("unserializable", FALSE, FALSE)}]

-----------------------------------------------------------------------------
(* Requests. *)

Call(name) ==
    [form |-> "request", method |-> "tools/call", name |-> name, object |-> TRUE, token |-> FALSE,
     member |-> None, resource |-> FALSE, exact |-> TRUE, nested |-> TRUE, verify |-> FALSE,
     valid |-> TRUE, misplaced |-> FALSE, lite |-> FALSE]

Unspoken == [Call(None) EXCEPT !.object = FALSE]

Others ==
    {[Unspoken EXCEPT !.method = m] :
        m \in {"initialize", "tools/list", "unknown", "tools/call", "resources/read nothing"}}
    \cup {[Unspoken EXCEPT !.form = f] : f \in {"notification", "unparsable"}}
    \cup {[Call("hello") EXCEPT !.object = FALSE]}

Flat == {"device_create", "device_update", "device_wipe", "archive", "report", "vault", "hello",
         "nothing"}

FlatCalls ==
    {[Call(n) EXCEPT !.verify = v, !.exact = x] : n \in Flat, v \in BOOLEAN, x \in BOOLEAN}
    \cup {[Call(n) EXCEPT !.valid = v, !.lite = l] : n \in Flat, v \in BOOLEAN, l \in BOOLEAN}
    \cup {[Call("report") EXCEPT !.token = TRUE]}

\* A resource by name goes with the members of a group.
MemberCalls ==
    {[Call(k[1]) EXCEPT !.member = k[2], !.resource = k[1] = "net", !.verify = v, !.exact = x,
                        !.nested = w, !.lite = l] :
        k \in {"net"} \X {"device_create", "device_wipe", "report", "typo", "help"}
              \cup {"ops"} \X {"status", "restart", "typo"},
        v \in BOOLEAN, x \in BOOLEAN, w \in BOOLEAN, l \in BOOLEAN}
    \cup {[Call(n) EXCEPT !.misplaced = m] : n \in {"net", "ops"}, m \in BOOLEAN}
    \cup {[Call("net") EXCEPT !.member = m, !.resource = TRUE, !.misplaced = TRUE, !.exact = x,
                              !.lite = l] :
              m \in {"device_wipe", "device_retrieve"}, x \in BOOLEAN, l \in BOOLEAN}
    \cup {[Call("net") EXCEPT !.member = "report"],
          [Call("ops") EXCEPT !.member = "status", !.valid = FALSE]}

MCRequests ==
    [everything |-> Others \cup FlatCalls \cup MemberCalls,
     few |-> {[Unspoken EXCEPT !.method = "tools/list"]}
             \cup {Call(n) : n \in {"device_update", "hello", "report"}},
     refused |-> {[Call("vault") EXCEPT !.lite = TRUE]},
     token |-> {[Unspoken EXCEPT !.method = "token"]}]

-----------------------------------------------------------------------------
(* Configurations. *)

CONSTANTS t1, t2

MCSymmetry == Permutations({t1, t2})

Base ==
    [enabled |-> TRUE, tier |-> 2, cap |-> Uncapped, routed |-> FALSE, denied |-> {},
     agent |-> "none", tools |-> {}, limited |-> FALSE, held |-> {}, normalizes |-> TRUE,
     store |-> "up", threshold |-> FALSE, limiter |-> FALSE,
     early |-> {n \in MCNames : MCTool[n].kind # "action"}, late |-> {},
     parallel |-> 1, requests |-> "everything"]

\* Callers at the plain gateway and on a route that denies some tools.
Callers ==
    {[Base EXCEPT !.tier = t, !.cap = c, !.routed = r, !.limited = l,
                  !.denied = {"device_retrieve", "hello"},
                  !.held = {"device_create", "report", "status"}] :
        t \in Tiers, c \in {0, 1, Uncapped}, r \in BOOLEAN, l \in BOOLEAN}

\* What becomes of results.
Stores ==
    {[Base EXCEPT !.store = s, !.threshold = h, !.normalizes = n, !.routed = r, !.cap = 1,
                  !.denied = d] :
        s \in {"up", "none", "down"}, h \in BOOLEAN, n \in BOOLEAN, r \in BOOLEAN,
        d \in {{}, {"device_retrieve"}}}

Agents ==
    {[Base EXCEPT !.agent = "inactive"], [Base EXCEPT !.enabled = FALSE]}
    \cup {[Base EXCEPT !.agent = "active", !.tools = {"device_update", "net", "ops"}, !.store = s,
                       !.limited = l, !.held = {"report", "restart"}] :
             s \in {"up", "none"}, l \in BOOLEAN}

\* Discovery is still registering tools.
Filling ==
    {[Base EXCEPT !.early = {"device_update"}, !.late = {"device_retrieve", "hello", "report"},
                  !.store = s, !.cap = c, !.routed = r,
                  !.requests = "few"] :
        s \in {"up", "none"}, c \in {0, Uncapped}, r \in BOOLEAN}

\* The limiters, under two threads.
Busy ==
    {[Base EXCEPT !.limiter = TRUE, !.parallel = 2, !.requests = r] :
        r \in {"refused", "token"}}

MCConfigurations == <<Callers, Stores, Agents, Filling, Busy>>
=============================================================================
