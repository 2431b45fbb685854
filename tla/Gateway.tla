------------------------------- MODULE Gateway -------------------------------
(***************************************************************************)
(* One request at the gateway, from McpView.post to its answer (views.py): *)
(* parsing, the agent gate, the tool middleware with its rate limiter, the *)
(* dispatch in the registry or through a dispatcher (registry.py,          *)
(* backends/group_dispatcher.py, backends/dispatcher.py), the host's view  *)
(* behind it (backends/invocation.py), the audit record, and the shaping   *)
(* of the result.  Requests run in threads that share the limiters and the *)
(* registry, which discovery is still filling.                             *)
(*                                                                         *)
(* A group addresses its members, and a class dispatcher its actions, by   *)
(* name; a result is represented by what its shaping looks at.             *)
(***************************************************************************)
EXTENDS RateLimits, Sequences

CONSTANTS
    Threads,
    Names,          \* tools, and the actions of class dispatchers
    Tool,           \* what each of them is
    Results,        \* what the host's actions may return
    Requests,       \* families of requests
    Configurations  \* settings, surface and caller to consider, with a family each

ASSUME ThreadsAssumption == IsFiniteSet(Threads)

None == "none"

\* The rank of a tier; an endpoint without a ceiling.
Tiers == 0..2
Uncapped == 3

RequestFields ==
    {"form", "method", "name", "object", "token", "member", "resource", "exact", "nested", "verify",
     "valid", "misplaced", "lite"}

ASSUME RequestsAssumption ==
    \A family \in DOMAIN Requests : \A req \in Requests[family] : DOMAIN req = RequestFields

ASSUME ToolAssumption ==
    /\ Names \cap {None, "help", "unheard"} = {}
    /\ \A n \in Names :
        /\ Tool[n].kind \in {"flat", "group", "class", "action"}
        /\ Tool[n].backed \in {"view", "python"}
        /\ Tool[n].tier \in Tiers
        /\ Tool[n].members \subseteq Names
        /\ \A m \in Tool[n].members :
               /\ Tool[n].kind \in {"group", "class"}
               /\ Tool[m].kind = IF Tool[n].kind = "group" THEN "flat" ELSE "action"
        /\ Tool[n].kind \in {"group", "class"} =>
               Tool[n].discloses /\ Tool[n].tier = 0 /\ ~Tool[n].write /\ ~Tool[n].heavy
        /\ Tool[n].kind = "group" => Tool[n].admits
        /\ Tool[n].write => Tool[n].backed = "view"
        \* what fetches an object is no harder to call than what writes it
        /\ Tool[n].retrieve # None =>
               LET r == Tool[Tool[n].retrieve] IN r.kind = "flat" /\ r.tier <= Tool[n].tier /\ r.admits

\* DRF renders what a view returns, or fails to, before its result is seen.
ASSUME ResultsAssumption ==
    \A r \in Results["view"] : r.shape \notin {"unserializable", "help"}

\* Groups are made of tools that are there (_install_dispatch_groups).
ASSUME ConfigurationsAssumption ==
    \A i \in DOMAIN Configurations : \A c \in Configurations[i] :
        /\ c.early \cup c.late \subseteq {n \in Names : Tool[n].kind # "action"}
        /\ \A n \in c.early \cup c.late : Tool[n].kind = "group" => Tool[n].members \subseteq c.early
        /\ c.cap \in Tiers \cup {Uncapped} /\ c.tier \in Tiers
        /\ c.requests \in DOMAIN Requests

VARIABLES
    conf,           \* one of the configurations
    registered,     \* the names in the registry
    call            \* what each thread is doing

vars == <<rateVars, conf, registered, call>>

-----------------------------------------------------------------------------
(* Who calls what. *)

Lesser(a, b) == IF a <= b THEN a ELSE b

Capped == conf.cap # Uncapped

\* The tier that post() stamps on the request.
Stamped == Lesser(conf.tier, conf.cap)

Reaches(n) == Tool[n].tier <= Stamped

\* entry_is_visible(): the capability of a tool; actions of a class are judged one by one,
\* and a group has no capability.
Holds(n) == ~conf.limited \/ Tool[n].kind = "class" \/ n \in conf.held

\* RouteView: a dispatcher stays as long as one member does.
Carved ==
    LET kept == registered \ conf.denied
    IN  {n \in kept : Tool[n].kind = "group" => Tool[n].members \cap kept # {}}

\* A route goes by its view of the time of the request, the plain gateway by the registry.
Visible(c) == IF conf.routed THEN c.view ELSE registered

\* A route rebuilds its groups without the members it denies.
Members(c, g) ==
    IF Tool[g].kind = "group" /\ conf.routed THEN Tool[g].members \cap c.view ELSE Tool[g].members

\* Actions are part of their dispatcher, members are looked up.
Found(m) == Tool[m].kind = "action" \/ m \in registered

\* The action, or the resource and the action, that are found under their own keys.
Spelled(c) == IF c.req.exact THEN c.req.member ELSE None

\* ... and that are found once dispatch has put the keys into lower case.
Asked(c) == IF conf.normalizes THEN c.req.member ELSE Spelled(c)

-----------------------------------------------------------------------------
(* Dispatch: "run", "help", or how the call is refused. *)

\* ToolRegistry.dispatch() of a flat tool.
FlatVerdict(n, valid) ==
    IF n \notin registered \/ (Capped /\ ~Reaches(n)) THEN "absent"
    ELSE IF ~Reaches(n) \/ ~Tool[n].admits THEN "permission"
    ELSE IF ~valid THEN "input" ELSE "run"

GroupVerdict(c, g) ==
    LET m == Asked(c) IN
    IF c.req.misplaced THEN "input"
    ELSE IF m \in {None, "help"} THEN "help"
    ELSE IF ~c.req.resource THEN "value"
    ELSE IF m \notin Members(c, g) \/ (Capped /\ ~Reaches(m)) THEN "unknown"
    ELSE IF ~Holds(m) THEN "permission"
    ELSE FlatVerdict(m, c.req.valid)

\* Where there is no ceiling the schema of the dispatcher lists the actions.
ClassVerdict(c, d) ==
    LET a == Asked(c)
        help == a \in {None, "help"}
    IN
    IF ~Tool[d].admits THEN "permission"
    ELSE IF c.req.misplaced \/ ~(Capped \/ help \/ a \in Tool[d].members) THEN "input"
    ELSE IF help THEN "help"
    ELSE IF a \notin Tool[d].members \/ (Capped /\ ~Reaches(a)) THEN "unknown"
    ELSE IF ~Reaches(a) THEN "permission"
    ELSE IF ~c.req.valid THEN "input" ELSE "run"

Verdict(c) ==
    LET n == c.req.name IN
    IF n \notin Visible(c) THEN "absent"
    ELSE IF Tool[n].kind = "group" THEN GroupVerdict(c, n)
    ELSE IF Tool[n].kind = "class" THEN ClassVerdict(c, n)
    ELSE FlatVerdict(n, c.req.valid)

\* What the call runs.
Target(c) == IF Tool[c.req.name].kind = "flat" THEN c.req.name ELSE Asked(c)

-----------------------------------------------------------------------------
(* What answers name. *)

\* The members that help lists, and the actions in the schema of a listing.
Disclosed(c, g) == {m \in Members(c, g) : Found(m) /\ Reaches(m) /\ Holds(m)}

\* tools/list of some tools, with the actions of the class dispatchers.
Listing(c, tools) ==
    LET shown == {n \in Visible(c) \cap tools :
                     /\ ~Tool[n].hidden
                     /\ Reaches(n)
                     /\ Tool[n].kind = "flat" => Holds(n)
                     /\ Tool[n].kind = "group" /\ conf.limited => Disclosed(c, n) # {}
                     /\ Tool[n].kind = "class" => Disclosed(c, n) # {}}
    IN  shown \cup UNION {Disclosed(c, n) : n \in {d \in shown : Tool[d].kind = "class"}}

\* What an unknown action is compared with: everything, where nothing is to be filtered.
Candidates(c, g) ==
    {m \in Members(c, g) :
        conf.limited \/ Capped => Found(m) /\ Holds(m) /\ (Capped => Reaches(m))}

\* The tools that an unknown name, or action, is compared with for a close match.
Suggested(c, verdict) ==
    CASE verdict = "absent"  -> Listing(c, Names)
      [] verdict = "unknown" -> Candidates(c, c.req.name)
      [] OTHER               -> {}

\* _dispatcher_target_entry(): the member of a group, by the keys as they were sent.
Addressed(c) ==
    IF Tool[c.req.name].kind = "group" /\ c.req.resource
    THEN {Spelled(c)} \cap Tool[c.req.name].members ELSE {}

\* Seeded defect: lite shows the schema of what the route denies.
EnrichableAnywhere(c, n) == n \in registered

\* _request_visible_entry(): the plain gateway does not look at tiers.
Enrichable(c, n) == n \in Visible(c) /\ (conf.routed => Reaches(n))

\* The input schema of a class dispatcher lists all its actions.
Schema(n) == {n} \cup (IF Tool[n].kind = "class" THEN Tool[n].members ELSE {})

\* With lite, a failure shows the schema of the tool, or of the member whose arguments
\* were wrong.
Echoed(c, verdict) ==
    LET members == IF verdict = "input" THEN {m \in Addressed(c) : Enrichable(c, m)} ELSE {} IN
    IF ~c.req.lite \/ ~Enrichable(c, c.req.name) THEN {}
    ELSE IF members # {} THEN members ELSE Schema(c.req.name)

\* What a refusal names.
Hints(c, verdict) == Suggested(c, verdict) \cup Echoed(c, verdict)

-----------------------------------------------------------------------------
(* Answers. *)

Answer(kind, status) ==
    [kind |-> kind, status |-> status, body |-> None, named |-> {}, bound |-> None, action |-> None]

NoAnswer == Answer(None, 0)

Idle == [pc |-> "idle"]

Begun(t, req, pc) ==
    call' = [call EXCEPT ![t] =
        [pc |-> pc, req |-> req, view |-> Carved, known |-> FALSE, reading |-> 0, ran |-> FALSE,
         wrote |-> FALSE, result |-> None, log |-> <<>>, reply |-> NoAnswer]]

Goto(t, pc) == call' = [call EXCEPT ![t].pc = pc]

Done(t, reply) == call' = [call EXCEPT ![t].pc = "done", ![t].reply = reply]

Audited(t, decision, reply) ==
    call' = [call EXCEPT ![t].pc = "done", ![t].reply = reply, ![t].log = Append(@, decision)]

\* The answers of post() and _parse_and_dispatch() that need no tool.
Immediate(c) ==
    LET r == c.req IN
    IF ~conf.enabled THEN Answer("protocol", 503)
    ELSE IF r.form = "notification" THEN Answer("accepted", 202)
    ELSE IF r.form # "request" THEN Answer("protocol", 200)
    ELSE IF r.method \in {"unknown", "tools/call", "resources/read nothing"}
    THEN Answer("protocol", 200)
    ELSE IF r.method = "tools/list" /\ conf.agent # "inactive"
    THEN [Answer("result", 200) EXCEPT !.named =
             Listing(c, IF conf.agent = "active" THEN conf.tools ELSE Names)]
    ELSE Answer("result", 200)

\* A call of a tool that goes on to the agent gate.
Resolved(req) ==
    req.form = "request" /\ req.method = "tools/call" /\ req.name # None /\ req.object

\* Bound: conf.parallel requests at a time.
Arrive(t, req) ==
    /\ call[t].pc = "idle"
    /\ Cardinality({o \in Threads : call[o].pc # "idle"}) < conf.parallel
    /\ IF req.method = "token" THEN Begun(t, req, "add")
       ELSE IF conf.enabled /\ Resolved(req) THEN Begun(t, req, "agent")
       ELSE Begun(t, req, "immediate")
    /\ UNCHANGED <<rateVars, conf, registered>>

AnswerAtOnce(t) ==
    /\ call[t].pc = "immediate"
    /\ Done(t, Immediate(call[t]))
    /\ UNCHANGED <<rateVars, conf, registered>>

Leave(t) ==
    /\ call[t].pc = "done"
    /\ call' = [call EXCEPT ![t] = Idle]
    /\ UNCHANGED <<rateVars, conf, registered>>

-----------------------------------------------------------------------------
(* A tools/call up to the dispatch. *)

\* The agent gate (its two queries are the subject of ToolCall).
Gate(t) ==
    LET c == call[t] IN
    /\ c.pc = "agent"
    /\ IF conf.agent = "inactive" \/ (conf.agent = "active" /\ c.req.name \notin conf.tools)
       THEN Audited(t, "deny", Answer("error", 200))
       ELSE Goto(t, IF c.req.token THEN "redeem" ELSE "entry")
    /\ UNCHANGED <<rateVars, conf, registered>>

\* A continuation token (what is served to whom is the subject of HeavyNegotiation).
Redeem(t) ==
    /\ call[t].pc = "redeem"
    /\ \/ Audited(t, "deny", Answer("error", 200))
       \/ Audited(t, "allow", [Answer("result", 200) EXCEPT !.body = "served"])
    /\ UNCHANGED <<rateVars, conf, registered>>

\* The entry that decides on the shape of a write is looked up before the dispatch.
ReadEntry(t) ==
    /\ call[t].pc = "entry"
    /\ call' = [call EXCEPT ![t].known = call[t].req.name \in registered,
                            ![t].pc = IF conf.limiter THEN "clock" ELSE "dispatch"]
    /\ UNCHANGED <<rateVars, conf, registered>>

\* RateLimitMiddleware: the clock is read before the lock is taken.
ReadClock(t) ==
    /\ call[t].pc = "clock"
    /\ call' = [call EXCEPT ![t].reading = now, ![t].pc = "count"]
    /\ UNCHANGED <<rateVars, conf, registered>>

Limited == [Answer("error", 403) EXCEPT !.body = "limited"]

Throttled(c) == [Limited EXCEPT !.named = Echoed(c, "permission")]

Count(t) ==
    /\ call[t].pc = "count"
    /\ AllowRequest(call[t].reading)
    /\ IF window'.count <= Limit THEN Goto(t, "dispatch")
       ELSE Audited(t, "deny", Throttled(call[t]))
    /\ UNCHANGED <<conf, registered>>

\* The ladder of exceptions in _handle_tools_call.
Refusal(verdict) ==
    CASE verdict = "absent"            -> Answer("protocol", 200)
      [] verdict = "unknown"           -> Answer("error", 404)
      [] verdict = "permission"        -> Answer("error", 403)
      [] verdict \in {"input", "value"} -> Answer("error", 400)

\* Seeded defect: an action that is not there is no denial.
DecisionByName(verdict) == IF verdict \in {"absent", "permission"} THEN "deny" ELSE "allow"

Decision(verdict) == IF verdict \in {"absent", "unknown", "permission"} THEN "deny" ELSE "allow"

Dispatch(t) ==
    LET c == call[t]
        verdict == Verdict(c)
    IN
    /\ c.pc = "dispatch"
    /\ \/ verdict = "run" /\ Goto(t, "run")
       \/ /\ verdict = "help"
          /\ \E large \in BOOLEAN :
                 call' = [call EXCEPT ![t].result = [shape |-> "help", id |-> FALSE, large |-> large],
                                      ![t].log = Append(@, "allow"),
                                      ![t].pc = "shape"]
       \/ /\ verdict \notin {"run", "help"}
          /\ Audited(t, Decision(verdict),
                     [Refusal(verdict) EXCEPT !.named = Hints(c, verdict)])
    /\ UNCHANGED <<rateVars, conf, registered>>

-----------------------------------------------------------------------------
(* The tool runs. *)

Fault(status, decision, committed) ==
    [status |-> status, decision |-> decision, committed |-> committed]

\* SyncInvocation.invoke(): no id, or an error without a status; what initial() says; a
\* serializer that rejects; and a response that cannot be rendered after the action.
\* A Python callable may raise what the ladder takes for a refusal.
Faults(n) ==
    IF Tool[n].backed = "view"
    THEN {Fault(500, "allow", FALSE), Fault(403, "allow", FALSE), Fault(422, "allow", FALSE),
          Fault(500, "allow", TRUE)}
    ELSE {Fault(404, "deny", FALSE), Fault(403, "deny", FALSE), Fault(400, "allow", FALSE),
          Fault(500, "allow", FALSE)}

Broken(c, status) == [Answer("error", status) EXCEPT !.named = Echoed(c, "fault")]

Fail(t) ==
    LET n == Target(call[t]) IN
    /\ call[t].pc = "run"
    /\ \E f \in Faults(n) :
           call' = [call EXCEPT ![t].pc = "done",
                                ![t].reply = Broken(call[t], f.status),
                                ![t].log = Append(@, f.decision), ![t].ran = TRUE,
                                ![t].wrote = f.committed /\ Tool[n].write]
    /\ UNCHANGED <<rateVars, conf, registered>>

Succeed(t) ==
    LET n == Target(call[t]) IN
    /\ call[t].pc = "run"
    /\ \E r \in Results[Tool[n].backed] :
           call' = [call EXCEPT ![t].pc = "shape", ![t].result = r, ![t].log = Append(@, "allow"),
                                ![t].ran = TRUE, ![t].wrote = Tool[n].write]
    /\ UNCHANGED <<rateVars, conf, registered>>

-----------------------------------------------------------------------------
(* The shape of a result. *)

Give(body) == [Answer("result", 200) EXCEPT !.body = body]

\* An answer that carries a continuation token, bound to a tool and an action of it. When
\* the store cannot be written to, nobody catches the exception.
Mint(body, tool, action) ==
    IF conf.store = "down" THEN Answer("crash", 500)
    ELSE [Give(body) EXCEPT !.bound = tool, !.action = action]

\* There is an id, or one for every object of a list.
Locatable(result) == result.id /\ result.shape \in {"object", "list"}

\* Seeded defect: the route is not asked.
RetrieveRegistered(c) == Tool[c.req.name].retrieve \in registered

\* _retrieve_counterpart_visible(): the plain gateway does not look at tiers.
RetrieveVisible(c) ==
    LET r == Tool[c.req.name].retrieve IN r \in Visible(c) /\ (conf.routed => Reaches(r))

LeanFlat(c) ==
    LET n == c.req.name IN
    IF c.req.verify /\ c.req.exact THEN Give("whole")
    ELSE IF c.result.shape = "deleted" THEN Give("deleted")
    ELSE IF conf.store = "none" \/ ~Tool[n].discloses
    THEN Give(IF Locatable(c.result) /\ RetrieveVisible(c) THEN "ids" ELSE "whole")
    ELSE Mint("lean", n, None)

\* verify is looked for in the params only, wherever dispatch has found it.
LeanMember(c, m) ==
    IF c.req.verify /\ c.req.nested THEN Give("whole")
    ELSE IF c.result.shape = "deleted" THEN Give("deleted")
    ELSE IF conf.store = "none" THEN Give("whole")
    ELSE Mint("lean", m, None)

\* @mcp_heavy, and the threshold for what is large.
Negotiated(c) ==
    LET n == c.req.name
        target == IF Tool[n].kind = "flat" THEN {n} ELSE Addressed(c)
        bound == IF target = {} THEN n ELSE CHOOSE m \in target : TRUE
        large == conf.threshold /\ Tool[n].discloses /\ c.result.large
        action == IF Tool[n].kind = "class" THEN Spelled(c) ELSE None
    IN
    IF conf.store # "none" /\ \E m \in target : Tool[m].heavy THEN Mint("probe", bound, None)
    ELSE IF conf.store # "none" /\ large THEN Mint("probe", bound, action)
    ELSE Give("whole")

IsLean(m) == Tool[m].write /\ ~Tool[m].heavy

Shaped(c) ==
    LET n == c.req.name IN
    IF c.result.shape = "unserializable" THEN Answer("crash", 500)
    ELSE IF c.known /\ IsLean(n) THEN LeanFlat(c)
    ELSE IF c.known /\ \E m \in Addressed(c) : IsLean(m)
    THEN LeanMember(c, CHOOSE m \in Addressed(c) : TRUE)
    ELSE Negotiated(c)

Shape(t) ==
    LET c == call[t] IN
    /\ c.pc = "shape"
    /\ Done(t, [Shaped(c) EXCEPT !.named = IF c.result.shape = "help"
                                           THEN Disclosed(c, c.req.name) ELSE {}])
    /\ UNCHANGED <<rateVars, conf, registered>>

-----------------------------------------------------------------------------
(* The limiter of the token endpoint; discovery; and the whole. *)

Add(t) ==
    /\ call[t].pc = "add"
    /\ AddCounter
    /\ Goto(t, "increment")
    /\ UNCHANGED <<conf, registered>>

Increment(t) ==
    /\ call[t].pc = "increment"
    /\ IncrementCounter
    /\ call' = [call EXCEPT ![t].pc = "done", ![t].reading = now,
                            ![t].reply = IF Alive /\ counter'.count > Limit
                                         THEN [Limited EXCEPT !.status = 429]
                                         ELSE Answer("result", 200)]
    /\ UNCHANGED <<conf, registered>>

\* Discovery registers a tool meanwhile.
Register(n) ==
    /\ n \in conf.late \ registered
    /\ registered' = registered \cup {n}
    /\ UNCHANGED <<rateVars, conf, call>>

Init ==
    /\ RateInit
    /\ \E i \in DOMAIN Configurations : conf \in Configurations[i]
    /\ registered = conf.early
    /\ call = [t \in Threads |-> Idle]

Step(t) ==
    \/ AnswerAtOnce(t) \/ Leave(t)
    \/ Gate(t) \/ Redeem(t) \/ ReadEntry(t) \/ ReadClock(t) \/ Count(t)
    \/ Dispatch(t) \/ Fail(t) \/ Succeed(t) \/ Shape(t)
    \/ Add(t) \/ Increment(t)

Next ==
    \/ \E t \in Threads :
           (\E req \in Requests[conf.requests] : Arrive(t, req)) \/ Step(t)
    \/ \E n \in Names : Register(n)
    \/ conf.limiter /\ Tick /\ UNCHANGED <<conf, registered, call>>

Spec == Init /\ [][Next]_vars

-----------------------------------------------------------------------------
(* Properties. *)

Over(c) == c.pc = "done"

\* A fixed window lets twice the limit through around its edge, and no more but for threads
\* that stalled after they had read the clock; a counter that expires under a call that
\* was about to increment it costs one call per thread; and whoever is refused was not
\* alone: the limit was spent within the period before (allow_request,
\* _token_rate_limit_exceeded).
LimitsAreKept ==
    /\ \A s \in Recent :
           /\ Let("tools", s) <= 2 * Limit + (Cardinality(Threads) - 1)
           /\ Let("token", s) <= 2 * Limit
           /\ Let("open", s) <= Cardinality(Threads)
    /\ \A t \in Threads :
           LET c == call[t]
               limiter == IF c.req.method = "token" THEN "token" ELSE "tools"
           IN  Over(c) /\ c.reply.body = "limited" =>
                   \E s \in 0..now : c.reading < s + Period /\ Let(limiter, s) >= Limit

\* The record and the answer of a call that is over.
Accounted(c) ==
    /\ Len(c.log) = IF conf.enabled /\ Resolved(c.req) THEN 1 ELSE 0
    /\ c.wrote => c.log = <<"allow">>
    /\ c.log = <<"deny">> =>
           /\ c.reply.kind \in {"error", "protocol"}
           /\ c.ran => Tool[Target(c)].backed = "python"
    /\ Resolved(c.req) /\ c.reply.kind = "result" => c.log = <<"allow">>
    /\ c.log = <<"allow">> /\ ~c.ran /\ c.reply.kind = "error" => c.reply.status = 400

\* The audit trail says what happened: one record for every call of a tool that reached a
\* live gateway, whatever became of it; a denial means that nothing was written and that the
\* caller was told; nothing is written and no result given without an "allow"; and a call
\* is allowed in vain only when its arguments were wrong.  Only a Python callable that
\* raises what means a refusal is on record as denied although it ran
\* (_handle_tools_call and its finally).
EveryCallIsAccounted ==
    \A t \in Threads :
        Over(call[t]) /\ call[t].req.method # "token" => Accounted(call[t])

-----------------------------------------------------------------------------

\* What the check of a redemption asks (_redemption_action_authorized and
\* _redemption_target_authorized), of the token in an answer.
Redeems(c) ==
    LET n == c.req.name
        b == c.reply.bound
        a == c.reply.action
    IN
    /\ n \in Visible(c)
    /\ a # None => a \in Tool[n].members /\ Reaches(a) /\ Holds(a)
    /\ b = n \/ (Tool[n].kind = "group" /\ b \in Members(c, n))
    /\ b \in registered /\ Reaches(b) /\ Holds(b)

\* The call of the retrieve tool that fetches what was written.
Fetching(c) ==
    [c EXCEPT !.req = [@ EXCEPT !.name = Tool[c.req.name].retrieve, !.valid = TRUE]]

Delivered(c) ==
    \/ c.reply.body \in {"whole", "deleted"}
    \/ c.reply.body = "ids" /\ Verdict(Fetching(c)) = "run"
    \/ c.reply.bound # None /\ Redeems(c)

\* Callers whose answer the code does not keep its promise to: an agent with a list of
\* tools, of which the shortened answer takes no notice; a caller of limited capability
\* that the host lets write all the same, or whose keys dispatch had to correct.
Promised(c) ==
    /\ ~(conf.agent = "active" /\ c.reply.body = "ids")
    /\ conf.limited => c.req.exact /\ Holds(Target(c))

\* What a write returned is not lost: the answer is whole, or its short form holds a token
\* that the same caller may redeem, or an id that the caller may fetch; and after a
\* commit the request breaks off only when the cache for tokens is down (ADR-004;
\* _handle_tools_call from the unwrapping on).
WritesAreAnswered ==
    \A t \in Threads :
        LET c == call[t] IN
        Over(c) /\ c.wrote =>
            /\ c.reply.kind = "crash" => conf.store = "down"
            /\ c.reply.kind = "result" /\ Promised(c) => Delivered(c)

-----------------------------------------------------------------------------

\* Above a ceiling, or denied on a route.
Absent(c, n) ==
    \/ Capped /\ ~Reaches(n)
    \/ Tool[n].kind # "action" /\ n \notin Visible(c)

Aimed(c) ==
    IF c.req.name \in Visible(c) /\ Tool[c.req.name].kind # "flat" THEN Asked(c) ELSE c.req.name

\* The same request, for something nobody has heard of.
Elsewhere(c) ==
    IF Aimed(c) = c.req.name THEN [c EXCEPT !.req.name = None]
    ELSE [c EXCEPT !.req.member = "unheard"]

\* What a caller may not know of cannot be told from what is not there: a call aimed at it
\* ends as one for an invented name does, with the same suggestions and, on a route, the
\* same schema; and no answer names it (dispatch, make_group_invoke, make_dispatcher_invoke,
\* handle_tools_list, _request_visible_entry).  Only lite does so, in two ways: it shows the
\* whole schema of a class dispatcher, actions above the ceiling included; and at the plain
\* gateway, where _request_visible_entry asks nobody for a tier (CR-19), the schema of the
\* very tool the call named, as no invented name would have.
HiddenIsAbsent ==
    \A t \in Threads :
        LET c == call[t] IN
        /\ c.pc = "dispatch" /\ Aimed(c) \in Names /\ Absent(c, Aimed(c)) =>
               LET other == Elsewhere(c)
                   verdict == Verdict(c)
               IN  /\ verdict = Verdict(other)
                   /\ Suggested(c, verdict) = Suggested(other, verdict)
                   /\ \/ Echoed(c, verdict) = Echoed(other, verdict)
                      \/ c.req.lite /\ ~conf.routed /\ Echoed(c, verdict) = {Aimed(c)}
        /\ Over(c) => \A n \in c.reply.named : Absent(c, n) =>
               /\ c.req.lite
               /\ \/ Tool[n].kind = "action"
                  \/ ~conf.routed /\ n \in {c.req.name, c.req.member}
=============================================================================
