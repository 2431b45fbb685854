---------------------------- MODULE GatewayProofs ----------------------------
(***************************************************************************)
(* What the gateway answers and records, for all tools, settings, requests *)
(* and numbers of threads.                                                 *)
(***************************************************************************)
EXTENDS Gateway, FiniteSetTheorems, TLAPS

CallFields ==
    {"pc", "req", "view", "known", "reading", "ran", "wrote", "result", "log", "reply"}

ReplyFields == {"kind", "status", "body", "named", "bound", "action"}

\* What may be in the registry: no action of a class dispatcher.
Standing == {n \in Names : Tool[n].kind # "action"}

\* The places of a call that is past parsing and has no record yet.
Underway == {"agent", "redeem", "entry", "clock", "count", "dispatch", "run"}

TakenUp(c) == conf.enabled /\ Resolved(c.req)

Untouched(c) == c.log = <<>> /\ ~c.wrote /\ ~c.ran

\* What is true of a call between its arrival and its end.
CallInv(c) ==
    \/ c = Idle
    \/ /\ DOMAIN c = CallFields
       /\ c.view \subseteq Standing
       /\ \/ c.req.method = "token" /\ c.pc \in {"add", "increment", "done"}
          \/ /\ c.req.method # "token"
             /\ \/ c.pc = "immediate" /\ ~TakenUp(c) /\ Untouched(c)
                \/ /\ c.pc \in Underway /\ TakenUp(c) /\ Untouched(c)
                   /\ c.pc = "run" => Target(c) \in Names
                \/ c.pc = "shape" /\ TakenUp(c) /\ c.log = <<"allow">>
                \/ c.pc = "done" /\ Accounted(c)

IInv ==
    /\ \E i \in DOMAIN Configurations : conf \in Configurations[i]
    /\ DOMAIN call = Threads
    /\ registered \subseteq Standing
    /\ \A t \in Threads : CallInv(call[t])

\* Settings stay, so what is said of a call does not change with them.
LEMMA SettingsStay ==
    ASSUME conf' = conf, NEW t \in Threads, CallInv(call'[t])
    PROVE  CallInv(call[t])'
  BY DEF CallInv, Accounted, Standing, TakenUp, Untouched, Resolved, Target, Asked, Spelled, Idle, Underway, CallFields

LEMMA LateIsStanding == IInv => conf.late \subseteq Standing
  BY ConfigurationsAssumption DEF IInv, Standing

LEMMA OneCall ==
    ASSUME IInv, NEW t \in Threads, NEW d, CallInv(d),
           call' = [call EXCEPT ![t] = d], conf' = conf, registered' \subseteq Standing
    PROVE  IInv'
<1>1. \A u \in Threads : CallInv(call'[u])
  BY DEF IInv
<1> QED
  BY <1>1, SettingsStay DEF IInv

LEMMA VerdictIsOne ==
    ASSUME NEW c
    PROVE  Verdict(c) \in {"run", "help", "absent", "unknown", "permission", "input", "value"}
  BY DEF Verdict, GroupVerdict, ClassVerdict, FlatVerdict

\* What runs is one of the tools or of the actions.
LEMMA RunsATool ==
    ASSUME NEW c, c.view \subseteq Standing, registered \subseteq Standing, Verdict(c) = "run"
    PROVE  Target(c) \in Names
<1> DEFINE n == c.req.name
<1>1. n \in Visible(c) /\ n \in Standing
  BY DEF Verdict, Visible
<1>2. /\ Tool[n].members \subseteq Names
      /\ Tool[n].kind \in {"flat", "group", "class"}
  BY <1>1, ToolAssumption DEF Standing
<1>3. CASE Tool[n].kind = "group"
  <2>1. GroupVerdict(c, n) = "run"
    BY <1>1, <1>3 DEF Verdict
  <2>2. Asked(c) \in Members(c, n)
    BY <2>1 DEF GroupVerdict
  <2> QED
    BY <1>2, <1>3, <2>2 DEF Members, Target
<1>4. CASE Tool[n].kind = "class"
  <2>1. ClassVerdict(c, n) = "run"
    BY <1>1, <1>4 DEF Verdict
  <2>2. Asked(c) \in Tool[n].members
    BY <2>1 DEF ClassVerdict
  <2> QED
    BY <1>2, <1>4, <2>2 DEF Target
<1>5. CASE Tool[n].kind \notin {"group", "class"}
  <2>1. FlatVerdict(n, c.req.valid) = "run"
    BY <1>1, <1>5 DEF Verdict
  <2> QED
    BY <1>1, <1>2, <1>5 DEF Target, Standing
<1> QED
  BY <1>3, <1>4, <1>5

-----------------------------------------------------------------------------

LEMMA ShapedKind ==
    ASSUME NEW c
    PROVE  Shaped(c).kind \in {"result", "crash"}
<1>1. \A kind, status : Answer(kind, status).kind = kind
  BY DEF Answer
<1>2. \A body : Give(body).kind = "result"
  BY DEF Give, Answer
<1>3. \A body, tool, action : Mint(body, tool, action).kind \in {"result", "crash"}
  BY DEF Mint, Give, Answer
<1>4. LeanFlat(c).kind \in {"result", "crash"}
  BY <1>2, <1>3 DEF LeanFlat
<1>5. \A m : LeanMember(c, m).kind \in {"result", "crash"}
  BY <1>2, <1>3 DEF LeanMember
<1>6. Negotiated(c).kind \in {"result", "crash"}
  BY <1>2, <1>3 DEF Negotiated
<1> QED
  BY <1>1, <1>4, <1>5, <1>6 DEF Shaped

LEMMA RefusalKind ==
    ASSUME NEW verdict \in {"absent", "unknown", "permission", "input", "value"}
    PROVE  /\ DOMAIN Refusal(verdict) = ReplyFields
           /\ Refusal(verdict).kind \in {"error", "protocol"}
           /\ Decision(verdict) \in {"allow", "deny"}
           /\ Decision(verdict) = "allow" => Refusal(verdict).status = 400
  BY DEF Refusal, Decision, Answer, ReplyFields

LEMMA ImmediateKind ==
    ASSUME NEW c, ~TakenUp(c), Resolved(c.req)
    PROVE  Immediate(c).kind # "result"
  BY DEF Immediate, TakenUp, Answer

LEMMA InitInv == Init => IInv
<1> SUFFICES ASSUME Init PROVE IInv
  OBVIOUS
<1>1. /\ \E i \in DOMAIN Configurations : conf \in Configurations[i]
      /\ registered \subseteq Standing
  BY ConfigurationsAssumption DEF Init, Standing
<1>2. DOMAIN call = Threads /\ \A t \in Threads : call[t] = Idle
  BY DEF Init
<1> QED
  BY <1>1, <1>2 DEF IInv, CallInv

-----------------------------------------------------------------------------

(* The steps of a call that is under way. *)

LEMMA IsUnderway ==
    ASSUME IInv, NEW t \in Threads, call[t].pc \in Underway
    PROVE  /\ DOMAIN call[t] = CallFields /\ call[t].view \subseteq Standing
           /\ call[t].req.method # "token" /\ TakenUp(call[t]) /\ Untouched(call[t])
           /\ call[t].pc = "run" => Target(call[t]) \in Names
  BY DEF IInv, CallInv, Underway, Idle

LEMMA GoesOn ==
    ASSUME IInv, NEW t \in Threads, call[t].pc \in Underway,
           NEW pc \in Underway, Goto(t, pc), pc = "run" => Target(call[t]) \in Names,
           conf' = conf, registered' = registered
    PROVE  IInv'
<1> DEFINE d == [call[t] EXCEPT !.pc = pc]
<1>1. call' = [call EXCEPT ![t] = d]
  BY DEF Goto
<1>2. CallInv(d)
  BY IsUnderway DEF CallInv, CallFields, TakenUp, Untouched, Target, Asked, Spelled
<1> QED
  BY <1>1, <1>2, OneCall DEF IInv

LEMMA EndsAudited ==
    ASSUME IInv, NEW t \in Threads, call[t].pc \in Underway,
           NEW decision \in {"allow", "deny"}, NEW reply, Audited(t, decision, reply),
           decision = "deny" => reply.kind \in {"error", "protocol"},
           decision = "allow" /\ reply.kind = "error" => reply.status = 400,
           conf' = conf, registered' = registered
    PROVE  IInv'
<1> DEFINE d == [call[t] EXCEPT !.pc = "done", !.reply = reply, !.log = Append(@, decision)]
<1>0. t \in DOMAIN call /\ DOMAIN call[t] = CallFields /\ call[t].log = <<>>
  BY IsUnderway DEF IInv, Untouched
<1>1. call' = [call EXCEPT ![t] = d]
  BY <1>0 DEF Audited, CallFields
<1>2. d.log = <<decision>>
  BY <1>0 DEF CallFields
<1>3. CallInv(d)
  BY <1>2, IsUnderway DEF CallInv, CallFields, Accounted, TakenUp, Untouched
<1>4. registered' \subseteq Standing
  BY DEF IInv
<1>5. IInv /\ conf' = conf
  OBVIOUS
<1> HIDE DEF d
<1> QED
  BY ONLY <1>1, <1>3, <1>4, <1>5, OneCall

LEMMA GateKeeps == ASSUME IInv, NEW t \in Threads, Gate(t) PROVE IInv'
<1>1. call[t].pc \in Underway /\ conf' = conf /\ registered' = registered
  BY DEF Gate, Underway
<1>2. \/ Audited(t, "deny", Answer("error", 200))
      \/ \E pc \in Underway \ {"run"} : Goto(t, pc)
  BY DEF Gate, Underway
<1> QED
  BY <1>1, <1>2, GoesOn, EndsAudited DEF Answer

LEMMA RedeemKeeps == ASSUME IInv, NEW t \in Threads, Redeem(t) PROVE IInv'
<1>1. call[t].pc \in Underway /\ conf' = conf /\ registered' = registered
  BY DEF Redeem, Underway
<1>2. \E decision \in {"allow", "deny"} : \E reply :
          /\ Audited(t, decision, reply)
          /\ reply.kind = IF decision = "deny" THEN "error" ELSE "result"
  BY DEF Redeem, Answer
<1> QED
  BY <1>1, <1>2, EndsAudited

LEMMA ReadEntryKeeps == ASSUME IInv, NEW t \in Threads, ReadEntry(t) PROVE IInv'
<1> DEFINE d == [call[t] EXCEPT !.known = call[t].req.name \in registered,
                                !.pc = IF conf.limiter THEN "clock" ELSE "dispatch"]
<1>1. call[t].pc \in Underway /\ conf' = conf /\ registered' = registered
  BY DEF ReadEntry, Underway
<1>2. call' = [call EXCEPT ![t] = d]
  BY DEF ReadEntry
<1>3. CallInv(d)
  BY <1>1, IsUnderway DEF CallInv, CallFields, TakenUp, Untouched, Underway
<1> QED
  BY <1>1, <1>2, <1>3, OneCall DEF IInv

LEMMA ReadClockKeeps == ASSUME IInv, NEW t \in Threads, ReadClock(t) PROVE IInv'
<1> DEFINE d == [call[t] EXCEPT !.reading = now, !.pc = "count"]
<1>1. call[t].pc \in Underway /\ conf' = conf /\ registered' = registered
  BY DEF ReadClock, Underway
<1>2. call' = [call EXCEPT ![t] = d]
  BY DEF ReadClock
<1>3. CallInv(d)
  BY <1>1, IsUnderway DEF CallInv, CallFields, TakenUp, Untouched, Underway
<1> QED
  BY <1>1, <1>2, <1>3, OneCall DEF IInv

LEMMA CountKeeps == ASSUME IInv, NEW t \in Threads, Count(t) PROVE IInv'
<1>1. call[t].pc \in Underway /\ conf' = conf /\ registered' = registered
  BY DEF Count, Underway
<1>2. Goto(t, "dispatch") \/ Audited(t, "deny", Throttled(call[t]))
  BY DEF Count
<1>3. Throttled(call[t]).kind = "error" /\ "dispatch" \in Underway
  BY DEF Throttled, Limited, Answer, Underway
<1> QED
  BY <1>1, <1>2, <1>3, GoesOn, EndsAudited

LEMMA DispatchKeeps == ASSUME IInv, NEW t \in Threads, Dispatch(t) PROVE IInv'
<1> DEFINE c == call[t]
           verdict == Verdict(c)
<1>1. c.pc \in Underway /\ conf' = conf /\ registered' = registered
  BY DEF Dispatch, Underway
<1>2. CASE verdict = "run" /\ Goto(t, "run")
  <2>1. Target(c) \in Names
    BY <1>1, <1>2, IsUnderway, RunsATool DEF IInv
  <2> QED
    BY <1>1, <1>2, <2>1, GoesOn DEF Underway
<1>3. CASE verdict = "help" /\ c.pc = "dispatch"
  <2>1. PICK large \in BOOLEAN :
            call' = [call EXCEPT ![t].result = [shape |-> "help", id |-> FALSE, large |-> large],
                                 ![t].log = Append(@, "allow"), ![t].pc = "shape"]
    BY <1>3 DEF Dispatch
  <2> DEFINE d == [c EXCEPT !.result = [shape |-> "help", id |-> FALSE, large |-> large],
                            !.log = Append(@, "allow"), !.pc = "shape"]
  <2>2. call' = [call EXCEPT ![t] = d]
    BY <2>1
  <2>3. DOMAIN c = CallFields /\ c.log = <<>>
    BY <1>1, IsUnderway DEF Untouched
  <2>4. d.log = <<"allow">>
    BY <2>3 DEF CallFields
  <2>5. CallInv(d)
    BY <1>1, <2>3, <2>4, IsUnderway DEF CallInv, CallFields, TakenUp
  <2> HIDE DEF d
  <2> QED
    BY <1>1, <2>2, <2>5, OneCall DEF IInv
<1>4. CASE verdict \notin {"run", "help"}
  <2> DEFINE reply == [Refusal(verdict) EXCEPT !.named = Hints(c, verdict)]
  <2>1. Audited(t, Decision(verdict), reply)
    BY <1>4 DEF Dispatch
  <2>2. verdict \in {"absent", "unknown", "permission", "input", "value"}
    BY <1>4, VerdictIsOne
  <2>3. reply.kind = Refusal(verdict).kind /\ reply.status = Refusal(verdict).status
    BY <2>2, RefusalKind DEF ReplyFields
  <2>4. /\ reply.kind \in {"error", "protocol"} /\ Decision(verdict) \in {"allow", "deny"}
        /\ Decision(verdict) = "allow" => reply.status = 400
    BY <2>2, <2>3, RefusalKind
  <2> HIDE DEF reply, verdict
  <2> QED
    BY <1>1, <2>1, <2>4, EndsAudited
<1> QED
  BY <1>2, <1>3, <1>4 DEF Dispatch

\* A fault that is on record as a denial is one of a Python callable, and wrote nothing.
LEMMA FaultsAreKnown ==
    ASSUME NEW n \in Names, NEW f \in Faults(n)
    PROVE  /\ f.decision \in {"allow", "deny"}
           /\ f.decision = "deny" => Tool[n].backed = "python" /\ ~f.committed
  BY ToolAssumption DEF Faults, Fault

LEMMA FailKeeps == ASSUME IInv, NEW t \in Threads, Fail(t) PROVE IInv'
<1> DEFINE c == call[t]
           n == Target(c)
<1>1. c.pc = "run" /\ c.pc \in Underway /\ conf' = conf /\ registered' = registered
  BY DEF Fail, Underway
<1>2. PICK f \in Faults(n) :
          call' = [call EXCEPT ![t].pc = "done", ![t].reply = Broken(c, f.status),
                               ![t].log = Append(@, f.decision), ![t].ran = TRUE,
                               ![t].wrote = f.committed /\ Tool[n].write]
  BY DEF Fail
<1>3. /\ n \in Names /\ DOMAIN c = CallFields /\ c.log = <<>> /\ TakenUp(c)
      /\ c.view \subseteq Standing /\ c.req.method # "token"
      /\ t \in DOMAIN call /\ registered' \subseteq Standing
  BY <1>1, IsUnderway DEF IInv, Untouched
<1>4. /\ f.decision \in {"allow", "deny"}
      /\ f.decision = "deny" => Tool[n].backed = "python" /\ ~f.committed
  BY <1>2, <1>3, FaultsAreKnown
<1> DEFINE d == [c EXCEPT !.pc = "done", !.reply = Broken(c, f.status),
                          !.log = Append(@, f.decision), !.ran = TRUE,
                          !.wrote = f.committed /\ Tool[n].write]
<1>5. call' = [call EXCEPT ![t] = d]
  BY <1>2, <1>3 DEF CallFields
<1>6. /\ DOMAIN d = CallFields /\ d.pc = "done" /\ d.log = <<f.decision>> /\ d.ran
      /\ d.wrote = (f.committed /\ Tool[n].write)
      /\ d.view = c.view /\ d.req = c.req /\ d.reply.kind = "error"
  BY <1>3 DEF CallFields, Answer, Broken
<1>7. Target(d) = n /\ (TakenUp(d) <=> TakenUp(c))
  BY <1>6 DEF Target, Asked, Spelled, TakenUp
<1> HIDE DEF d
<1>8. Accounted(d)
  <2>1. Len(d.log) = 1
    BY <1>4, <1>6
  <2>2. d.log = <<"deny">> => f.decision = "deny"
    BY <1>4, <1>6
  <2>3. d.wrote => d.log = <<"allow">>
    BY <1>4, <1>6
  <2>4. TakenUp(d) /\ (d.log = <<"allow">> /\ ~d.ran => FALSE) /\ d.reply.kind \notin {"result"}
    BY <1>3, <1>6, <1>7
  <2> QED
    BY <1>4, <1>6, <1>7, <2>1, <2>2, <2>3, <2>4 DEF Accounted, TakenUp
<1>9. CallInv(d)
  BY <1>3, <1>6, <1>8 DEF CallInv
<1> QED
  BY <1>1, <1>3, <1>5, <1>9, OneCall

LEMMA SucceedKeeps == ASSUME IInv, NEW t \in Threads, Succeed(t) PROVE IInv'
<1> DEFINE c == call[t]
           n == Target(c)
<1>1. c.pc \in Underway /\ conf' = conf /\ registered' = registered
  BY DEF Succeed, Underway
<1>2. PICK r : call' = [call EXCEPT ![t].pc = "shape", ![t].result = r, ![t].log = Append(@, "allow"),
                                    ![t].ran = TRUE, ![t].wrote = Tool[n].write]
  BY DEF Succeed
<1>3. /\ DOMAIN c = CallFields /\ c.log = <<>> /\ TakenUp(c)
      /\ c.view \subseteq Standing /\ c.req.method # "token"
      /\ t \in DOMAIN call /\ registered' \subseteq Standing
  BY <1>1, IsUnderway DEF IInv, Untouched
<1> DEFINE d == [c EXCEPT !.pc = "shape", !.result = r, !.log = Append(@, "allow"),
                          !.ran = TRUE, !.wrote = Tool[n].write]
<1>4. call' = [call EXCEPT ![t] = d]
  BY <1>2, <1>3 DEF CallFields
<1>5. CallInv(d)
  BY <1>3 DEF CallInv, CallFields, TakenUp
<1> HIDE DEF d
<1> QED
  BY <1>1, <1>3, <1>4, <1>5, OneCall

-----------------------------------------------------------------------------
(* The other steps. *)

LEMMA ShapeKeeps == ASSUME IInv, NEW t \in Threads, Shape(t) PROVE IInv'
<1> DEFINE c == call[t]
           named == IF c.result.shape = "help" THEN Disclosed(c, c.req.name) ELSE {}
           reply == [Shaped(c) EXCEPT !.named = named]
           d == [c EXCEPT !.pc = "done", !.reply = reply]
<1>1. /\ c.pc = "shape" /\ conf' = conf /\ registered' = registered
      /\ Done(t, reply)
  BY DEF Shape
<1>2. /\ DOMAIN c = CallFields /\ c.log = <<"allow">> /\ TakenUp(c)
      /\ c.view \subseteq Standing /\ c.req.method # "token"
      /\ t \in DOMAIN call /\ registered' \subseteq Standing
  BY <1>1 DEF IInv, CallInv, Underway, Idle
<1>3. reply.kind \in {"result", "crash"}
  BY ShapedKind
<1>4. call' = [call EXCEPT ![t] = d]
  BY <1>1, <1>2 DEF Done, CallFields
<1> HIDE DEF reply
<1>5. CallInv(d)
  BY <1>2, <1>3 DEF CallInv, CallFields, Accounted, TakenUp
<1> HIDE DEF d
<1> QED
  BY <1>1, <1>2, <1>4, <1>5, OneCall

LEMMA AnswerAtOnceKeeps == ASSUME IInv, NEW t \in Threads, AnswerAtOnce(t) PROVE IInv'
<1> DEFINE c == call[t]
           reply == Immediate(c)
           d == [c EXCEPT !.pc = "done", !.reply = reply]
<1>1. c.pc = "immediate" /\ conf' = conf /\ registered' = registered /\ Done(t, reply)
  BY DEF AnswerAtOnce
<1>2. /\ DOMAIN c = CallFields /\ ~TakenUp(c) /\ Untouched(c)
      /\ c.view \subseteq Standing /\ c.req.method # "token"
      /\ t \in DOMAIN call /\ registered' \subseteq Standing
  BY <1>1 DEF IInv, CallInv, Underway, Idle
<1>3. Resolved(c.req) => reply.kind # "result"
  BY <1>2, ImmediateKind
<1>4. call' = [call EXCEPT ![t] = d]
  BY <1>1, <1>2 DEF Done, CallFields
<1> HIDE DEF reply
<1>5. CallInv(d)
  BY <1>2, <1>3 DEF CallInv, CallFields, Accounted, TakenUp, Untouched
<1> HIDE DEF d
<1> QED
  BY <1>1, <1>2, <1>4, <1>5, OneCall

LEMMA ArriveKeeps == ASSUME IInv, NEW t \in Threads, NEW req, Arrive(t, req) PROVE IInv'
<1>1. conf' = conf /\ registered' = registered /\ registered' \subseteq Standing /\ Carved \subseteq Standing
  BY DEF Arrive, IInv, Carved
<1>2. PICK pc : /\ Begun(t, req, pc)
                /\ \/ req.method = "token" /\ pc = "add"
                   \/ req.method # "token" /\ conf.enabled /\ Resolved(req) /\ pc = "agent"
                   \/ req.method # "token" /\ ~(conf.enabled /\ Resolved(req)) /\ pc = "immediate"
  BY DEF Arrive
<1> DEFINE d == [pc |-> pc, req |-> req, view |-> Carved, known |-> FALSE, reading |-> 0, ran |-> FALSE,
                 wrote |-> FALSE, result |-> None, log |-> <<>>, reply |-> NoAnswer]
<1>3. call' = [call EXCEPT ![t] = d]
  BY <1>2 DEF Begun
<1>4. CallInv(d)
  BY <1>1, <1>2 DEF CallInv, CallFields, Underway, TakenUp, Untouched
<1> HIDE DEF d
<1> QED
  BY <1>1, <1>3, <1>4, OneCall

LEMMA LeaveKeeps == ASSUME IInv, NEW t \in Threads, Leave(t) PROVE IInv'
<1>1. conf' = conf /\ registered' \subseteq Standing /\ call' = [call EXCEPT ![t] = Idle] /\ CallInv(Idle)
  BY DEF Leave, IInv, CallInv
<1> QED
  BY <1>1, OneCall

LEMMA TokenKeeps == ASSUME IInv, NEW t \in Threads, Add(t) \/ Increment(t) PROVE IInv'
<1> DEFINE c == call[t]
<1>1. /\ conf' = conf /\ registered' = registered /\ registered' \subseteq Standing
      /\ DOMAIN c = CallFields /\ c.view \subseteq Standing /\ c.req.method = "token"
      /\ t \in DOMAIN call
  BY DEF Add, Increment, IInv, CallInv, Underway, Idle
<1>2. CASE Add(t)
  <2> DEFINE d == [c EXCEPT !.pc = "increment"]
  <2>1. call' = [call EXCEPT ![t] = d]
    BY <1>1, <1>2 DEF Add, Goto
  <2>2. CallInv(d)
    BY <1>1 DEF CallInv, CallFields
  <2> HIDE DEF d
  <2> QED
    BY <1>1, <2>1, <2>2, OneCall
<1>3. CASE Increment(t)
  <2>1. PICK reply : call' = [call EXCEPT ![t].pc = "done", ![t].reading = now, ![t].reply = reply]
    BY <1>3 DEF Increment
  <2> DEFINE d == [c EXCEPT !.pc = "done", !.reading = now, !.reply = reply]
  <2>2. call' = [call EXCEPT ![t] = d]
    BY <1>1, <2>1 DEF CallFields
  <2>3. CallInv(d)
    BY <1>1 DEF CallInv, CallFields
  <2> HIDE DEF d
  <2> QED
    BY <1>1, <2>2, <2>3, OneCall
<1> QED
  BY <1>2, <1>3

LEMMA StepKeeps == IInv /\ [Next]_vars => IInv'
<1> SUFFICES ASSUME IInv, [Next]_vars PROVE IInv'
  OBVIOUS
<1>1. ASSUME NEW t \in Threads, NEW req, Arrive(t, req) PROVE IInv'
  BY <1>1, ArriveKeeps
<1>2. ASSUME NEW t \in Threads, Step(t) PROVE IInv'
  BY <1>2, AnswerAtOnceKeeps, LeaveKeeps, GateKeeps, RedeemKeeps, ReadEntryKeeps, ReadClockKeeps,
     CountKeeps, DispatchKeeps, FailKeeps, SucceedKeeps, ShapeKeeps, TokenKeeps DEF Step
<1>3. ASSUME NEW n \in Names, Register(n) PROVE IInv'
  <2>1. conf' = conf /\ call' = call /\ n \in conf.late
    BY <1>3 DEF Register
  <2>2. registered' \subseteq Standing
    BY <1>3, LateIsStanding DEF Register, IInv
  <2>3. \A t \in Threads : CallInv(call[t])'
    BY <2>1, SettingsStay DEF IInv
  <2> QED
    BY <2>1, <2>2, <2>3 DEF IInv
<1>4. CASE UNCHANGED <<conf, registered, call>>
  <2>1. \A t \in Threads : CallInv(call[t])'
    BY <1>4, SettingsStay DEF IInv
  <2> QED
    BY <1>4, <2>1 DEF IInv
<1> QED
  BY <1>1, <1>2, <1>3, <1>4 DEF Next, vars

\* One record for every call of a tool, and one that is true of what happened to it
\* (_handle_tools_call and its finally).
THEOREM CallsAreAccounted == Spec => []EveryCallIsAccounted
<1>1. IInv => EveryCallIsAccounted
  BY DEF IInv, CallInv, EveryCallIsAccounted, Over, Idle, Underway
<1> QED
  BY <1>1, InitInv, StepKeeps, PTL DEF Spec

-----------------------------------------------------------------------------
(* What callers may not know of. *)

\* Nothing is easier to reach than an entry point.
LEMMA DispatchersAreReached ==
    ASSUME IInv, NEW n \in Names, Tool[n].kind \in {"group", "class"}
    PROVE  Reaches(n)
<1>1. Tool[n].tier = 0
  BY ToolAssumption
<1>2. conf.tier \in Tiers /\ conf.cap \in Tiers \cup {Uncapped}
  BY ConfigurationsAssumption DEF IInv
<1> QED
  BY <1>1, <1>2 DEF Reaches, Stamped, Lesser, Tiers, Uncapped

\* The members of a group that is there are there.
LEMMA MembersAreThere ==
    ASSUME IInv, registered \subseteq conf.early \cup conf.late, conf.early \subseteq registered,
           NEW c, c.view \subseteq registered, NEW g \in Visible(c), Tool[g].kind = "group"
    PROVE  Members(c, g) \subseteq Visible(c)
<1>1. CASE conf.routed
  BY <1>1 DEF Members, Visible
<1>2. CASE ~conf.routed
  <2>1. g \in conf.early \cup conf.late
    BY <1>2 DEF Visible
  <2>2. Tool[g].members \subseteq conf.early
    BY <2>1, ConfigurationsAssumption DEF IInv
  <2> QED
    BY <1>2, <2>2 DEF Members, Visible
<1> QED
  BY <1>1, <1>2

\* A request as it was, but for one key.
Renamed(c, d) ==
    /\ d.view = c.view
    /\ d.req.lite = c.req.lite /\ d.req.valid = c.req.valid /\ d.req.misplaced = c.req.misplaced
    /\ d.req.resource = c.req.resource /\ d.req.exact = c.req.exact

LEMMA SameListing ==
    ASSUME NEW c, NEW d, Renamed(c, d)
    PROVE  /\ Visible(d) = Visible(c)
           /\ \A g : Members(d, g) = Members(c, g)
           /\ \A g : Candidates(d, g) = Candidates(c, g)
           /\ \A tools : Listing(d, tools) = Listing(c, tools)
<1>1. Visible(d) = Visible(c) /\ \A g : Members(d, g) = Members(c, g)
  BY DEF Renamed, Visible, Members
<1>2. \A g : Candidates(d, g) = Candidates(c, g) /\ Disclosed(d, g) = Disclosed(c, g)
  BY <1>1 DEF Candidates, Disclosed
<1>3. \A tools : Listing(d, tools) = Listing(c, tools)
  BY <1>1, <1>2, Zenon DEF Listing
<1> QED
  BY <1>1, <1>2, <1>3

\* The one call ends as the other does, but for what lite shows at the plain gateway.
NoTelling(c, other) ==
    /\ Verdict(c) = Verdict(other)
    /\ Suggested(c, Verdict(c)) = Suggested(other, Verdict(c))
    /\ \/ Echoed(c, Verdict(c)) = Echoed(other, Verdict(c))
       \/ c.req.lite /\ ~conf.routed /\ Echoed(c, Verdict(c)) = {Aimed(c)}

LEMMA NameIsAbsent ==
    ASSUME IInv, NEW c, DOMAIN c = CallFields, DOMAIN c.req = RequestFields,
           c.view \subseteq Standing, Aimed(c) \in Names, Absent(c, Aimed(c)), Aimed(c) = c.req.name
    PROVE  NoTelling(c, Elsewhere(c))
<1> DEFINE d == [c EXCEPT !.req.name = None]
<1>1. Elsewhere(c) = d
  BY DEF Elsewhere
<1>2. Renamed(c, d) /\ d.req.name = None
  BY DEF Renamed, CallFields, RequestFields
<1> HIDE DEF d
<1>3. None \notin Names /\ Visible(c) \subseteq Standing /\ Standing \subseteq Names
  BY ToolAssumption DEF Visible, IInv, Standing
<1>4. Verdict(d) = "absent"
  BY <1>2, <1>3, SameListing DEF Verdict
<1> DEFINE n == c.req.name
<1>5. ASSUME n \in Visible(c) PROVE Capped /\ ~Reaches(n) /\ Tool[n].kind = "flat"
  <2>1. n \in Names /\ Tool[n].kind # "action" /\ Capped /\ ~Reaches(n)
    BY <1>5, <1>3 DEF Absent, Standing
  <2>2. Tool[n].kind \notin {"group", "class"}
    BY <2>1, DispatchersAreReached
  <2> QED
    BY <2>1, <2>2, ToolAssumption
<1>6. Verdict(c) = "absent"
  BY <1>5 DEF Verdict, FlatVerdict
<1>7. Suggested(c, "absent") = Suggested(d, "absent")
  BY <1>2, SameListing DEF Suggested
<1>8. Echoed(d, "absent") = {}
  BY <1>2, <1>3, SameListing DEF Echoed, Enrichable
<1>9. Echoed(c, "absent") = {} \/ (c.req.lite /\ ~conf.routed /\ Echoed(c, "absent") = {n})
  <2>1. CASE c.req.lite /\ Enrichable(c, n)
    <3>1. n \in Visible(c) /\ ~conf.routed /\ Tool[n].kind = "flat"
      BY <1>5, <2>1 DEF Enrichable
    <3>2. Schema(n) = {n}
      BY <3>1 DEF Schema
    <3> QED
      BY <2>1, <3>1, <3>2 DEF Echoed
  <2>2. CASE ~(c.req.lite /\ Enrichable(c, n))
    BY <2>2 DEF Echoed
  <2> QED
    BY <2>1, <2>2
<1> QED
  BY <1>1, <1>4, <1>6, <1>7, <1>8, <1>9 DEF NoTelling

LEMMA MemberIsAbsent ==
    ASSUME IInv, registered \subseteq conf.early \cup conf.late, conf.early \subseteq registered,
           NEW c, DOMAIN c = CallFields, DOMAIN c.req = RequestFields,
           c.view \subseteq registered, Aimed(c) \in Names, Absent(c, Aimed(c)), Aimed(c) # c.req.name
    PROVE  NoTelling(c, Elsewhere(c))
<1> DEFINE n == c.req.name
           m == Asked(c)
           d == [c EXCEPT !.req.member = "unheard"]
<1>1. Elsewhere(c) = d
  BY DEF Elsewhere
<1>2. Renamed(c, d) /\ d.req.name = n /\ d.req.member = "unheard"
  BY DEF Renamed, CallFields, RequestFields
<1> HIDE DEF d
<1>3. n \in Visible(c) /\ Tool[n].kind # "flat" /\ Aimed(c) = m
  BY DEF Aimed
<1>4. n \in Names /\ Tool[n].kind \in {"group", "class"} /\ m \in Names
  BY <1>3, ToolAssumption DEF Visible, IInv, Standing
<1>5. m \notin {None, "help", "unheard"} /\ "unheard" \notin Tool[n].members
  BY <1>4, ToolAssumption
<1>6. Asked(d) = "unheard"
  BY <1>2, <1>5 DEF Asked, Spelled, Renamed
<1>7. Verdict(c) = Verdict(d)
  <2>1. n \in Visible(d) /\ Members(d, n) = Members(c, n)
    BY <1>2, <1>3, SameListing
  <2>2. CASE Tool[n].kind = "group"
    <3>1. Verdict(c) = GroupVerdict(c, n) /\ Verdict(d) = GroupVerdict(d, n)
      BY <1>2, <1>3, <2>1, <2>2 DEF Verdict
    <3>2. "unheard" \notin Members(c, n)
      BY <1>5 DEF Members
    <3>3. m \notin Members(c, n) \/ (Capped /\ ~Reaches(m))
      <4>1. SUFFICES ASSUME m \in Members(c, n) PROVE Capped /\ ~Reaches(m)
        OBVIOUS
      <4>2. m \in Visible(c)
        BY <1>3, <2>2, <4>1, MembersAreThere
      <4> QED
        BY <1>3, <4>2 DEF Absent
    <3> QED
      BY <1>2, <1>5, <1>6, <2>1, <3>1, <3>2, <3>3 DEF GroupVerdict, Renamed, None
  <2>3. CASE Tool[n].kind = "class"
    <3>1. Verdict(c) = ClassVerdict(c, n) /\ Verdict(d) = ClassVerdict(d, n)
      BY <1>2, <1>3, <2>1, <2>3 DEF Verdict
    <3>2. m \in Tool[n].members => Capped /\ ~Reaches(m)
      BY <1>3, <1>4, <2>3, ToolAssumption DEF Absent
    <3> QED
      BY <1>2, <1>5, <1>6, <3>1, <3>2 DEF ClassVerdict, Renamed, None
  <2> QED
    BY <1>4, <2>2, <2>3
<1>8. \A verdict : Suggested(c, verdict) = Suggested(d, verdict)
  BY <1>2, SameListing DEF Suggested
<1>9. Addressed(d) = {} /\ (Addressed(c) = {} \/ Addressed(c) = {m})
  <2>1. None \notin Tool[n].members
    BY <1>4, ToolAssumption
  <2>2. Spelled(d) \in {None, "unheard"} /\ Spelled(c) \in {None, m}
    BY <1>2 DEF Asked, Spelled, Renamed
  <2> QED
    BY <1>2, <1>5, <2>1, <2>2 DEF Addressed
<1>10. \A x : Enrichable(c, x) <=> Enrichable(d, x)
  BY <1>2, SameListing DEF Enrichable
<1>11. Enrichable(c, m) => ~conf.routed
  BY <1>3 DEF Enrichable, Absent
<1>12. \A verdict : \/ Echoed(c, verdict) = Echoed(d, verdict)
                    \/ c.req.lite /\ ~conf.routed /\ Echoed(c, verdict) = {m}
  BY <1>2, <1>9, <1>10, <1>11 DEF Echoed, Renamed
<1> QED
  BY <1>1, <1>3, <1>7, <1>8, <1>12 DEF NoTelling

-----------------------------------------------------------------------------
(* What answers may name. *)

\* The names that an answer to this call may hold.
May(c, n) ==
    Absent(c, n) =>
        /\ c.req.lite
        /\ \/ Tool[n].kind = "action"
           \/ ~conf.routed /\ n \in {c.req.name, c.req.member}

LEMMA DisclosedMay ==
    ASSUME IInv, registered \subseteq conf.early \cup conf.late, conf.early \subseteq registered,
           NEW c, c.view \subseteq registered, NEW g \in Visible(c), NEW n \in Disclosed(c, g)
    PROVE  May(c, n)
<1>1. n \in Members(c, g) /\ Reaches(n) /\ n \in Tool[g].members /\ g \in Names
  BY DEF Disclosed, Members, Visible, IInv, Standing
<1>2. CASE Tool[g].kind = "group"
  BY <1>1, <1>2, MembersAreThere DEF May, Absent
<1>3. CASE Tool[g].kind # "group"
  BY <1>1, <1>3, ToolAssumption DEF May, Absent
<1> QED
  BY <1>2, <1>3

LEMMA ListingMay ==
    ASSUME IInv, registered \subseteq conf.early \cup conf.late, conf.early \subseteq registered,
           NEW c, c.view \subseteq registered, NEW tools, NEW n \in Listing(c, tools)
    PROVE  May(c, n)
<1>1. \/ n \in Visible(c) /\ Reaches(n)
      \/ \E d \in Visible(c) : n \in Disclosed(c, d)
  BY DEF Listing
<1> QED
  BY <1>1, DisclosedMay DEF May, Absent

LEMMA SuggestedMay ==
    ASSUME IInv, registered \subseteq conf.early \cup conf.late, conf.early \subseteq registered,
           NEW c, c.view \subseteq registered, NEW n \in Suggested(c, Verdict(c))
    PROVE  May(c, n)
<1> DEFINE name == c.req.name
<1>1. CASE Verdict(c) = "absent" /\ n \in Listing(c, Names)
  BY <1>1, ListingMay
<1>2. CASE Verdict(c) = "unknown" /\ n \in Candidates(c, name)
  <2>1. name \in Visible(c) /\ name \in Names
    BY <1>2 DEF Verdict, Visible, IInv, Standing
  <2>2. n \in Members(c, name) /\ (Capped => Reaches(n)) /\ n \in Tool[name].members
    BY <1>2 DEF Candidates, Members
  <2>3. CASE Tool[name].kind = "group"
    BY <2>1, <2>2, <2>3, MembersAreThere DEF May, Absent
  <2>4. CASE Tool[name].kind # "group"
    BY <2>1, <2>2, <2>4, ToolAssumption DEF May, Absent
  <2> QED
    BY <2>3, <2>4
<1> QED
  BY <1>1, <1>2 DEF Suggested

\* What a route shows the schema of is there, and within reach.
LEMMA EnrichableMay ==
    ASSUME NEW c, NEW n \in {c.req.name, c.req.member}, Enrichable(c, n), c.req.lite
    PROVE  May(c, n)
  BY DEF Enrichable, May, Absent

LEMMA EchoedMay ==
    ASSUME IInv, NEW c, c.view \subseteq registered, NEW verdict, NEW n \in Echoed(c, verdict)
    PROVE  May(c, n)
<1> DEFINE name == c.req.name
<1>1. c.req.lite /\ Enrichable(c, name)
  BY DEF Echoed
<1>2. name \in Names
  BY <1>1 DEF Enrichable, Visible, IInv, Standing
<1>3. \/ n \in Schema(name)
      \/ n \in Addressed(c) /\ Enrichable(c, n)
  BY DEF Echoed
<1>4. CASE n = name
  BY <1>1, <1>4, EnrichableMay
<1>5. CASE Tool[name].kind = "class" /\ n \in Tool[name].members
  BY <1>1, <1>2, <1>5, ToolAssumption DEF May
<1>6. CASE n \in Addressed(c) /\ Enrichable(c, n)
  <2>1. n \in Names /\ n = Spelled(c)
    BY <1>2, <1>6, ToolAssumption DEF Addressed
  <2>2. n = c.req.member
    BY <2>1, ToolAssumption DEF Spelled
  <2> QED
    BY <1>1, <1>6, <2>2, EnrichableMay
<1> QED
  BY <1>3, <1>4, <1>5, <1>6 DEF Schema

LEMMA HintsMay ==
    ASSUME IInv, registered \subseteq conf.early \cup conf.late, conf.early \subseteq registered,
           NEW c, c.view \subseteq registered, NEW n \in Hints(c, Verdict(c))
    PROVE  May(c, n)
  BY SuggestedMay, EchoedMay DEF Hints

-----------------------------------------------------------------------------
(* The same, for the answers as long as they stand. *)

NameInv(c) ==
    c # Idle =>
        /\ DOMAIN c.req = RequestFields
        /\ c.view \subseteq registered
        /\ c.pc \in {"run", "shape"} => c.req.name \in Visible(c)
        /\ c.pc = "done" => \A n \in c.reply.named : May(c, n)

HInv ==
    /\ IInv
    /\ registered \subseteq conf.early \cup conf.late
    /\ conf.early \subseteq registered
    /\ \A t \in Threads : NameInv(call[t])

\* As the registry grows, what was visible stays so.
LEMMA NamesStay ==
    ASSUME conf' = conf, registered \subseteq registered', NEW t \in Threads, NameInv(call'[t])
    PROVE  NameInv(call[t])'
  BY DEF NameInv, May, Absent, Capped, Reaches, Stamped, Visible, Idle, RequestFields

LEMMA OneNamed ==
    ASSUME HInv, IInv', NEW t \in Threads, NameInv(call'[t]), conf' = conf, registered' = registered,
           \A u \in Threads \ {t} : call'[u] = call[u]
    PROVE  HInv'
<1>1. \A u \in Threads : NameInv(call'[u])
  BY DEF HInv
<1>2. \A u \in Threads : NameInv(call[u])'
  BY <1>1, NamesStay
<1>3. registered' \subseteq conf'.early \cup conf'.late /\ conf'.early \subseteq registered'
  BY DEF HInv
<1> QED
  BY <1>2, <1>3 DEF HInv

\* What becomes of a call in a step that names nothing, and runs nothing.
Quiet(c, d) ==
    /\ d.req = c.req /\ d.view = c.view
    /\ d.pc \notin {"run", "shape"}
    /\ d.pc = "done" => d.reply.named = {}

LEMMA QuietStep ==
    ASSUME HInv, IInv', NEW t \in Threads, t \in DOMAIN call, call[t] # Idle,
           conf' = conf, registered' = registered,
           NEW d, call' = [call EXCEPT ![t] = d], Quiet(call[t], d)
    PROVE  HInv'
<1>1. call'[t] = d /\ \A u \in Threads \ {t} : call'[u] = call[u]
  OBVIOUS
<1>2. NameInv(call'[t])
  BY <1>1 DEF HInv, NameInv, Quiet
<1> QED
  BY <1>1, <1>2, OneNamed

LEMMA Fields ==
    ASSUME HInv, NEW t \in Threads, call[t].pc # "idle"
    PROVE  /\ t \in DOMAIN call /\ call[t] # Idle /\ DOMAIN call[t] = CallFields
           /\ DOMAIN call[t].req = RequestFields /\ call[t].view \subseteq registered
           /\ call[t].pc \in {"run", "shape"} => call[t].req.name \in Visible(call[t])
  BY DEF HInv, IInv, CallInv, NameInv, Idle

LEMMA QuietGoto ==
    ASSUME HInv, IInv', NEW t \in Threads, call[t].pc # "idle", conf' = conf, registered' = registered,
           NEW pc, Goto(t, pc), pc \notin {"run", "shape", "done"}
    PROVE  HInv'
<1> DEFINE d == [call[t] EXCEPT !.pc = pc]
<1>1. call' = [call EXCEPT ![t] = d]
  BY Fields DEF Goto
<1>2. Quiet(call[t], d)
  BY Fields DEF Quiet, CallFields
<1> HIDE DEF d
<1> QED
  BY <1>1, <1>2, QuietStep, Fields

LEMMA QuietEnd ==
    ASSUME HInv, IInv', NEW t \in Threads, call[t].pc # "idle", conf' = conf, registered' = registered,
           NEW decision, NEW reply, Audited(t, decision, reply), reply.named = {}
    PROVE  HInv'
<1> DEFINE d == [call[t] EXCEPT !.pc = "done", !.reply = reply, !.log = Append(@, decision)]
<1>1. call' = [call EXCEPT ![t] = d]
  BY Fields DEF Audited, CallFields
<1>2. Quiet(call[t], d)
  BY Fields DEF Quiet, CallFields
<1> HIDE DEF d
<1> QED
  BY <1>1, <1>2, QuietStep, Fields

LEMMA QuietActions ==
    ASSUME HInv, IInv', NEW t \in Threads,
           \/ Gate(t) \/ Redeem(t) \/ ReadEntry(t) \/ ReadClock(t) \/ Add(t) \/ Increment(t)
    PROVE  HInv'
<1> DEFINE c == call[t]
<1>1. call[t].pc # "idle" /\ conf' = conf /\ registered' = registered
  BY DEF Gate, Redeem, ReadEntry, ReadClock, Add, Increment
<1>2. t \in DOMAIN call /\ c # Idle /\ DOMAIN c = CallFields
  BY <1>1, Fields
<1>3. CASE Gate(t) \/ Redeem(t) \/ Add(t)
  <2>1. \/ \E pc : Goto(t, pc) /\ pc \notin {"run", "shape", "done"}
        \/ \E decision, reply : Audited(t, decision, reply) /\ reply.named = {}
    BY <1>3 DEF Gate, Redeem, Add, Answer
  <2> QED
    BY <1>1, <2>1, QuietGoto, QuietEnd
<1>4. CASE ReadEntry(t)
  <2> DEFINE d == [c EXCEPT !.known = c.req.name \in registered,
                            !.pc = IF conf.limiter THEN "clock" ELSE "dispatch"]
  <2>1. call' = [call EXCEPT ![t] = d]
    BY <1>2, <1>4 DEF ReadEntry, CallFields
  <2>2. Quiet(c, d)
    BY <1>2 DEF Quiet, CallFields
  <2> HIDE DEF d
  <2> QED
    BY <1>1, <1>2, <2>1, <2>2, QuietStep
<1>5. CASE ReadClock(t)
  <2> DEFINE d == [c EXCEPT !.reading = now, !.pc = "count"]
  <2>1. call' = [call EXCEPT ![t] = d]
    BY <1>2, <1>5 DEF ReadClock, CallFields
  <2>2. Quiet(c, d)
    BY <1>2 DEF Quiet, CallFields
  <2> HIDE DEF d
  <2> QED
    BY <1>1, <1>2, <2>1, <2>2, QuietStep
<1>6. CASE Increment(t)
  <2> DEFINE reply == IF Alive /\ counter'.count > Limit
                      THEN [Limited EXCEPT !.status = 429] ELSE Answer("result", 200)
  <2>1. /\ reply.named = {}
        /\ call' = [call EXCEPT ![t].pc = "done", ![t].reading = now, ![t].reply = reply]
    BY <1>6 DEF Increment, Limited, Answer
  <2> HIDE DEF reply
  <2> DEFINE d == [c EXCEPT !.pc = "done", !.reading = now, !.reply = reply]
  <2>2. call' = [call EXCEPT ![t] = d]
    BY <1>2, <2>1 DEF CallFields
  <2>3. Quiet(c, d)
    BY <1>2, <2>1 DEF Quiet, CallFields
  <2> HIDE DEF d
  <2> QED
    BY <1>1, <1>2, <2>2, <2>3, QuietStep
<1> QED
  BY <1>3, <1>4, <1>5, <1>6

LEMMA ArriveIsQuiet ==
    ASSUME HInv, IInv', NEW t \in Threads, NEW req \in Requests[conf.requests], Arrive(t, req)
    PROVE  HInv'
<1>1. DOMAIN req = RequestFields
  BY RequestsAssumption, ConfigurationsAssumption DEF HInv, IInv
<1>2. t \in DOMAIN call /\ conf' = conf /\ registered' = registered /\ Carved \subseteq registered
  BY DEF Arrive, HInv, IInv, Carved
<1>3. PICK pc \in {"add", "agent", "immediate"} : Begun(t, req, pc)
  BY DEF Arrive
<1> DEFINE d == [pc |-> pc, req |-> req, view |-> Carved, known |-> FALSE, reading |-> 0, ran |-> FALSE,
                 wrote |-> FALSE, result |-> None, log |-> <<>>, reply |-> NoAnswer]
<1>4. call' = [call EXCEPT ![t] = d]
  BY <1>3 DEF Begun
<1>5. d.req = req /\ d.view = Carved /\ d.pc \notin {"run", "shape", "done"}
  OBVIOUS
<1> HIDE DEF d
<1>6. /\ call'[t] = d /\ \A u \in Threads \ {t} : call'[u] = call[u]
      /\ NameInv(call'[t])
  BY <1>1, <1>2, <1>4, <1>5 DEF NameInv
<1> QED
  BY <1>2, <1>6, OneNamed

LEMMA LeaveIsQuiet == ASSUME HInv, IInv', NEW t \in Threads, Leave(t) PROVE HInv'
<1>1. t \in DOMAIN call /\ conf' = conf /\ registered' = registered
  BY DEF Leave, HInv, IInv
<1>2. call'[t] = Idle /\ \A u \in Threads \ {t} : call'[u] = call[u]
  BY <1>1 DEF Leave
<1>3. NameInv(call'[t])
  BY <1>2 DEF NameInv
<1> QED
  BY <1>1, <1>2, <1>3, OneNamed

\* Whatever is named when a call ends may be.
LEMMA NamedEnd ==
    ASSUME HInv, IInv', NEW t \in Threads, call[t].pc # "idle", conf' = conf, registered' = registered,
           NEW d, call' = [call EXCEPT ![t] = d], d.req = call[t].req, d.view = call[t].view,
           d.pc = "done", \A n \in d.reply.named : May(call[t], n)
    PROVE  HInv'
<1>1. call'[t] = d /\ \A u \in Threads \ {t} : call'[u] = call[u]
  BY Fields
<1>2. \A n \in d.reply.named : May(d, n)
  BY DEF May, Absent, Visible
<1>3. NameInv(call'[t])
  BY <1>1, <1>2, Fields DEF NameInv
<1> QED
  BY <1>1, <1>3, OneNamed

\* What is run, or explained, was visible.
LEMMA NamedOn ==
    ASSUME HInv, IInv', NEW t \in Threads, call[t].pc # "idle", conf' = conf, registered' = registered,
           NEW d, call' = [call EXCEPT ![t] = d], d.req = call[t].req, d.view = call[t].view,
           d.pc \in {"run", "shape"}, call[t].req.name \in Visible(call[t])
    PROVE  HInv'
<1>1. call'[t] = d /\ \A u \in Threads \ {t} : call'[u] = call[u]
  BY Fields
<1>2. NameInv(call'[t])
  BY <1>1, Fields DEF NameInv, Visible
<1> QED
  BY <1>1, <1>2, OneNamed

LEMMA CountNames == ASSUME HInv, IInv', NEW t \in Threads, Count(t) PROVE HInv'
<1> DEFINE c == call[t]
<1>1. c.pc # "idle" /\ conf' = conf /\ registered' = registered
  BY DEF Count
<1>2. t \in DOMAIN call /\ DOMAIN c = CallFields /\ c.view \subseteq registered
  BY <1>1, Fields
<1>3. CASE Goto(t, "dispatch")
  BY <1>1, <1>3, QuietGoto
<1>4. CASE Audited(t, "deny", Throttled(c))
  <2> DEFINE reply == Throttled(c)
             d == [c EXCEPT !.pc = "done", !.reply = reply, !.log = Append(@, "deny")]
  <2>1. call' = [call EXCEPT ![t] = d]
    BY <1>2, <1>4 DEF Audited, CallFields
  <2>2. reply.named = Echoed(c, "permission")
    BY DEF Throttled, Limited, Answer
  <2>3. \A n \in reply.named : May(c, n)
    BY <1>2, <2>2, EchoedMay DEF HInv
  <2> HIDE DEF reply
  <2>4. d.req = c.req /\ d.view = c.view /\ d.pc = "done" /\ d.reply = reply
    BY <1>2 DEF CallFields
  <2> HIDE DEF d
  <2> QED
    BY <1>1, <2>1, <2>3, <2>4, NamedEnd
<1> QED
  BY <1>3, <1>4 DEF Count

LEMMA FailNames == ASSUME HInv, IInv', NEW t \in Threads, Fail(t) PROVE HInv'
<1> DEFINE c == call[t]
<1>1. c.pc # "idle" /\ conf' = conf /\ registered' = registered
  BY DEF Fail
<1>2. t \in DOMAIN call /\ DOMAIN c = CallFields /\ c.view \subseteq registered
  BY <1>1, Fields
<1>3. PICK f : call' = [call EXCEPT ![t].pc = "done", ![t].reply = Broken(c, f.status),
                                    ![t].log = Append(@, f.decision), ![t].ran = TRUE,
                                    ![t].wrote = f.committed /\ Tool[Target(c)].write]
  BY DEF Fail
<1> DEFINE reply == Broken(c, f.status)
           d == [c EXCEPT !.pc = "done", !.reply = reply, !.log = Append(@, f.decision),
                          !.ran = TRUE, !.wrote = f.committed /\ Tool[Target(c)].write]
<1>4. call' = [call EXCEPT ![t] = d]
  BY <1>2, <1>3 DEF CallFields
<1>5. reply.named = Echoed(c, "fault")
  BY DEF Broken, Answer
<1>6. \A n \in reply.named : May(c, n)
  BY <1>2, <1>5, EchoedMay DEF HInv
<1> HIDE DEF reply
<1>7. d.req = c.req /\ d.view = c.view /\ d.pc = "done" /\ d.reply = reply
  BY <1>2 DEF CallFields
<1> HIDE DEF d
<1> QED
  BY <1>1, <1>4, <1>6, <1>7, NamedEnd

LEMMA DispatchNames == ASSUME HInv, IInv', NEW t \in Threads, Dispatch(t) PROVE HInv'
<1> DEFINE c == call[t]
           verdict == Verdict(c)
<1>1. c.pc # "idle" /\ conf' = conf /\ registered' = registered
  BY DEF Dispatch
<1>2. t \in DOMAIN call /\ DOMAIN c = CallFields /\ c.view \subseteq registered
  BY <1>1, Fields
<1>3. CASE verdict = "run" /\ Goto(t, "run")
  <2> DEFINE d == [c EXCEPT !.pc = "run"]
  <2>1. call' = [call EXCEPT ![t] = d]
    BY <1>2, <1>3 DEF Goto, CallFields
  <2>2. d.req = c.req /\ d.view = c.view /\ d.pc = "run"
    BY <1>2 DEF CallFields
  <2>3. c.req.name \in Visible(c)
    BY <1>3 DEF Verdict
  <2> HIDE DEF d
  <2> QED
    BY <1>1, <2>1, <2>2, <2>3, NamedOn
<1>4. CASE verdict = "help"
  <2>1. PICK large :
            call' = [call EXCEPT ![t].result = [shape |-> "help", id |-> FALSE, large |-> large],
                                 ![t].log = Append(@, "allow"), ![t].pc = "shape"]
    BY <1>4 DEF Dispatch
  <2> DEFINE d == [c EXCEPT !.result = [shape |-> "help", id |-> FALSE, large |-> large],
                            !.log = Append(@, "allow"), !.pc = "shape"]
  <2>2. call' = [call EXCEPT ![t] = d]
    BY <1>2, <2>1 DEF CallFields
  <2>3. d.req = c.req /\ d.view = c.view /\ d.pc = "shape"
    BY <1>2 DEF CallFields
  <2>4. c.req.name \in Visible(c)
    BY <1>4 DEF Verdict
  <2> HIDE DEF d
  <2> QED
    BY <1>1, <2>2, <2>3, <2>4, NamedOn
<1>5. CASE verdict \notin {"run", "help"}
  <2> DEFINE reply == [Refusal(verdict) EXCEPT !.named = Hints(c, verdict)]
             d == [c EXCEPT !.pc = "done", !.reply = reply, !.log = Append(@, Decision(verdict))]
  <2>1. Audited(t, Decision(verdict), reply)
    BY <1>5 DEF Dispatch
  <2>2. call' = [call EXCEPT ![t] = d]
    BY <1>2, <2>1 DEF Audited, CallFields
  <2>3. verdict \in {"absent", "unknown", "permission", "input", "value"}
    BY <1>5, VerdictIsOne
  <2>4. DOMAIN Refusal(verdict) = ReplyFields
    BY <2>3, RefusalKind
  <2>5. reply.named = Hints(c, Verdict(c))
    BY <2>4 DEF ReplyFields
  <2>6. \A n \in reply.named : May(c, n)
    BY <1>2, <2>5, HintsMay DEF HInv
  <2> HIDE DEF reply
  <2>7. d.req = c.req /\ d.view = c.view /\ d.pc = "done" /\ d.reply = reply
    BY <1>2 DEF CallFields
  <2> HIDE DEF d
  <2> QED
    BY <1>1, <2>2, <2>6, <2>7, NamedEnd
<1> QED
  BY <1>3, <1>4, <1>5 DEF Dispatch

LEMMA SucceedNames == ASSUME HInv, IInv', NEW t \in Threads, Succeed(t) PROVE HInv'
<1> DEFINE c == call[t]
           n == Target(c)
<1>1. c.pc = "run" /\ conf' = conf /\ registered' = registered
  BY DEF Succeed
<1>2. t \in DOMAIN call /\ DOMAIN c = CallFields /\ c.req.name \in Visible(c)
  BY <1>1, Fields
<1>3. PICK r : call' = [call EXCEPT ![t].pc = "shape", ![t].result = r, ![t].log = Append(@, "allow"),
                                    ![t].ran = TRUE, ![t].wrote = Tool[n].write]
  BY DEF Succeed
<1> DEFINE d == [c EXCEPT !.pc = "shape", !.result = r, !.log = Append(@, "allow"),
                          !.ran = TRUE, !.wrote = Tool[n].write]
<1>4. call' = [call EXCEPT ![t] = d]
  BY <1>2, <1>3 DEF CallFields
<1>5. d.req = c.req /\ d.view = c.view /\ d.pc = "shape"
  BY <1>2 DEF CallFields
<1> HIDE DEF d
<1> QED
  BY <1>1, <1>2, <1>4, <1>5, NamedOn

LEMMA ShapedFields == ASSUME NEW c PROVE DOMAIN Shaped(c) = ReplyFields
<1>1. \A kind, status : DOMAIN Answer(kind, status) = ReplyFields
  BY DEF Answer, ReplyFields
<1>2. \A body : DOMAIN Give(body) = ReplyFields
  BY DEF Give, Answer, ReplyFields
<1>3. \A body, tool, action : DOMAIN Mint(body, tool, action) = ReplyFields
  BY DEF Mint, Give, Answer, ReplyFields
<1>4. DOMAIN LeanFlat(c) = ReplyFields
  BY <1>2, <1>3 DEF LeanFlat
<1>5. \A m : DOMAIN LeanMember(c, m) = ReplyFields
  BY <1>2, <1>3 DEF LeanMember
<1>6. DOMAIN Negotiated(c) = ReplyFields
  BY <1>2, <1>3 DEF Negotiated
<1> QED
  BY <1>1, <1>4, <1>5, <1>6 DEF Shaped

LEMMA ShapeNames == ASSUME HInv, IInv', NEW t \in Threads, Shape(t) PROVE HInv'
<1> DEFINE c == call[t]
           named == IF c.result.shape = "help" THEN Disclosed(c, c.req.name) ELSE {}
           reply == [Shaped(c) EXCEPT !.named = named]
           d == [c EXCEPT !.pc = "done", !.reply = reply]
<1>1. c.pc = "shape" /\ conf' = conf /\ registered' = registered /\ Done(t, reply)
  BY DEF Shape
<1>2. /\ t \in DOMAIN call /\ DOMAIN c = CallFields /\ c.view \subseteq registered
      /\ c.req.name \in Visible(c)
  BY <1>1, Fields
<1>3. call' = [call EXCEPT ![t] = d]
  BY <1>1, <1>2 DEF Done, CallFields
<1>4. reply.named = named
  BY ShapedFields DEF ReplyFields
<1>5. \A n \in named : May(c, n)
  BY <1>2, DisclosedMay DEF HInv
<1> HIDE DEF reply
<1>6. d.req = c.req /\ d.view = c.view /\ d.pc = "done" /\ d.reply = reply
  BY <1>2 DEF CallFields
<1> HIDE DEF d, named
<1> QED
  BY <1>1, <1>3, <1>4, <1>5, <1>6, NamedEnd

LEMMA AnswerAtOnceNames == ASSUME HInv, IInv', NEW t \in Threads, AnswerAtOnce(t) PROVE HInv'
<1> DEFINE c == call[t]
           reply == Immediate(c)
           d == [c EXCEPT !.pc = "done", !.reply = reply]
<1>1. c.pc = "immediate" /\ conf' = conf /\ registered' = registered /\ Done(t, reply)
  BY DEF AnswerAtOnce
<1>2. t \in DOMAIN call /\ DOMAIN c = CallFields /\ c.view \subseteq registered
  BY <1>1, Fields
<1>3. call' = [call EXCEPT ![t] = d]
  BY <1>1, <1>2 DEF Done, CallFields
<1>4. reply.named = {} \/ \E tools : reply.named = Listing(c, tools)
  BY DEF Immediate, Answer
<1>5. \A n \in reply.named : May(c, n)
  BY <1>2, <1>4, ListingMay DEF HInv
<1> HIDE DEF reply
<1>6. d.req = c.req /\ d.view = c.view /\ d.pc = "done" /\ d.reply = reply
  BY <1>2 DEF CallFields
<1> HIDE DEF d
<1> QED
  BY <1>1, <1>3, <1>5, <1>6, NamedEnd

LEMMA InitNames == Init => HInv
<1> SUFFICES ASSUME Init PROVE HInv
  OBVIOUS
<1>1. registered = conf.early /\ \A t \in Threads : call[t] = Idle
  BY DEF Init
<1> QED
  BY <1>1, InitInv DEF HInv, NameInv

LEMMA StepNames == HInv /\ [Next]_vars => HInv'
<1> SUFFICES ASSUME HInv, [Next]_vars PROVE HInv'
  OBVIOUS
<1>1. IInv'
  BY StepKeeps DEF HInv
<1>2. ASSUME NEW t \in Threads, NEW req \in Requests[conf.requests], Arrive(t, req) PROVE HInv'
  BY <1>1, <1>2, ArriveIsQuiet
<1>3. ASSUME NEW t \in Threads, Step(t) PROVE HInv'
  BY <1>1, <1>3, QuietActions, LeaveIsQuiet, CountNames, DispatchNames, FailNames,
     SucceedNames, ShapeNames, AnswerAtOnceNames DEF Step
<1>4. ASSUME NEW n \in Names, Register(n) PROVE HInv'
  <2>1. conf' = conf /\ call' = call /\ registered' = registered \cup {n} /\ n \in conf.late
    BY <1>4 DEF Register
  <2>2. \A t \in Threads : NameInv(call[t])'
    BY <2>1, NamesStay DEF HInv
  <2> QED
    BY <1>1, <2>1, <2>2 DEF HInv
<1>5. CASE UNCHANGED <<conf, registered, call>>
  <2>1. \A t \in Threads : NameInv(call[t])'
    BY <1>5, NamesStay DEF HInv
  <2> QED
    BY <1>1, <1>5, <2>1 DEF HInv
<1> QED
  BY <1>2, <1>3, <1>4, <1>5 DEF Next, vars

\* A call aimed at what the caller may not know of ends as one for an invented name, with the
\* same suggestions and, on a route, the same schema; and no answer names such a thing
\* (dispatch, make_group_invoke, make_dispatcher_invoke, _request_visible_entry).  With lite
\* alone it is otherwise: the schema of a class dispatcher names all its actions, and at the
\* plain gateway a call is shown the schema of the very tool it named.
THEOREM HiddenToolsAreAbsent == Spec => []HiddenIsAbsent
<1>1. HInv => HiddenIsAbsent
  <2> SUFFICES ASSUME HInv, NEW t \in Threads
               PROVE  LET c == call[t] IN
                      /\ c.pc = "dispatch" /\ Aimed(c) \in Names /\ Absent(c, Aimed(c)) =>
                             NoTelling(c, Elsewhere(c))
                      /\ Over(c) => \A n \in c.reply.named : May(c, n)
    BY DEF HiddenIsAbsent, NoTelling, May
  <2> DEFINE c == call[t]
  <2>1. ASSUME c.pc = "dispatch", Aimed(c) \in Names, Absent(c, Aimed(c))
        PROVE  NoTelling(c, Elsewhere(c))
    <3>1. /\ DOMAIN c = CallFields /\ DOMAIN c.req = RequestFields /\ c.view \subseteq registered
          /\ c.view \subseteq Standing
      BY <2>1, Fields DEF HInv, IInv
    <3>2. CASE Aimed(c) = c.req.name
      BY <2>1, <3>1, <3>2, NameIsAbsent DEF HInv
    <3>3. CASE Aimed(c) # c.req.name
      BY <2>1, <3>1, <3>3, MemberIsAbsent DEF HInv
    <3> QED
      BY <3>2, <3>3
  <2>2. ASSUME Over(c) PROVE \A n \in c.reply.named : May(c, n)
    BY <2>2 DEF HInv, NameInv, Over, Idle
  <2> QED
    BY <2>1, <2>2
<1> QED
  BY <1>1, InitNames, StepNames, PTL DEF Spec

-----------------------------------------------------------------------------
(* What a write returned. *)

\* What dispatch has settled of a call that it runs.
RunsOn(c) ==
    LET n == c.req.name
        m == Target(c)
    IN
    /\ n \in Visible(c) /\ n \in Standing
    /\ m \in Names /\ Reaches(m)
    /\ Tool[n].kind = "flat" => m = n
    /\ Tool[n].kind = "group" =>
           c.req.resource /\ m = Asked(c) /\ m \in Members(c, n) /\ m \in registered /\ Holds(m)
    /\ Tool[n].kind = "class" => m = Asked(c) /\ m \in Tool[n].members

\* An answer that the caller can go on with.
Kept(c) ==
    \/ c.reply.body \in {"whole", "deleted"}
    \/ /\ c.reply.body = "ids"
       /\ LET r == Tool[c.req.name].retrieve IN
          r \in Visible(c) /\ Tool[r].kind = "flat" /\ Tool[r].admits /\ Reaches(r)
    \/ c.reply.bound # None /\ Redeems(c)

WriteInv(c) ==
    c # Idle =>
        /\ c.pc \notin {"run", "shape", "done"} \/ c.req.method = "token" => ~c.wrote
        /\ c.pc = "run" => RunsOn(c) /\ ~c.wrote
        /\ c.pc = "shape" /\ c.wrote =>
               /\ RunsOn(c) /\ Tool[Target(c)].write
               /\ c.result.shape \notin {"unserializable", "help"}
        /\ c.pc = "done" /\ c.wrote =>
               /\ c.reply.kind = "crash" => conf.store = "down"
               /\ c.reply.kind = "result" /\ Promised(c) => Kept(c)

WInv == HInv /\ \A t \in Threads : WriteInv(call[t])

LEMMA WritesStay ==
    ASSUME conf' = conf, registered \subseteq registered', NEW t \in Threads, WriteInv(call'[t])
    PROVE  WriteInv(call[t])'
<1> DEFINE c == call'[t]
<1>1. Visible(c) \subseteq Visible(call[t])' /\ \A n : Members(c, n) = Members(call[t], n)'
  BY DEF Visible, Members
<1> QED
  BY <1>1 DEF WriteInv, RunsOn, Kept, Promised, Redeems, Target, Asked, Spelled, Standing, Idle,
     Reaches, Stamped, Holds

\* The same answer, and what it is about.
Answered(c, d) ==
    /\ d.req = c.req /\ d.view = c.view
    /\ d.reply.kind = Shaped(c).kind /\ d.reply.body = Shaped(c).body
    /\ d.reply.bound = Shaped(c).bound /\ d.reply.action = Shaped(c).action

\* An answer is whole, or it holds a token for this tool and this action.
Minted(reply, tool, action) ==
    \/ reply.kind = "crash" /\ conf.store = "down"
    \/ reply.kind = "result" /\ reply.bound = tool /\ reply.action = action

Complete(reply) == reply.kind = "result" /\ reply.body \in {"whole", "deleted"}

LEMMA Mints ==
    ASSUME NEW body, NEW tool, NEW action
    PROVE  Minted(Mint(body, tool, action), tool, action)
  BY DEF Mint, Minted, Give, Answer

LEMMA Gives == Complete(Give("whole")) /\ Complete(Give("deleted"))
  BY DEF Complete, Give, Answer

LEMMA LeanFlatIs ==
    ASSUME NEW c
    PROVE  \/ Complete(LeanFlat(c))
           \/ Minted(LeanFlat(c), c.req.name, None)
           \/ LeanFlat(c).kind = "result" /\ LeanFlat(c).body = "ids" /\ RetrieveVisible(c)
<1>1. Give("ids").kind = "result" /\ Give("ids").body = "ids"
  BY DEF Give, Answer
<1> QED
  BY <1>1, Mints, Gives DEF LeanFlat

LEMMA LeanMemberIs ==
    ASSUME NEW c, NEW m
    PROVE  Complete(LeanMember(c, m)) \/ Minted(LeanMember(c, m), m, None)
  BY Mints, Gives DEF LeanMember

LEMMA NegotiatedIs ==
    ASSUME NEW c
    PROVE  LET n == c.req.name
               target == IF Tool[n].kind = "flat" THEN {n} ELSE Addressed(c)
               action == IF Tool[n].kind = "class" THEN Spelled(c) ELSE None
           IN  \/ Complete(Negotiated(c))
               \/ target = {} /\ Minted(Negotiated(c), n, action)
               \/ \E m \in target : \E a \in {None, action} : Minted(Negotiated(c), m, a)
<1> DEFINE n == c.req.name
           target == IF Tool[n].kind = "flat" THEN {n} ELSE Addressed(c)
           action == IF Tool[n].kind = "class" THEN Spelled(c) ELSE None
           bound == IF target = {} THEN n ELSE CHOOSE m \in target : TRUE
<1>1. (target # {} => bound \in target) /\ (target = {} => bound = n)
  OBVIOUS
<1>2. \/ Negotiated(c) = Give("whole")
      \/ Negotiated(c) = Mint("probe", bound, action)
      \/ Negotiated(c) = Mint("probe", bound, None) /\ target # {}
  BY DEF Negotiated
<1>3. \/ Complete(Negotiated(c))
      \/ Minted(Negotiated(c), bound, action)
      \/ Minted(Negotiated(c), bound, None) /\ target # {}
  BY <1>2, Mints, Gives
<1> HIDE DEF bound
<1> QED
  BY <1>1, <1>3

\* A token for what was run may be redeemed by whoever ran it.
LEMMA TokenIsKept ==
    ASSUME HInv, NEW c, NEW d, c.view \subseteq registered, RunsOn(c), Answered(c, d),
           NEW tool, NEW action, Minted(Shaped(c), tool, action),
           \/ tool = Target(c) /\ Tool[c.req.name].kind # "class" /\ action = None
           \/ tool = c.req.name /\ Tool[c.req.name].kind = "class" /\ action \in {None, Spelled(c)}
           \/ tool = c.req.name /\ Tool[c.req.name].kind = "group" /\ action = None /\ ~conf.limited
    PROVE  /\ d.reply.kind = "crash" => conf.store = "down"
           /\ d.reply.kind = "result" /\ Promised(d) => Kept(d)
<1> DEFINE n == c.req.name
           m == Target(c)
<1>1. d.reply.kind = "crash" => conf.store = "down"
  BY DEF Minted, Answered
<1>2. ASSUME d.reply.kind = "result", Promised(d) PROVE Kept(d)
  <2>1. d.reply.bound = tool /\ d.reply.action = action
    BY <1>2 DEF Minted, Answered
  <2>2. /\ n \in Visible(c) /\ n \in Names /\ n \in registered /\ m \in Names /\ Reaches(m)
        /\ Tool[n].kind \in {"flat", "group", "class"}
    BY ToolAssumption DEF RunsOn, Visible, Standing, HInv, IInv
  <2>3. Visible(d) = Visible(c) /\ Members(d, n) = Members(c, n) /\ d.req = c.req /\ Target(d) = m
    BY DEF Answered, Visible, Members, Target, Asked, Spelled
  <2>4. Holds(m)
    BY <1>2, <2>3 DEF Promised, Holds
  <2>5. tool # None
    BY <2>2, ToolAssumption
  <2>6. CASE tool = m /\ Tool[n].kind # "class" /\ action = None
    <3>1. m \in registered /\ (m = n \/ (Tool[n].kind = "group" /\ m \in Members(c, n)))
      BY <2>2, <2>6 DEF RunsOn
    <3> QED
      BY <2>1, <2>2, <2>3, <2>4, <2>5, <2>6, <3>1 DEF Kept, Redeems
  <2>7. CASE tool = n /\ Tool[n].kind = "class" /\ action \in {None, Spelled(c)}
    <3>1. Reaches(n) /\ Holds(n)
      BY <2>2, <2>7, DispatchersAreReached DEF HInv, Holds
    <3>2. action # None => action = m /\ m \in Tool[n].members
      BY <2>7 DEF RunsOn, Asked, Spelled
    <3> QED
      BY <2>1, <2>2, <2>3, <2>4, <2>5, <2>7, <3>1, <3>2 DEF Kept, Redeems
  <2>8. CASE tool = n /\ Tool[n].kind = "group" /\ action = None /\ ~conf.limited
    <3>1. Reaches(n) /\ Holds(n)
      BY <2>2, <2>8, DispatchersAreReached DEF HInv, Holds
    <3> QED
      BY <2>1, <2>2, <2>3, <2>5, <2>8, <3>1 DEF Kept, Redeems
  <2> QED
    BY <2>6, <2>7, <2>8
<1> QED
  BY <1>1, <1>2

LEMMA CompleteIsKept ==
    ASSUME NEW c, NEW d, Answered(c, d), Complete(Shaped(c))
    PROVE  d.reply.kind = "result" /\ Kept(d)
  BY DEF Answered, Complete, Kept

LEMMA IdsAreKept ==
    ASSUME HInv, NEW c, NEW d, c.view \subseteq registered, RunsOn(c), Answered(c, d),
           Tool[c.req.name].kind = "flat",
           Shaped(c).kind = "result", Shaped(c).body = "ids", RetrieveVisible(c)
    PROVE  d.reply.kind = "result" /\ Kept(d)
<1> DEFINE n == c.req.name
           r == Tool[n].retrieve
<1>1. n \in Names /\ Reaches(n) /\ r \in Visible(c) /\ r \in Names
  BY DEF RunsOn, RetrieveVisible, Visible, Standing, HInv, IInv
<1>2. Tool[r].kind = "flat" /\ Tool[r].admits /\ Tool[r].tier <= Tool[n].tier
  BY <1>1, ToolAssumption
<1>3. Tool[r].tier \in Nat /\ Tool[n].tier \in Nat /\ Stamped \in Nat
  BY <1>1, ToolAssumption, ConfigurationsAssumption
     DEF HInv, IInv, Stamped, Lesser, Tiers, Uncapped
<1>4. Reaches(r)
  BY <1>1, <1>2, <1>3 DEF Reaches
<1> QED
  BY <1>1, <1>2, <1>4 DEF Kept, Answered, Visible

LEMMA ShapedIsKept ==
    ASSUME HInv, NEW c, NEW d, c.view \subseteq registered, RunsOn(c), Answered(c, d),
           Tool[Target(c)].write, c.result.shape \notin {"unserializable", "help"}
    PROVE  /\ d.reply.kind = "crash" => conf.store = "down"
           /\ d.reply.kind = "result" /\ Promised(d) => Kept(d)
<1> DEFINE n == c.req.name
           m == Target(c)
<1>1. n \in Names /\ Tool[n].kind \in {"flat", "group", "class"} /\ None \notin Names /\ m \in Names
  BY ToolAssumption DEF RunsOn, Standing
<1>2. \/ Shaped(c) = LeanFlat(c) /\ IsLean(n)
      \/ \E k \in Addressed(c) : Shaped(c) = LeanMember(c, k)
      \/ Shaped(c) = Negotiated(c)
  BY DEF Shaped
<1>3. CASE Tool[n].kind = "flat"
  <2>1. m = n /\ Addressed(c) = {}
    BY <1>3 DEF RunsOn, Addressed
  <2>2. \/ Complete(Shaped(c))
        \/ Minted(Shaped(c), n, None)
        \/ Shaped(c).kind = "result" /\ Shaped(c).body = "ids" /\ RetrieveVisible(c)
    BY <1>2, <1>3, <2>1, LeanFlatIs, NegotiatedIs
  <2> QED
    BY <1>3, <2>1, <2>2, CompleteIsKept, IdsAreKept, TokenIsKept
<1>4. CASE Tool[n].kind = "group"
  <2>1. ~IsLean(n)
    BY <1>1, <1>4, ToolAssumption DEF IsLean
  <2>2. Addressed(c) \subseteq {m}
    BY <1>1, <1>4, ToolAssumption DEF RunsOn, Addressed, Asked, Spelled
  <2>3. \/ Complete(Shaped(c))
        \/ Minted(Shaped(c), m, None)
        \/ Addressed(c) = {} /\ Minted(Shaped(c), n, None)
    BY <1>2, <1>4, <2>1, <2>2, LeanMemberIs, NegotiatedIs
  <2>4. Addressed(c) = {} /\ Promised(d) => ~conf.limited
    <3>1. SUFFICES ASSUME Promised(d), conf.limited PROVE m \in Addressed(c)
      BY <1>4
    <3>2. c.req.exact
      BY <3>1 DEF Promised, Answered
    <3>3. m = Spelled(c) /\ c.req.resource /\ m \in Tool[n].members
      BY <1>4, <3>2 DEF RunsOn, Asked, Spelled, Members
    <3> QED
      BY <1>4, <3>3 DEF Addressed
  <2>5. CASE Addressed(c) = {} /\ Minted(Shaped(c), n, None) /\ conf.limited
    BY <2>4, <2>5 DEF Minted, Answered
  <2> QED
    BY <1>4, <2>3, <2>5, CompleteIsKept, TokenIsKept
<1>5. CASE Tool[n].kind = "class"
  <2>1. ~IsLean(n) /\ Addressed(c) = {}
    BY <1>1, <1>5, ToolAssumption DEF IsLean, Addressed
  <2>2. \/ Complete(Shaped(c))
        \/ Minted(Shaped(c), n, Spelled(c))
    BY <1>2, <1>5, <2>1, NegotiatedIs
  <2> QED
    BY <1>5, <2>2, CompleteIsKept, TokenIsKept
<1> QED
  BY <1>1, <1>3, <1>4, <1>5

-----------------------------------------------------------------------------
(* The same, step by step. *)

LEMMA OneWritten ==
    ASSUME WInv, HInv', NEW t \in Threads, t \in DOMAIN call, conf' = conf, registered' = registered,
           NEW d, call' = [call EXCEPT ![t] = d], WriteInv(d)
    PROVE  WInv'
<1>1. \A u \in Threads : WriteInv(call'[u])
  BY DEF WInv
<1>2. \A u \in Threads : WriteInv(call[u])'
  BY <1>1, WritesStay
<1> QED
  BY <1>2 DEF WInv

LEMMA Begins ==
    ASSUME WInv, NEW t \in Threads, call[t].pc # "idle"
    PROVE  /\ t \in DOMAIN call /\ call[t] # Idle /\ DOMAIN call[t] = CallFields
           /\ call[t].view \subseteq registered /\ call[t].view \subseteq Standing
           /\ call[t].pc \notin {"shape", "done"} => ~call[t].wrote
           /\ call[t].pc = "run" => RunsOn(call[t])
  BY Fields DEF WInv, HInv, IInv, WriteInv

LEMMA UnwrittenGoto ==
    ASSUME WInv, HInv', NEW t \in Threads, call[t].pc \notin {"idle", "shape", "done"},
           conf' = conf, registered' = registered,
           NEW pc, Goto(t, pc), pc \notin {"run", "shape", "done"}
    PROVE  WInv'
<1> DEFINE d == [call[t] EXCEPT !.pc = pc]
<1>1. call' = [call EXCEPT ![t] = d]
  BY Begins DEF Goto
<1>2. WriteInv(d)
  BY Begins DEF WriteInv, CallFields
<1> HIDE DEF d
<1> QED
  BY <1>1, <1>2, OneWritten, Begins

LEMMA UnwrittenEnd ==
    ASSUME WInv, HInv', NEW t \in Threads, call[t].pc \notin {"idle", "shape", "done"},
           conf' = conf, registered' = registered,
           NEW decision, NEW reply, Audited(t, decision, reply)
    PROVE  WInv'
<1> DEFINE d == [call[t] EXCEPT !.pc = "done", !.reply = reply, !.log = Append(@, decision)]
<1>1. call' = [call EXCEPT ![t] = d]
  BY Begins DEF Audited, CallFields
<1>2. WriteInv(d)
  BY Begins DEF WriteInv, CallFields
<1> HIDE DEF d
<1> QED
  BY <1>1, <1>2, OneWritten, Begins

LEMMA UnwrittenActions ==
    ASSUME WInv, HInv', NEW t \in Threads,
           \/ Gate(t) \/ Redeem(t) \/ ReadEntry(t) \/ ReadClock(t) \/ Count(t) \/ AnswerAtOnce(t)
           \/ Add(t) \/ Increment(t)
    PROVE  WInv'
<1> DEFINE c == call[t]
<1>1. call[t].pc \notin {"idle", "shape", "done"} /\ conf' = conf /\ registered' = registered
  BY DEF Gate, Redeem, ReadEntry, ReadClock, Count, AnswerAtOnce, Add, Increment
<1>2. t \in DOMAIN call /\ c # Idle /\ DOMAIN c = CallFields /\ ~c.wrote
  BY <1>1, Begins
<1>3. CASE Gate(t) \/ Redeem(t) \/ Count(t) \/ Add(t)
  <2>1. \/ \E pc : Goto(t, pc) /\ pc \notin {"run", "shape", "done"}
        \/ \E decision, reply : Audited(t, decision, reply)
    BY <1>3 DEF Gate, Redeem, Count, Add
  <2> QED
    BY <1>1, <2>1, UnwrittenGoto, UnwrittenEnd
<1>4. CASE ReadEntry(t)
  <2> DEFINE d == [c EXCEPT !.known = c.req.name \in registered,
                            !.pc = IF conf.limiter THEN "clock" ELSE "dispatch"]
  <2>1. call' = [call EXCEPT ![t] = d]
    BY <1>2, <1>4 DEF ReadEntry, CallFields
  <2>2. WriteInv(d)
    BY <1>2 DEF WriteInv, CallFields
  <2> HIDE DEF d
  <2> QED
    BY <1>1, <1>2, <2>1, <2>2, OneWritten
<1>5. CASE ReadClock(t)
  <2> DEFINE d == [c EXCEPT !.reading = now, !.pc = "count"]
  <2>1. call' = [call EXCEPT ![t] = d]
    BY <1>2, <1>5 DEF ReadClock, CallFields
  <2>2. WriteInv(d)
    BY <1>2 DEF WriteInv, CallFields
  <2> HIDE DEF d
  <2> QED
    BY <1>1, <1>2, <2>1, <2>2, OneWritten
<1>6. CASE AnswerAtOnce(t)
  <2> DEFINE d == [c EXCEPT !.pc = "done", !.reply = Immediate(c)]
  <2>1. call' = [call EXCEPT ![t] = d]
    BY <1>2, <1>6 DEF AnswerAtOnce, Done, CallFields
  <2>2. WriteInv(d)
    BY <1>2 DEF WriteInv, CallFields
  <2> HIDE DEF d
  <2> QED
    BY <1>1, <1>2, <2>1, <2>2, OneWritten
<1>7. CASE Increment(t)
  <2>1. PICK reply : call' = [call EXCEPT ![t].pc = "done", ![t].reading = now, ![t].reply = reply]
    BY <1>7 DEF Increment
  <2> DEFINE d == [c EXCEPT !.pc = "done", !.reading = now, !.reply = reply]
  <2>2. call' = [call EXCEPT ![t] = d]
    BY <1>2, <2>1 DEF CallFields
  <2>3. WriteInv(d)
    BY <1>2 DEF WriteInv, CallFields
  <2> HIDE DEF d
  <2> QED
    BY <1>1, <1>2, <2>2, <2>3, OneWritten
<1> QED
  BY <1>3, <1>4, <1>5, <1>6, <1>7

LEMMA ArriveWrites == ASSUME WInv, HInv', NEW t \in Threads, NEW req, Arrive(t, req) PROVE WInv'
<1>1. t \in DOMAIN call /\ conf' = conf /\ registered' = registered
  BY DEF Arrive, WInv, HInv, IInv
<1>2. PICK pc \in {"add", "agent", "immediate"} : Begun(t, req, pc)
  BY DEF Arrive
<1> DEFINE d == [pc |-> pc, req |-> req, view |-> Carved, known |-> FALSE, reading |-> 0, ran |-> FALSE,
                 wrote |-> FALSE, result |-> None, log |-> <<>>, reply |-> NoAnswer]
<1>3. call' = [call EXCEPT ![t] = d]
  BY <1>2 DEF Begun
<1>4. WriteInv(d)
  BY DEF WriteInv
<1> HIDE DEF d
<1> QED
  BY <1>1, <1>3, <1>4, OneWritten

LEMMA LeaveWrites == ASSUME WInv, HInv', NEW t \in Threads, Leave(t) PROVE WInv'
<1>1. /\ t \in DOMAIN call /\ conf' = conf /\ registered' = registered
      /\ call' = [call EXCEPT ![t] = Idle] /\ WriteInv(Idle)
  BY DEF Leave, WInv, HInv, IInv, WriteInv
<1> QED
  BY <1>1, OneWritten

\* What the verdict "run" settles.
LEMMA RunSettles ==
    ASSUME HInv, NEW c, c.view \subseteq registered, c.view \subseteq Standing, Verdict(c) = "run"
    PROVE  RunsOn(c)
<1> DEFINE n == c.req.name
           m == Target(c)
<1>1. n \in Visible(c) /\ n \in Standing /\ n \in registered
  BY DEF Verdict, Visible, HInv, IInv
<1>2. m \in Names
  BY RunsATool DEF HInv, IInv
<1>3. Tool[n].kind \in {"flat", "group", "class"}
  BY <1>1, ToolAssumption DEF Standing
<1>4. CASE Tool[n].kind = "flat"
  <2>1. FlatVerdict(n, c.req.valid) = "run" /\ m = n
    BY <1>1, <1>4 DEF Verdict, Target
  <2>2. Reaches(n)
    BY <2>1 DEF FlatVerdict
  <2> QED
    BY <1>1, <1>2, <1>4, <2>1, <2>2 DEF RunsOn
<1>5. CASE Tool[n].kind = "group"
  <2>1. GroupVerdict(c, n) = "run" /\ m = Asked(c)
    BY <1>1, <1>5 DEF Verdict, Target
  <2>2. /\ c.req.resource /\ m \in Members(c, n) /\ Holds(m)
        /\ FlatVerdict(m, c.req.valid) = "run"
    BY <2>1 DEF GroupVerdict
  <2>3. Reaches(m) /\ m \in registered
    BY <2>2 DEF FlatVerdict
  <2> QED
    BY <1>1, <1>2, <1>5, <2>1, <2>2, <2>3 DEF RunsOn
<1>6. CASE Tool[n].kind = "class"
  <2>1. ClassVerdict(c, n) = "run" /\ m = Asked(c)
    BY <1>1, <1>6 DEF Verdict, Target
  <2>2. m \in Tool[n].members
    BY <2>1 DEF ClassVerdict
  <2>3. Reaches(m)
    BY <2>1 DEF ClassVerdict
  <2> QED
    BY <1>1, <1>2, <1>6, <2>1, <2>2, <2>3 DEF RunsOn
<1> QED
  BY <1>3, <1>4, <1>5, <1>6

LEMMA DispatchWrites == ASSUME WInv, HInv', NEW t \in Threads, Dispatch(t) PROVE WInv'
<1> DEFINE c == call[t]
           verdict == Verdict(c)
<1>1. c.pc \notin {"idle", "shape", "done"} /\ conf' = conf /\ registered' = registered
  BY DEF Dispatch
<1>2. /\ t \in DOMAIN call /\ DOMAIN c = CallFields /\ c.view \subseteq registered
      /\ c.view \subseteq Standing /\ ~c.wrote
  BY <1>1, Begins
<1>3. CASE verdict = "run" /\ Goto(t, "run")
  <2> DEFINE d == [c EXCEPT !.pc = "run"]
  <2>1. call' = [call EXCEPT ![t] = d]
    BY <1>2, <1>3 DEF Goto, CallFields
  <2>2. RunsOn(c)
    BY <1>2, <1>3, RunSettles DEF WInv
  <2>3. d.req = c.req /\ d.view = c.view /\ d.pc = "run" /\ ~d.wrote
    BY <1>2 DEF CallFields
  <2> HIDE DEF d
  <2>4. RunsOn(d)
    BY <2>2, <2>3 DEF RunsOn, Target, Asked, Spelled, Visible, Members
  <2>5. WriteInv(d)
    BY <2>3, <2>4 DEF WriteInv
  <2> QED
    BY <1>1, <1>2, <2>1, <2>5, OneWritten
<1>4. CASE verdict = "help"
  <2>1. PICK large :
            call' = [call EXCEPT ![t].result = [shape |-> "help", id |-> FALSE, large |-> large],
                                 ![t].log = Append(@, "allow"), ![t].pc = "shape"]
    BY <1>4 DEF Dispatch
  <2> DEFINE d == [c EXCEPT !.result = [shape |-> "help", id |-> FALSE, large |-> large],
                            !.log = Append(@, "allow"), !.pc = "shape"]
  <2>2. call' = [call EXCEPT ![t] = d]
    BY <1>2, <2>1 DEF CallFields
  <2>3. WriteInv(d)
    BY <1>2 DEF WriteInv, CallFields
  <2> HIDE DEF d
  <2> QED
    BY <1>1, <1>2, <2>2, <2>3, OneWritten
<1>5. CASE verdict \notin {"run", "help"}
  <2>1. \E decision, reply : Audited(t, decision, reply)
    BY <1>5 DEF Dispatch
  <2> QED
    BY <1>1, <2>1, UnwrittenEnd
<1> QED
  BY <1>3, <1>4, <1>5 DEF Dispatch

LEMMA FailWrites == ASSUME WInv, HInv', NEW t \in Threads, Fail(t) PROVE WInv'
<1> DEFINE c == call[t]
           n == Target(c)
<1>1. c.pc = "run" /\ conf' = conf /\ registered' = registered
  BY DEF Fail
<1>2. t \in DOMAIN call /\ DOMAIN c = CallFields
  BY <1>1, Begins
<1>3. PICK f : call' = [call EXCEPT ![t].pc = "done", ![t].reply = Broken(c, f.status),
                                    ![t].log = Append(@, f.decision), ![t].ran = TRUE,
                                    ![t].wrote = f.committed /\ Tool[n].write]
  BY DEF Fail
<1> DEFINE d == [c EXCEPT !.pc = "done", !.reply = Broken(c, f.status),
                          !.log = Append(@, f.decision), !.ran = TRUE,
                          !.wrote = f.committed /\ Tool[n].write]
<1>4. call' = [call EXCEPT ![t] = d]
  BY <1>2, <1>3 DEF CallFields
<1>5. d.pc = "done" /\ d.reply.kind = "error" /\ d.req.method # "token"
  BY <1>1, <1>2, IsUnderway DEF CallFields, Answer, Broken, Underway, WInv, HInv
<1> HIDE DEF d
<1>6. WriteInv(d)
  BY <1>5 DEF WriteInv
<1> QED
  BY <1>1, <1>2, <1>4, <1>6, OneWritten

LEMMA SucceedWrites == ASSUME WInv, HInv', NEW t \in Threads, Succeed(t) PROVE WInv'
<1> DEFINE c == call[t]
           n == Target(c)
<1>1. c.pc = "run" /\ conf' = conf /\ registered' = registered
  BY DEF Succeed
<1>2. t \in DOMAIN call /\ DOMAIN c = CallFields /\ RunsOn(c) /\ n \in Names
  BY <1>1, Begins DEF RunsOn
<1>3. PICK r \in Results[Tool[n].backed] :
          call' = [call EXCEPT ![t].pc = "shape", ![t].result = r, ![t].log = Append(@, "allow"),
                               ![t].ran = TRUE, ![t].wrote = Tool[n].write]
  BY DEF Succeed
<1>4. Tool[n].write => r.shape \notin {"unserializable", "help"}
  BY <1>2, <1>3, ToolAssumption, ResultsAssumption
<1> DEFINE d == [c EXCEPT !.pc = "shape", !.result = r, !.log = Append(@, "allow"),
                          !.ran = TRUE, !.wrote = Tool[n].write]
<1>5. call' = [call EXCEPT ![t] = d]
  BY <1>2, <1>3 DEF CallFields
<1>6. /\ d.req = c.req /\ d.view = c.view /\ d.pc = "shape" /\ d.result = r
      /\ d.wrote = Tool[n].write /\ d.req.method # "token"
  BY <1>1, <1>2, IsUnderway DEF CallFields, Underway, WInv, HInv
<1> HIDE DEF d
<1>7. RunsOn(d) /\ Target(d) = n
  BY <1>2, <1>6 DEF RunsOn, Target, Asked, Spelled, Visible, Members
<1>8. WriteInv(d)
  BY <1>4, <1>6, <1>7 DEF WriteInv
<1> QED
  BY <1>1, <1>2, <1>5, <1>8, OneWritten

LEMMA ShapeWrites == ASSUME WInv, HInv', NEW t \in Threads, Shape(t) PROVE WInv'
<1> DEFINE c == call[t]
           named == IF c.result.shape = "help" THEN Disclosed(c, c.req.name) ELSE {}
           reply == [Shaped(c) EXCEPT !.named = named]
           d == [c EXCEPT !.pc = "done", !.reply = reply]
<1>1. c.pc = "shape" /\ conf' = conf /\ registered' = registered /\ Done(t, reply)
  BY DEF Shape
<1>2. /\ t \in DOMAIN call /\ DOMAIN c = CallFields /\ c.view \subseteq registered /\ c # Idle
      /\ c.req.method # "token"
  BY <1>1, Begins DEF WInv, HInv, IInv, CallInv, Underway
<1>3. call' = [call EXCEPT ![t] = d]
  BY <1>1, <1>2 DEF Done, CallFields
<1>4. /\ reply.kind = Shaped(c).kind /\ reply.body = Shaped(c).body
      /\ reply.bound = Shaped(c).bound /\ reply.action = Shaped(c).action
  BY ShapedFields DEF ReplyFields
<1> HIDE DEF reply
<1>5. Answered(c, d) /\ d.pc = "done" /\ d.wrote = c.wrote
  BY <1>2, <1>4 DEF CallFields, Answered
<1> HIDE DEF d
<1>6. c.wrote => /\ RunsOn(c) /\ Tool[Target(c)].write
                 /\ c.result.shape \notin {"unserializable", "help"}
  BY <1>1, <1>2 DEF WInv, WriteInv
<1>7. c.wrote => /\ d.reply.kind = "crash" => conf.store = "down"
                 /\ d.reply.kind = "result" /\ Promised(d) => Kept(d)
  BY <1>2, <1>5, <1>6, ShapedIsKept DEF WInv
<1>8. WriteInv(d)
  BY <1>2, <1>5, <1>7 DEF WriteInv, Answered
<1> QED
  BY <1>1, <1>2, <1>3, <1>8, OneWritten

LEMMA StepWrites == WInv /\ [Next]_vars => WInv'
<1> SUFFICES ASSUME WInv, [Next]_vars PROVE WInv'
  OBVIOUS
<1>1. HInv'
  BY StepNames DEF WInv
<1>2. ASSUME NEW t \in Threads, NEW req, Arrive(t, req) PROVE WInv'
  BY <1>1, <1>2, ArriveWrites
<1>3. ASSUME NEW t \in Threads, Step(t) PROVE WInv'
  BY <1>1, <1>3, UnwrittenActions, LeaveWrites, DispatchWrites, FailWrites, SucceedWrites, ShapeWrites
     DEF Step
<1>4. ASSUME NEW n \in Names, Register(n) PROVE WInv'
  <2>1. conf' = conf /\ call' = call /\ registered' = registered \cup {n}
    BY <1>4 DEF Register
  <2>2. \A t \in Threads : WriteInv(call[t])'
    BY <2>1, WritesStay DEF WInv
  <2> QED
    BY <1>1, <2>2 DEF WInv
<1>5. CASE UNCHANGED <<conf, registered, call>>
  <2>1. \A t \in Threads : WriteInv(call[t])'
    BY <1>5, WritesStay DEF WInv
  <2> QED
    BY <1>1, <2>1 DEF WInv
<1> QED
  BY <1>2, <1>3, <1>4, <1>5 DEF Next, vars

\* What is kept is delivered: the answer is there, or there is a call that brings it.
LEMMA KeptIsDelivered ==
    ASSUME HInv, NEW c, DOMAIN c = CallFields, DOMAIN c.req = RequestFields,
           c.view \subseteq registered, Kept(c)
    PROVE  Delivered(c)
<1> DEFINE r == Tool[c.req.name].retrieve
           f == Fetching(c)
<1>1. CASE /\ c.reply.body = "ids"
           /\ r \in Visible(c) /\ Tool[r].kind = "flat" /\ Tool[r].admits /\ Reaches(r)
  <2>1. f.req.name = r /\ f.req.valid /\ f.view = c.view
    BY DEF Fetching, CallFields, RequestFields
  <2> HIDE DEF f
  <2>2. r \in Visible(f) /\ r \in registered
    BY <1>1, <2>1 DEF Visible
  <2>3. Verdict(f) = "run"
    BY <1>1, <2>1, <2>2 DEF Verdict, FlatVerdict
  <2> QED
    BY <1>1, <2>3 DEF Delivered, f
<1> QED
  BY <1>1 DEF Kept, Delivered

\* The result of a write that the gateway promises to deliver is in the answer, or a token or
\* an id in the answer leads to it (_handle_tools_call, _redemption_target_authorized).
THEOREM WritesAreDelivered == Spec => []WritesAreAnswered
<1>1. Init => WInv
  <2> SUFFICES ASSUME Init PROVE WInv
    OBVIOUS
  <2>1. HInv /\ \A t \in Threads : call[t] = Idle
    BY InitNames DEF Init
  <2> QED
    BY <2>1 DEF WInv, WriteInv
<1>2. WInv => WritesAreAnswered
  <2> SUFFICES ASSUME WInv, NEW t \in Threads, Over(call[t]), call[t].wrote
               PROVE  /\ call[t].reply.kind = "crash" => conf.store = "down"
                      /\ call[t].reply.kind = "result" /\ Promised(call[t]) => Delivered(call[t])
    BY DEF WritesAreAnswered
  <2>1. /\ call[t].reply.kind = "crash" => conf.store = "down"
        /\ call[t].reply.kind = "result" /\ Promised(call[t]) => Kept(call[t])
    BY DEF WInv, WriteInv, Over, Idle
  <2>2. /\ DOMAIN call[t] = CallFields /\ DOMAIN call[t].req = RequestFields
        /\ call[t].view \subseteq registered
    BY Fields DEF WInv, Over
  <2> QED
    BY <2>1, <2>2, KeptIsDelivered DEF WInv
<1> QED
  BY <1>1, <1>2, StepWrites, PTL DEF Spec

-----------------------------------------------------------------------------
(* What the limiters let through. *)

Ways == {"tools", "token", "open"}

\* Threads that have read the clock before s and are not counted yet.
Late(s) == {t \in Threads : call[t].pc = "count" /\ call[t].reading < s}

\* Threads that have added the counter and not incremented it.
Waiting == {t \in Threads : call[t].pc = "increment"}

\* How many of the calls that a limiter has counted it has let through.
Held(count) == IF count > Limit THEN Limit ELSE count

RateType ==
    /\ now \in 0..MaxTime
    /\ window \in [count : 0..(Limit + 1), start : 0..now]
    /\ counter \in [count : 0..(Limit + 1), expires : 0..(now + Period)]
    /\ counter.expires = 0 \/ Period <= counter.expires
    /\ admitted \in [Ways -> Nat]
    /\ before \in [0..MaxTime -> [Ways -> Nat]]
    /\ \A s \in 0..now, way \in Ways : before[s][way] <= admitted[way]
    /\ \A t \in Threads : call[t].pc = "count" => call[t].reading \in 0..now

\* A window that a reading since s finds closed has let through only late threads; one that
\* began before s may have taken over from such a window; and one that began since then
\* follows a window that was used up at most.
WindowOk(s, w, let, all, late) ==
    /\ w.count = 0 => let = 0
    /\ w.start + Period <= s => let <= all - late
    /\ w.start < s /\ s < w.start + Period =>
           let <= Held(w.count) \/ let <= Held(w.count) + all - late - 1
    /\ s <= w.start => let <= Limit + all - 1 + Held(w.count)

\* A counter that was created since s follows at most one other that lived then; and until
\* one is created, whoever is let through without a count has added its counter before.
CounterOk(m, s, c, counted, open, all, waiting) ==
    /\ c.expires < s + Period =>
           /\ counted <= Held(c.count)
           /\ open + waiting <= all
           /\ open > 0 => c.expires <= m
    /\ s + Period <= c.expires =>
           /\ counted <= Limit + Held(c.count)
           /\ open <= all

\* What is counted has been let through since the window, or the counter, began.
Spent ==
    /\ window.count > 0 => Held(window.count) <= Let("tools", window.start)
    /\ counter.count > 0 =>
           \E s \in 0..now : counter.expires = s + Period /\ Held(counter.count) <= Let("token", s)

Limiter(c) == IF c.req.method = "token" THEN "token" ELSE "tools"

\* Whoever is refused was not alone.
Refused(c) ==
    c.pc = "done" /\ c.reply.body = "limited" =>
        \E s \in 0..now : c.reading < s + Period /\ Limit <= Let(Limiter(c), s)

WindowInv ==
    \A s \in Recent :
        WindowOk(s, window, Let("tools", s), Cardinality(Threads), Cardinality(Late(s)))

CounterInv ==
    \A s \in Recent :
        CounterOk(now, s, counter, Let("token", s), Let("open", s), Cardinality(Threads),
                  Cardinality(Waiting))

RefusedInv == \A t \in Threads : Refused(call[t])

RateInv == RateType /\ WindowInv /\ CounterInv /\ Spent /\ RefusedInv

-----------------------------------------------------------------------------

\* What a window becomes when a call that read the clock at r is counted.
Follows(next, w, r) ==
    next = IF r >= w.start + Period \/ w.count = 0 THEN [count |-> 1, start |-> r]
           ELSE [w EXCEPT !.count = OneMore(@)]

LEMMA CountWindow ==
    ASSUME NEW s \in Nat, NEW w \in [count : 0..(Limit + 1), start : Nat],
           NEW let \in Nat, NEW all \in Nat \ {0}, NEW late \in 0..all, NEW after \in 0..late,
           NEW r \in Nat, r < s + Period, r < s => after = late - 1,
           WindowOk(s, w, let, all, late),
           NEW next, Follows(next, w, r),
           NEW more, more = IF next.count <= Limit THEN let + 1 ELSE let
    PROVE  WindowOk(s, next, more, all, after)
<1>1. Limit \in Nat \ {0} /\ Period \in Nat \ {0}
  BY RateAssumption
<1>2. w.count \in 0..(Limit + 1) /\ w.start \in Nat
  OBVIOUS
<1>3. CASE r >= w.start + Period \/ w.count = 0
  <2>1. next.count = 1 /\ next.start = r /\ more = let + 1 /\ Held(next.count) = 1
    BY <1>1, <1>3 DEF Held, Follows
  <2>2. CASE w.count = 0
    <3>1. let = 0
      BY <2>2 DEF WindowOk
    <3> QED
      BY <1>1, <1>2, <2>1, <3>1 DEF WindowOk
  <2>3. CASE w.count # 0
    <3>1. w.start + Period <= r
      BY <1>1, <1>2, <1>3, <2>3
    <3>2. CASE w.start + Period <= s
      <4>1. let <= all - late
        BY <3>2 DEF WindowOk
      <4> QED
        BY <1>1, <1>2, <2>1, <3>1, <4>1 DEF WindowOk
    <3>3. CASE s < w.start + Period
      <4>1. w.start < s
        BY <1>1, <1>2, <3>1
      <4>2. let <= Limit + all - 1
        BY <1>1, <1>2, <3>3, <4>1 DEF WindowOk, Held
      <4>3. s <= r
        BY <1>1, <1>2, <3>1, <3>3
      <4> QED
        BY <1>1, <1>2, <2>1, <4>2, <4>3 DEF WindowOk
    <3> QED
      BY <1>1, <1>2, <3>2, <3>3
  <2> QED
    BY <2>2, <2>3
<1>4. CASE ~(r >= w.start + Period) /\ w.count # 0
  <2>1. next.count = OneMore(w.count) /\ next.start = w.start
    BY <1>4 DEF Follows
  <2>2. /\ next.count # 0
        /\ \/ more = let /\ Held(next.count) = Held(w.count)
           \/ more = let + 1 /\ Held(next.count) = Held(w.count) + 1
    BY <1>1, <1>2, <1>4, <2>1 DEF OneMore, Held
  <2>3. Held(w.count) \in Nat /\ Held(next.count) \in Nat
    BY <1>1, <1>2, <2>1 DEF OneMore, Held
  <2>4. w.start + Period <= s => after = late - 1
    BY <1>1, <1>2, <1>4
  <2>5. CASE w.start + Period <= s
    <3>1. let <= all - late /\ more <= let + 1 /\ after = late - 1
      BY <2>2, <2>4, <2>5 DEF WindowOk
    <3> QED
      BY <1>1, <1>2, <2>1, <2>2, <2>5, <3>1 DEF WindowOk
  <2>6. CASE w.start < s /\ s < w.start + Period
    <3>1. let <= Held(w.count) \/ let <= Held(w.count) + all - late - 1
      BY <2>6 DEF WindowOk
    <3>2. more <= Held(next.count) \/ more <= Held(next.count) + all - after - 1
      BY <2>2, <2>3, <3>1
    <3> QED
      BY <1>1, <1>2, <2>1, <2>2, <2>6, <3>2 DEF WindowOk
  <2>7. CASE s <= w.start
    <3>1. let <= Limit + all - 1 + Held(w.count)
      BY <2>7 DEF WindowOk
    <3>2. more <= Limit + all - 1 + Held(next.count)
      BY <1>1, <2>2, <2>3, <3>1
    <3> QED
      BY <1>1, <1>2, <2>1, <2>2, <2>7, <3>2 DEF WindowOk
  <2> QED
    BY <1>1, <1>2, <2>5, <2>6, <2>7
<1> QED
  BY <1>3, <1>4

LEMMA AddToCounter ==
    ASSUME NEW m \in Nat, NEW s \in 0..m, m < s + Period,
           NEW c \in [count : 0..(Limit + 1), expires : 0..(m + Period)],
           NEW counted \in Nat, NEW open \in Nat, NEW all \in Nat, NEW waiting \in 0..all,
           NEW after \in 0..all,
           CounterOk(m, s, c, counted, open, all, waiting),
           NEW next, next = IF m < c.expires THEN c ELSE [count |-> 0, expires |-> m + Period]
    PROVE  CounterOk(m, s, next, counted, open, all, after)
<1>1. Limit \in Nat \ {0} /\ Period \in Nat \ {0}
  BY RateAssumption
<1>2. c.count \in 0..(Limit + 1) /\ c.expires \in 0..(m + Period)
  OBVIOUS
<1>3. Held(0) = 0 /\ Held(c.count) \in 0..Limit
  BY <1>1, <1>2 DEF Held
<1>4. CASE m < c.expires
  BY <1>1, <1>2, <1>3, <1>4 DEF CounterOk
<1>5. CASE ~(m < c.expires)
  <2>1. next.count = 0 /\ next.expires = m + Period
    BY <1>5
  <2>2. c.expires < s + Period
    BY <1>1, <1>2, <1>5
  <2> QED
    BY <1>1, <1>2, <1>3, <2>1, <2>2 DEF CounterOk
<1> QED
  BY <1>4, <1>5

LEMMA IncrementOfCounter ==
    ASSUME NEW m \in Nat, NEW s \in 0..m, m < s + Period,
           NEW c \in [count : 0..(Limit + 1), expires : 0..(m + Period)],
           NEW counted \in Nat, NEW open \in Nat, NEW all \in Nat, NEW waiting \in 1..all,
           CounterOk(m, s, c, counted, open, all, waiting)
    PROVE  /\ m < c.expires =>
                  \A next : next = [c EXCEPT !.count = OneMore(@)] =>
                      CounterOk(m, s, next, IF next.count <= Limit THEN counted + 1 ELSE counted,
                                open, all, waiting - 1)
           /\ ~(m < c.expires) => CounterOk(m, s, c, counted, open + 1, all, waiting - 1)
<1>1. Limit \in Nat \ {0} /\ Period \in Nat \ {0}
  BY RateAssumption
<1>2. c.count \in 0..(Limit + 1) /\ c.expires \in 0..(m + Period)
  OBVIOUS
<1>3. ASSUME m < c.expires, NEW next, next = [c EXCEPT !.count = OneMore(@)]
      PROVE  CounterOk(m, s, next, IF next.count <= Limit THEN counted + 1 ELSE counted, open, all, waiting - 1)
  <2>1. next.count = OneMore(c.count) /\ next.expires = c.expires
    BY <1>3
  <2> DEFINE more == IF next.count <= Limit THEN counted + 1 ELSE counted
  <2>2. \/ more = counted /\ Held(next.count) = Held(c.count)
        \/ more = counted + 1 /\ Held(next.count) = Held(c.count) + 1
    BY <1>1, <1>2, <2>1 DEF OneMore, Held
  <2>3. Held(c.count) \in Nat /\ Held(next.count) \in Nat
    BY <1>1, <1>2, <2>1 DEF OneMore, Held
  <2> HIDE DEF more
  <2> SUFFICES CounterOk(m, s, next, more, open, all, waiting - 1)
    BY DEF more
  <2> QED
    BY <1>1, <1>2, <1>3, <2>1, <2>2, <2>3 DEF CounterOk
<1>4. ASSUME ~(m < c.expires) PROVE CounterOk(m, s, c, counted, open + 1, all, waiting - 1)
  <2>1. c.expires < s + Period
    BY <1>1, <1>2, <1>4
  <2> QED
    BY <1>1, <1>2, <1>4, <2>1 DEF CounterOk
<1> QED
  BY <1>3, <1>4

LEMMA Sizes ==
    /\ Cardinality(Threads) \in Nat
    /\ \A S \in SUBSET Threads : Cardinality(S) \in 0..Cardinality(Threads)
    /\ \A S \in SUBSET Threads : \A R \in SUBSET S : Cardinality(R) \in 0..Cardinality(S)
    /\ \A S \in SUBSET Threads : \A t \in S : Cardinality(S \ {t}) = Cardinality(S) - 1
    /\ \A S \in SUBSET Threads : S # {} => Cardinality(S) \in Nat \ {0}
<1>1. \A S \in SUBSET Threads : IsFiniteSet(S)
  BY ThreadsAssumption, FS_Subset
<1>2. \A S \in SUBSET Threads : Cardinality(S) \in Nat
  BY <1>1, FS_CardinalityType
<1>3. \A S \in SUBSET Threads : \A R \in SUBSET S : Cardinality(R) <= Cardinality(S)
  BY <1>1, FS_Subset
<1>4. \A S \in SUBSET Threads : \A t \in S : Cardinality(S \ {t}) = Cardinality(S) - 1
  BY <1>1, FS_RemoveElement
<1>5. \A S \in SUBSET Threads : S # {} => Cardinality(S) # 0
  BY <1>1, FS_EmptySet
<1>6. \A S \in SUBSET Threads : \A R \in SUBSET S : Cardinality(R) \in 0..Cardinality(S)
  BY <1>2, <1>3
<1> QED
  BY <1>2, <1>4, <1>5, <1>6

LEMMA LetIsNat ==
    ASSUME RateType
    PROVE  /\ now \in Nat /\ Recent \subseteq 0..now
           /\ \A s \in 0..now, way \in Ways : Let(way, s) \in Nat
<1>1. \A s \in 0..now, way \in Ways : before[s][way] \in Nat /\ admitted[way] \in Nat
  BY RateAssumption DEF RateType
<1> QED
  BY <1>1, RateAssumption DEF RateType, Let, Recent

LEMMA FewerLate ==
    ASSUME NEW s, NEW w, NEW let \in Nat, NEW all \in Nat, NEW late \in Nat, NEW after \in 0..late,
           w.count \in Nat, WindowOk(s, w, let, all, late)
    PROVE  WindowOk(s, w, let, all, after)
  BY RateAssumption DEF WindowOk, Held

LEMMA FewerWaiting ==
    ASSUME NEW m, NEW s, NEW c, NEW counted, NEW open \in Nat, NEW all \in Nat, NEW waiting \in Nat,
           NEW after \in 0..waiting, CounterOk(m, s, c, counted, open, all, waiting)
    PROVE  CounterOk(m, s, c, counted, open, all, after)
  BY DEF CounterOk

\* A step of a thread that has nothing to do with the limiters.
Passes(t) ==
    /\ \A u \in Threads \ {t} : call'[u] = call[u]
    /\ call'[t].pc = "count" => call'[t].reading = now
    /\ call'[t].pc # "increment"
    /\ ~(call'[t].pc = "done" /\ call'[t].reply.body = "limited")

LEMMA FewerThreads ==
    ASSUME RateType, NEW t \in Threads, Passes(t), now' = now, NEW s \in Recent
    PROVE  /\ Cardinality(Late(s)) \in Nat /\ Cardinality(Late(s))' \in 0..Cardinality(Late(s))
           /\ Cardinality(Waiting) \in Nat /\ Cardinality(Waiting)' \in 0..Cardinality(Waiting)
<1> DEFINE late == {u \in Threads : call'[u].pc = "count" /\ call'[u].reading < s}
           waiting == {u \in Threads : call'[u].pc = "increment"}
<1>1. now \in Nat /\ s \in 0..now
  BY LetIsNat
<1>2. late \subseteq Late(s) /\ Late(s) \subseteq Threads
  BY <1>1 DEF Passes, Late
<1>3. waiting \subseteq Waiting /\ Waiting \subseteq Threads
  BY DEF Passes, Waiting
<1>4. /\ Cardinality(Late(s)) \in Nat /\ Cardinality(late) \in 0..Cardinality(Late(s))
      /\ Cardinality(Waiting) \in Nat /\ Cardinality(waiting) \in 0..Cardinality(Waiting)
  BY <1>2, <1>3, Sizes
<1> QED
  BY <1>4 DEF Late, Waiting

LEMMA PassingKeeps ==
    ASSUME RateInv, NEW t \in Threads, Passes(t), UNCHANGED rateVars
    PROVE  RateInv'
<1>1. /\ now' = now /\ window' = window /\ counter' = counter
      /\ admitted' = admitted /\ before' = before
  BY DEF rateVars
<1>2. RateType
  BY DEF RateInv
<1>3. RateType'
  <2>1. \A u \in Threads : call'[u].pc = "count" => call'[u].reading \in 0..now
    BY <1>2, LetIsNat DEF Passes, RateType
  <2> QED
    BY <1>1, <1>2, <2>1 DEF RateType
<1>4. WindowInv'
  <2> SUFFICES ASSUME NEW s \in Recent
      PROVE  WindowOk(s, window, Let("tools", s), Cardinality(Threads), Cardinality(Late(s))')
    BY <1>1 DEF WindowInv, Recent, Let
  <2>1. s \in 0..now /\ Let("tools", s) \in Nat /\ Cardinality(Threads) \in Nat
    BY <1>2, LetIsNat, Sizes DEF Ways
  <2>0. window.count \in Nat
    BY <1>2, RateAssumption DEF RateType
  <2>2. WindowOk(s, window, Let("tools", s), Cardinality(Threads), Cardinality(Late(s)))
    BY DEF RateInv, WindowInv
  <2>3. Cardinality(Late(s)) \in Nat /\ Cardinality(Late(s))' \in 0..Cardinality(Late(s))
    BY <1>1, <1>2, FewerThreads
  <2> QED
    BY <2>0, <2>1, <2>2, <2>3, FewerLate
<1>5. CounterInv'
  <2> SUFFICES ASSUME NEW s \in Recent
      PROVE  CounterOk(now, s, counter, Let("token", s), Let("open", s), Cardinality(Threads),
                       Cardinality(Waiting)')
    BY <1>1 DEF CounterInv, Recent, Let
  <2>1. s \in 0..now /\ Let("open", s) \in Nat /\ Cardinality(Threads) \in Nat
    BY <1>2, LetIsNat, Sizes DEF Ways
  <2>2. CounterOk(now, s, counter, Let("token", s), Let("open", s), Cardinality(Threads),
                  Cardinality(Waiting))
    BY DEF RateInv, CounterInv
  <2>3. Cardinality(Waiting) \in Nat /\ Cardinality(Waiting)' \in 0..Cardinality(Waiting)
    BY <1>1, <1>2, FewerThreads
  <2> QED
    BY <2>1, <2>2, <2>3, FewerWaiting
<1>6. Spent'
  BY <1>1 DEF RateInv, Spent, Let, Held
<1>7. RefusedInv'
  BY <1>1 DEF RateInv, RefusedInv, Refused, Passes, Let, Limiter
<1> QED
  BY <1>3, <1>4, <1>5, <1>6, <1>7 DEF RateInv

-----------------------------------------------------------------------------
(* The steps that have nothing to do with the limiters. *)

LEMMA Known ==
    ASSUME IInv, NEW t \in Threads, call[t].pc # "idle"
    PROVE  t \in DOMAIN call /\ DOMAIN call[t] = CallFields
  BY DEF IInv, CallInv, Idle

LEMMA Passing ==
    ASSUME IInv, NEW t \in Threads, NEW d, call' = [call EXCEPT ![t] = d],
           d.pc = "count" => d.reading = now, d.pc # "increment",
           d.pc = "done" => d.reply.body # "limited"
    PROVE  Passes(t)
  BY DEF IInv, Passes

LEMMA PassingGoto ==
    ASSUME IInv, NEW t \in Threads, call[t].pc # "idle",
           NEW pc, Goto(t, pc), pc \notin {"count", "increment", "done"}
    PROVE  Passes(t)
<1> DEFINE d == [call[t] EXCEPT !.pc = pc]
<1>1. call' = [call EXCEPT ![t] = d]
  BY DEF Goto
<1>2. d.pc = pc
  BY Known DEF CallFields
<1> HIDE DEF d
<1> QED
  BY <1>1, <1>2, Passing

LEMMA PassingEnd ==
    ASSUME IInv, NEW t \in Threads, call[t].pc # "idle",
           NEW reply, reply.body # "limited",
           Done(t, reply) \/ \E decision : Audited(t, decision, reply)
    PROVE  Passes(t)
<1>1. t \in DOMAIN call /\ DOMAIN call[t] = CallFields
  BY Known
<1>2. CASE Done(t, reply)
  <2> DEFINE d == [call[t] EXCEPT !.pc = "done", !.reply = reply]
  <2>1. call' = [call EXCEPT ![t] = d]
    BY <1>1, <1>2 DEF Done, CallFields
  <2>2. d.pc = "done" /\ d.reply = reply
    BY <1>1 DEF CallFields
  <2> HIDE DEF d
  <2> QED
    BY <2>1, <2>2, Passing
<1>3. ASSUME NEW decision, Audited(t, decision, reply) PROVE Passes(t)
  <2> DEFINE d == [call[t] EXCEPT !.pc = "done", !.reply = reply, !.log = Append(@, decision)]
  <2>1. call' = [call EXCEPT ![t] = d]
    BY <1>1, <1>3 DEF Audited, CallFields
  <2>2. d.pc = "done" /\ d.reply = reply
    BY <1>1 DEF CallFields
  <2> HIDE DEF d
  <2> QED
    BY <2>1, <2>2, Passing
<1> QED
  BY <1>2, <1>3

LEMMA ShapedIsNoLimit == ASSUME NEW c PROVE Shaped(c).body # "limited"
<1>1. \A kind, status : Answer(kind, status).body # "limited"
  BY DEF Answer, None
<1>2. \A body : Give(body).body = body
  BY DEF Give, Answer
<1>3. \A tool, action : /\ Mint("lean", tool, action).body # "limited"
                        /\ Mint("probe", tool, action).body # "limited"
  BY DEF Mint, Give, Answer, None
<1>4. LeanFlat(c).body # "limited"
  BY <1>2, <1>3 DEF LeanFlat
<1>5. \A m : LeanMember(c, m).body # "limited"
  BY <1>2, <1>3 DEF LeanMember
<1>6. Negotiated(c).body # "limited"
  BY <1>2, <1>3 DEF Negotiated
<1> QED
  BY <1>1, <1>4, <1>5, <1>6 DEF Shaped

LEMMA ArrivePasses == ASSUME IInv, NEW t \in Threads, NEW req, Arrive(t, req) PROVE Passes(t)
<1>1. PICK pc \in {"add", "agent", "immediate"} : Begun(t, req, pc)
  BY DEF Arrive
<1> DEFINE d == [pc |-> pc, req |-> req, view |-> Carved, known |-> FALSE, reading |-> 0, ran |-> FALSE,
                 wrote |-> FALSE, result |-> None, log |-> <<>>, reply |-> NoAnswer]
<1>2. call' = [call EXCEPT ![t] = d]
  BY <1>1 DEF Begun
<1>3. d.pc \in {"add", "agent", "immediate"}
  OBVIOUS
<1> HIDE DEF d
<1> QED
  BY <1>2, <1>3, Passing

LEMMA DispatchPasses == ASSUME IInv, NEW t \in Threads, Dispatch(t) PROVE Passes(t)
<1> DEFINE c == call[t]
           verdict == Verdict(c)
<1>1. c.pc # "idle" /\ t \in DOMAIN call /\ DOMAIN c = CallFields
  BY Known DEF Dispatch
<1>2. CASE Goto(t, "run")
  BY <1>1, <1>2, PassingGoto
<1>3. ASSUME NEW large,
             call' = [call EXCEPT ![t].result = [shape |-> "help", id |-> FALSE, large |-> large],
                                  ![t].log = Append(@, "allow"), ![t].pc = "shape"]
      PROVE  Passes(t)
  <2> DEFINE d == [c EXCEPT !.result = [shape |-> "help", id |-> FALSE, large |-> large],
                            !.log = Append(@, "allow"), !.pc = "shape"]
  <2>1. call' = [call EXCEPT ![t] = d]
    BY <1>1, <1>3 DEF CallFields
  <2>2. d.pc = "shape"
    BY <1>1 DEF CallFields
  <2> HIDE DEF d
  <2> QED
    BY <2>1, <2>2, Passing
<1>4. CASE /\ verdict \notin {"run", "help"}
           /\ Audited(t, Decision(verdict), [Refusal(verdict) EXCEPT !.named = Hints(c, verdict)])
  <2> DEFINE reply == [Refusal(verdict) EXCEPT !.named = Hints(c, verdict)]
  <2>1. verdict \in {"absent", "unknown", "permission", "input", "value"}
    BY <1>4, VerdictIsOne
  <2>2. reply.body # "limited"
    BY <2>1 DEF Refusal, Answer, None
  <2> HIDE DEF reply, verdict
  <2> QED
    BY <1>1, <1>4, <2>2, PassingEnd DEF reply
<1> QED
  BY <1>2, <1>3, <1>4 DEF Dispatch

LEMMA RunPasses == ASSUME IInv, NEW t \in Threads, Fail(t) \/ Succeed(t) PROVE Passes(t)
<1> DEFINE c == call[t]
           n == Target(c)
<1>1. t \in DOMAIN call /\ DOMAIN c = CallFields
  BY Known DEF Fail, Succeed
<1>2. CASE Fail(t)
  <2>1. PICK f : call' = [call EXCEPT ![t].pc = "done", ![t].reply = Broken(c, f.status),
                                      ![t].log = Append(@, f.decision), ![t].ran = TRUE,
                                      ![t].wrote = f.committed /\ Tool[n].write]
    BY <1>2 DEF Fail
  <2> DEFINE d == [c EXCEPT !.pc = "done", !.reply = Broken(c, f.status),
                            !.log = Append(@, f.decision), !.ran = TRUE,
                            !.wrote = f.committed /\ Tool[n].write]
  <2>2. call' = [call EXCEPT ![t] = d]
    BY <1>1, <2>1 DEF CallFields
  <2>3. d.pc = "done" /\ d.reply.body # "limited"
    BY <1>1 DEF CallFields, Answer, Broken, None
  <2> HIDE DEF d
  <2> QED
    BY <2>2, <2>3, Passing
<1>3. CASE Succeed(t)
  <2>1. PICK r : call' = [call EXCEPT ![t].pc = "shape", ![t].result = r, ![t].log = Append(@, "allow"),
                                      ![t].ran = TRUE, ![t].wrote = Tool[n].write]
    BY <1>3 DEF Succeed
  <2> DEFINE d == [c EXCEPT !.pc = "shape", !.result = r, !.log = Append(@, "allow"),
                            !.ran = TRUE, !.wrote = Tool[n].write]
  <2>2. call' = [call EXCEPT ![t] = d]
    BY <1>1, <2>1 DEF CallFields
  <2>3. d.pc = "shape"
    BY <1>1 DEF CallFields
  <2> HIDE DEF d
  <2> QED
    BY <2>2, <2>3, Passing
<1> QED
  BY <1>2, <1>3

\* ReadClock is the only one of them that goes to the limiter, and its reading is fresh.
LEMMA OthersPass ==
    ASSUME IInv, NEW t \in Threads,
           \/ AnswerAtOnce(t) \/ Leave(t) \/ Gate(t) \/ Redeem(t) \/ ReadEntry(t) \/ ReadClock(t)
           \/ Dispatch(t) \/ Fail(t) \/ Succeed(t) \/ Shape(t)
    PROVE  Passes(t) /\ UNCHANGED rateVars
<1> DEFINE c == call[t]
<1>1. UNCHANGED rateVars
  BY DEF AnswerAtOnce, Leave, Gate, Redeem, ReadEntry, ReadClock, Dispatch, Fail, Succeed, Shape
<1>2. c.pc # "idle"
  BY DEF AnswerAtOnce, Leave, Gate, Redeem, ReadEntry, ReadClock, Dispatch, Fail, Succeed, Shape
<1>3. t \in DOMAIN call /\ DOMAIN c = CallFields
  BY <1>2, Known
<1>4. CASE AnswerAtOnce(t)
  <2>1. Done(t, Immediate(c)) /\ Immediate(c).body # "limited"
    BY <1>4 DEF AnswerAtOnce, Immediate, Answer, None
  <2> QED
    BY <1>1, <1>2, <2>1, PassingEnd
<1>5. CASE Leave(t)
  <2>1. call' = [call EXCEPT ![t] = Idle] /\ Idle.pc = "idle"
    BY <1>5 DEF Leave, Idle
  <2> QED
    BY <1>1, <2>1, Passing
<1>6. CASE Gate(t) \/ Redeem(t)
  <2>1. \/ \E pc \in {"redeem", "entry"} : Goto(t, pc)
        \/ \E decision, reply : Audited(t, decision, reply) /\ reply.body # "limited"
    BY <1>6 DEF Gate, Redeem, Answer, None
  <2> QED
    BY <1>1, <1>2, <2>1, PassingGoto, PassingEnd
<1>7. CASE ReadEntry(t)
  <2> DEFINE d == [c EXCEPT !.known = c.req.name \in registered,
                            !.pc = IF conf.limiter THEN "clock" ELSE "dispatch"]
  <2>1. call' = [call EXCEPT ![t] = d]
    BY <1>3, <1>7 DEF ReadEntry, CallFields
  <2>2. d.pc \in {"clock", "dispatch"}
    BY <1>3 DEF CallFields
  <2> HIDE DEF d
  <2> QED
    BY <1>1, <2>1, <2>2, Passing
<1>8. CASE ReadClock(t)
  <2> DEFINE d == [c EXCEPT !.reading = now, !.pc = "count"]
  <2>1. call' = [call EXCEPT ![t] = d]
    BY <1>3, <1>8 DEF ReadClock, CallFields
  <2>2. d.pc = "count" /\ d.reading = now
    BY <1>3 DEF CallFields
  <2> HIDE DEF d
  <2> QED
    BY <1>1, <2>1, <2>2, Passing
<1>9. CASE Shape(t)
  <2> DEFINE named == IF c.result.shape = "help" THEN Disclosed(c, c.req.name) ELSE {}
             reply == [Shaped(c) EXCEPT !.named = named]
  <2>1. Done(t, reply)
    BY <1>9 DEF Shape
  <2>2. reply.body # "limited"
    BY ShapedIsNoLimit, ShapedFields
  <2> HIDE DEF reply
  <2> QED
    BY <1>1, <1>2, <2>1, <2>2, PassingEnd
<1> QED
  BY <1>1, <1>4, <1>5, <1>6, <1>7, <1>8, <1>9, DispatchPasses, RunPasses

-----------------------------------------------------------------------------
(* The steps of the limiters, and of the clock. *)

\* What is known at any time.
LEMMA Quantities ==
    ASSUME RateType
    PROVE  /\ Limit \in Nat \ {0} /\ Period \in Nat \ {0} /\ MaxTime \in Nat
           /\ now \in Nat /\ now <= MaxTime /\ Recent \subseteq 0..now
           /\ \A s \in Recent : s \in Nat /\ now < s + Period
           /\ window.count \in 0..(Limit + 1) /\ window.start \in 0..now
           /\ counter.count \in 0..(Limit + 1) /\ counter.expires \in 0..(now + Period)
           /\ \A s \in 0..now : \A way \in Ways :
                  Let(way, s) \in Nat /\ before[s][way] \in Nat /\ before[s][way] <= admitted[way]
           /\ \A way \in Ways : admitted[way] \in Nat
           /\ DOMAIN admitted = Ways
<1>1. Limit \in Nat \ {0} /\ Period \in Nat \ {0} /\ MaxTime \in Nat
  BY RateAssumption
<1>2. now \in Nat /\ now <= MaxTime /\ Recent \subseteq 0..now
  BY <1>1 DEF RateType, Recent
<1>3. \A s \in Recent : s \in Nat /\ now < s + Period
  BY <1>2 DEF Recent
<1>4. /\ window.count \in 0..(Limit + 1) /\ window.start \in 0..now
      /\ counter.count \in 0..(Limit + 1) /\ counter.expires \in 0..(now + Period)
  BY DEF RateType
<1>5. \A s \in 0..now : \A way \in Ways :
          Let(way, s) \in Nat /\ before[s][way] \in Nat /\ before[s][way] <= admitted[way]
  <2>1. \A s \in 0..now : s \in 0..MaxTime
    BY <1>1, <1>2
  <2>2. \A s \in 0..now : \A way \in Ways : before[s][way] \in Nat /\ before[s][way] <= admitted[way]
    BY <2>1 DEF RateType
  <2> QED
    BY <2>2, LetIsNat
<1>6. (\A way \in Ways : admitted[way] \in Nat) /\ DOMAIN admitted = Ways
  BY DEF RateType
<1> QED
  BY <1>1, <1>2, <1>3, <1>4, <1>5, <1>6

\* A refusal stays explained as long as nothing is taken back.
LEMMA StillRefused ==
    ASSUME RateType, NEW u \in Threads, Refused(call[u]), call'[u] = call[u], now' \in {now, now + 1},
           \A s \in 0..now : \A way \in Ways : Let(way, s)' \in Nat /\ Let(way, s) <= Let(way, s)'
    PROVE  Refused(call[u])'
<1> DEFINE c == call[u]
<1>1. CASE ~(c.pc = "done" /\ c.reply.body = "limited")
  BY <1>1 DEF Refused
<1>2. CASE c.pc = "done" /\ c.reply.body = "limited"
  <2>1. PICK s \in 0..now : c.reading < s + Period /\ Limit <= Let(Limiter(c), s)
    BY <1>2 DEF Refused
  <2>2. Limiter(c) \in Ways
    BY DEF Limiter, Ways
  <2>3. s \in 0..now' /\ Limit \in Nat
    BY Quantities
  <2>4. Limit <= Let(Limiter(c), s)'
    BY <2>1, <2>2, <2>3, Quantities
  <2> QED
    BY <2>1, <2>3, <2>4 DEF Refused, Limiter
<1> QED
  BY <1>1, <1>2

LEMMA AdmitOne ==
    ASSUME RateType, NEW way \in Ways, Admit(way) \/ UNCHANGED admitted, now' = now, before' = before
    PROVE  /\ admitted' \in [Ways -> Nat]
           /\ \A s \in 0..now : \A w \in Ways :
                  /\ Let(w, s)' \in Nat /\ Let(w, s) <= Let(w, s)'
                  /\ before[s][w] <= admitted'[w]
                  /\ w # way => Let(w, s)' = Let(w, s)
                  /\ Admit(way) => Let(way, s)' = Let(way, s) + 1
                  /\ UNCHANGED admitted => Let(w, s)' = Let(w, s)
<1>1. admitted' \in [Ways -> Nat]
  BY DEF RateType, Admit
<1>2. \A w \in Ways : /\ admitted[w] \in Nat /\ admitted'[w] \in Nat /\ admitted[w] <= admitted'[w]
                      /\ w # way => admitted'[w] = admitted[w]
                      /\ Admit(way) => admitted'[way] = admitted[way] + 1
  BY DEF RateType, Admit
<1>3. \A s \in 0..now : \A w \in Ways : before[s][w] \in Nat /\ before[s][w] <= admitted[w]
  BY Quantities
<1> QED
  BY <1>1, <1>2, <1>3 DEF Let

LEMMA TickRates ==
    ASSUME RateInv, Tick, UNCHANGED call
    PROVE  RateInv'
<1>0. RateType /\ WindowInv /\ CounterInv /\ Spent /\ RefusedInv
  BY DEF RateInv
<1>1. /\ now < MaxTime /\ now' = now + 1 /\ before' = [before EXCEPT ![now + 1] = admitted]
      /\ window' = window /\ counter' = counter /\ admitted' = admitted /\ call' = call
  BY DEF Tick
<1>2. now + 1 \in 0..MaxTime /\ 0..now \subseteq 0..now' /\ 0..now \subseteq 0..MaxTime
  BY <1>0, <1>1, Quantities
<1>3. \A s \in 0..now : before'[s] = before[s]
  BY <1>0, <1>1, <1>2, Quantities DEF RateType
<1>4. before'[now + 1] = admitted
  BY <1>0, <1>1, <1>2 DEF RateType
<1>5. \A s \in 0..now : \A way \in Ways : Let(way, s)' = Let(way, s) /\ Let(way, s)' \in Nat
  BY <1>0, <1>1, <1>3, Quantities DEF Let
<1>6. \A s : s = now + 1 => \A way \in Ways : Let(way, s)' = 0
  BY <1>0, <1>1, <1>4, Quantities DEF Let
<1>7. \A s \in Recent' : s \in Recent \/ s = now + 1
  BY <1>0, <1>1, Quantities DEF Recent
<1>8. RateType'
  <2>1. before' \in [0..MaxTime -> [Ways -> Nat]]
    BY <1>0, <1>1 DEF RateType
  <2>2. \A s \in 0..now', way \in Ways : before'[s][way] <= admitted'[way]
    <3> SUFFICES ASSUME NEW s \in 0..now', NEW way \in Ways PROVE before'[s][way] <= admitted[way]
      BY <1>1
    <3>1. s \in 0..now \/ s = now + 1
      BY <1>0, <1>1, Quantities
    <3>2. admitted[way] \in Nat
      BY <1>0, Quantities
    <3> QED
      BY <1>0, <1>3, <1>4, <3>1, <3>2, Quantities
  <2>3. window' \in [count : 0..(Limit + 1), start : 0..now']
    BY <1>0, <1>1, <1>2 DEF RateType
  <2>4. counter' \in [count : 0..(Limit + 1), expires : 0..(now' + Period)]
    <3>1. 0..(now + Period) \subseteq 0..(now' + Period)
      BY <1>0, <1>1, Quantities
    <3> QED
      BY <1>0, <1>1, <3>1 DEF RateType
  <2> QED
    BY <1>0, <1>1, <1>2, <2>1, <2>2, <2>3, <2>4 DEF RateType
<1>9. WindowInv'
  <2> SUFFICES ASSUME NEW s \in Recent'
      PROVE  WindowOk(s, window, Let("tools", s)', Cardinality(Threads), Cardinality(Late(s)))
    BY <1>1 DEF WindowInv, Late
  <2>1. CASE s \in Recent
    <3>1. s \in 0..now
      BY <1>0, <2>1, Quantities
    <3> QED
      BY <1>0, <1>5, <2>1, <3>1 DEF WindowInv, Ways
  <2>2. CASE s = now + 1
    <3>1. Late(s) \in SUBSET Threads
      BY DEF Late
    <3>2. Cardinality(Threads) \in Nat /\ Cardinality(Late(s)) \in 0..Cardinality(Threads)
      BY <3>1, Sizes
    <3>3. Let("tools", s)' = 0
      BY <1>6, <2>2 DEF Ways
    <3> QED
      BY <1>0, <3>2, <3>3, Quantities DEF WindowOk, Held
  <2> QED
    BY <1>7, <2>1, <2>2
<1>10. CounterInv'
  <2> SUFFICES ASSUME NEW s \in Recent'
      PROVE  CounterOk(now + 1, s, counter, Let("token", s)', Let("open", s)', Cardinality(Threads),
                       Cardinality(Waiting))
    BY <1>1 DEF CounterInv, Waiting
  <2>1. CASE s \in Recent
    <3>1. s \in 0..now
      BY <1>0, <2>1, Quantities
    <3>2. CounterOk(now, s, counter, Let("token", s), Let("open", s), Cardinality(Threads),
                    Cardinality(Waiting))
      BY <1>0, <2>1 DEF CounterInv
    <3>3. CounterOk(now, s, counter, Let("token", s)', Let("open", s)', Cardinality(Threads),
                    Cardinality(Waiting))
      BY <1>5, <3>1, <3>2 DEF Ways
    <3> QED
      BY <1>0, <3>3, Quantities DEF CounterOk
  <2>2. CASE s = now + 1
    <3>1. Waiting \in SUBSET Threads
      BY DEF Waiting
    <3>2. Cardinality(Threads) \in Nat /\ Cardinality(Waiting) \in 0..Cardinality(Threads)
      BY <3>1, Sizes
    <3>3. Let("token", s)' = 0 /\ Let("open", s)' = 0
      BY <1>6, <2>2 DEF Ways
    <3> QED
      BY <1>0, <3>2, <3>3, Quantities DEF CounterOk, Held
  <2> QED
    BY <1>7, <2>1, <2>2
<1>11. Spent'
  <2>0. \A s \in 0..now : s = window.start => Let("tools", s)' = Let("tools", window.start)
    BY <1>5 DEF Ways
  <2>1. window.count > 0 => Held(window'.count) <= Let("tools", window.start)'
    BY <1>0, <1>1, <2>0, Quantities DEF Spent, Let
  <2>2. counter.count > 0 =>
            \E s \in 0..now' : counter.expires = s + Period /\ Held(counter.count) <= Let("token", s)'
    BY <1>0, <1>2, <1>5 DEF Spent, Ways
  <2> QED
    BY <1>1, <2>1, <2>2 DEF Spent
<1>12. RefusedInv'
  <2>1. \A u \in Threads : Refused(call[u]) /\ call'[u] = call[u]
    BY <1>0, <1>1 DEF RefusedInv
  <2>2. \A s \in 0..now : \A way \in Ways : Let(way, s)' \in Nat /\ Let(way, s) <= Let(way, s)'
    BY <1>0, <1>5, Quantities
  <2>3. \A u \in Threads : Refused(call[u])'
    BY <1>0, <1>1, <2>1, <2>2, StillRefused
  <2> QED
    BY <2>3 DEF RefusedInv
<1> QED
  BY <1>8, <1>9, <1>10, <1>11, <1>12 DEF RateInv

LEMMA CountRates ==
    ASSUME RateInv, IInv, NEW t \in Threads, Count(t)
    PROVE  RateInv'
<1> DEFINE c == call[t]
           r == call[t].reading
           next == CountedWindow(r)
<1>0. RateType /\ WindowInv /\ CounterInv /\ Spent /\ RefusedInv
  BY DEF RateInv
<1>1. /\ c.pc = "count" /\ window' = next /\ now' = now /\ counter' = counter /\ before' = before
      /\ IF next.count <= Limit THEN Admit("tools") ELSE UNCHANGED admitted
      /\ IF next.count <= Limit THEN Goto(t, "dispatch") ELSE Audited(t, "deny", Throttled(c))
  BY DEF Count, AllowRequest
<1>2. /\ t \in DOMAIN call /\ DOMAIN c = CallFields /\ c.req.method # "token"
      /\ DOMAIN call = Threads
  BY <1>1, IsUnderway DEF Underway, IInv
<1>3. r \in 0..now
  BY <1>0, <1>1 DEF RateType
<1>4. /\ \A u \in Threads \ {t} : call'[u] = call[u]
      /\ call'[t].pc \notin {"count", "increment"}
      /\ call'[t].pc = "done" => next.count > Limit
      /\ call'[t].reading = r /\ call'[t].req = c.req
  <2>1. CASE next.count <= Limit
    <3>1. Goto(t, "dispatch")
      BY <1>1, <2>1
    <3> QED
      BY <1>2, <3>1 DEF Goto, CallFields
  <2>2. CASE ~(next.count <= Limit)
    <3>1. Audited(t, "deny", Throttled(c))
      BY <1>1, <2>2
    <3>2. next.count > Limit
      <4>1. next.count \in Nat
        BY <1>0, <1>3, Quantities DEF CountedWindow, OneMore, RateType
      <4> QED
        BY <1>0, <2>2, <4>1, Quantities
    <3> QED
      BY <1>2, <3>1, <3>2 DEF Audited, CallFields
  <2> QED
    BY <2>1, <2>2
<1>5. Follows(next, window, r)
  BY DEF CountedWindow, Passed, Follows
<1> HIDE DEF next, r, c
<1>6. /\ next \in [count : 0..(Limit + 1), start : 0..now] /\ next.count > 0
      /\ \/ next.count = 1 /\ next.start = r
         \/ next.count = OneMore(window.count) /\ next.start = window.start /\ window.count > 0
  <2>1. window \in [count : 0..(Limit + 1), start : 0..now]
    BY <1>0 DEF RateType
  <2>2. CASE r >= window.start + Period \/ window.count = 0
    BY <1>0, <1>3, <1>5, <2>2, Quantities DEF Follows
  <2>3. CASE ~(r >= window.start + Period \/ window.count = 0)
    <3>1. OneMore(window.count) \in 0..(Limit + 1) /\ OneMore(window.count) > 0
      BY <1>0, <2>3, Quantities DEF OneMore
    <3>2. next = [window EXCEPT !.count = OneMore(@)]
      BY <1>5, <2>3 DEF Follows
    <3> QED
      BY <1>0, <2>1, <2>3, <3>1, <3>2, Quantities
  <2> QED
    BY <2>2, <2>3
<1>7. /\ admitted' \in [Ways -> Nat]
      /\ \A s \in 0..now : \A w \in Ways :
             /\ Let(w, s)' \in Nat /\ Let(w, s) <= Let(w, s)' /\ before[s][w] <= admitted'[w]
             /\ w # "tools" => Let(w, s)' = Let(w, s)
      /\ \A s \in 0..now :
             Let("tools", s)' = IF next.count <= Limit THEN Let("tools", s) + 1 ELSE Let("tools", s)
  <2>1. "tools" \in Ways /\ (Admit("tools") \/ UNCHANGED admitted)
    BY <1>1 DEF Ways
  <2>2. CASE next.count <= Limit
    BY <1>0, <1>1, <2>1, <2>2, AdmitOne
  <2>3. CASE ~(next.count <= Limit)
    BY <1>0, <1>1, <2>1, <2>3, AdmitOne
  <2> QED
    BY <2>2, <2>3
<1>8. RateType'
  <2>1. \A u \in Threads : call'[u].pc = "count" => call'[u].reading \in 0..now
    BY <1>0, <1>4 DEF RateType
  <2> QED
    BY <1>0, <1>1, <1>6, <1>7, <2>1 DEF RateType
<1>9. WindowInv'
  <2> SUFFICES ASSUME NEW s \in Recent
      PROVE  WindowOk(s, next, Let("tools", s)', Cardinality(Threads), Cardinality(Late(s))')
    BY <1>1 DEF WindowInv, Recent
  <2> DEFINE after == {u \in Threads : call'[u].pc = "count" /\ call'[u].reading < s}
             all == Cardinality(Threads)
             late == Cardinality(Late(s))
  <2>1. s \in 0..now /\ s \in Nat /\ now < s + Period
    BY <1>0, Quantities
  <2>2. /\ Late(s) \in SUBSET Threads /\ Threads \in SUBSET Threads /\ Threads # {}
        /\ after = Late(s) \ {t} /\ after \in SUBSET Late(s)
        /\ r < s => t \in Late(s)
    BY <1>1, <1>4 DEF Late, c, r
  <2>3. /\ all \in Nat \ {0} /\ late \in 0..all /\ Cardinality(after) \in 0..late
        /\ r < s => Cardinality(after) = late - 1
    BY <2>2, Sizes
  <2>4. WindowOk(s, window, Let("tools", s), all, late)
    BY <1>0 DEF WindowInv
  <2>5. Let("tools", s) \in Nat /\ window \in [count : 0..(Limit + 1), start : Nat]
    BY <1>0, <2>1, Quantities DEF Ways, RateType
  <2>6. Let("tools", s)' = IF next.count <= Limit THEN Let("tools", s) + 1 ELSE Let("tools", s)
    BY <1>7, <2>1
  <2>7. Cardinality(Late(s))' = Cardinality(after)
    BY DEF Late
  <2>8. r \in Nat /\ r < s + Period
    BY <1>0, <1>3, <2>1, Quantities
  <2> HIDE DEF after, all, late
  <2>9. WindowOk(s, next, Let("tools", s)', all, Cardinality(after))
    BY <1>5, <2>1, <2>3, <2>4, <2>5, <2>6, <2>8, CountWindow
  <2> QED
    BY <2>7, <2>9 DEF all
<1>10. CounterInv'
  <2> SUFFICES ASSUME NEW s \in Recent
      PROVE  CounterOk(now, s, counter, Let("token", s)', Let("open", s)', Cardinality(Threads),
                       Cardinality(Waiting)')
    BY <1>1 DEF CounterInv, Recent
  <2>1. Waiting' = Waiting
    BY <1>1, <1>4 DEF Waiting, c
  <2>2. Let("token", s)' = Let("token", s) /\ Let("open", s)' = Let("open", s)
    BY <1>0, <1>7, Quantities DEF Ways
  <2> QED
    BY <1>0, <2>1, <2>2 DEF CounterInv
<1>11. \A s \in 0..now : s = next.start => Held(next.count) <= Let("tools", s)'
  <2> SUFFICES ASSUME NEW s \in 0..now, s = next.start PROVE Held(next.count) <= Let("tools", s)'
    OBVIOUS
  <2>1. /\ next.start \in 0..now /\ next.count \in 0..(Limit + 1)
        /\ Let("tools", next.start) \in Nat /\ Let("tools", window.start) \in Nat
    BY <1>0, <1>6, Quantities DEF Ways
  <2>2. Let("tools", s)' = IF next.count <= Limit THEN Let("tools", next.start) + 1
                           ELSE Let("tools", next.start)
    BY <1>7
  <2>3. CASE next.count = 1 /\ next.start = r
    BY <1>0, <2>1, <2>2, <2>3, Quantities DEF Held
  <2>4. CASE next.count = OneMore(window.count) /\ next.start = window.start /\ window.count > 0
    <3>1. Held(window.count) <= Let("tools", window.start)
      BY <1>0, <2>4 DEF Spent
    <3> QED
      BY <1>0, <2>1, <2>2, <2>4, <3>1, Quantities DEF Held, OneMore
  <2> QED
    BY <1>6, <2>3, <2>4
<1>12. Spent'
  <2>1. counter.count > 0 =>
            \E s \in 0..now : counter.expires = s + Period /\ Held(counter.count) <= Let("token", s)'
    BY <1>0, <1>7 DEF Spent, Ways
  <2>2. Held(window'.count) <= Let("tools", window.start)'
    BY <1>1, <1>6, <1>11 DEF Let
  <2> QED
    BY <1>1, <2>1, <2>2 DEF Spent
<1>13. RefusedInv'
  <2> SUFFICES ASSUME NEW u \in Threads PROVE Refused(call[u])'
    BY DEF RefusedInv
  <2>1. CASE u # t
    BY <1>0, <1>1, <1>4, <1>7, <2>1, StillRefused DEF RefusedInv
  <2>2. CASE u = t
    <3> SUFFICES ASSUME next.count > Limit
        PROVE  \E s \in 0..now : r < s + Period /\ Limit <= Let("tools", s)'
      BY <1>1, <1>2, <1>4, <2>2 DEF Refused, Limiter
    <3>1. next.count # 1 /\ next.count \in Nat
      BY <1>0, <1>6, Quantities
    <3>2. r < window.start + Period /\ next.start = window.start
      BY <1>0, <1>3, <1>5, <1>6, <3>1, Quantities DEF Follows
    <3>3. Held(next.count) = Limit
      BY DEF Held
    <3>4. next.start \in 0..now
      BY <1>6
    <3> QED
      BY <1>11, <3>2, <3>3, <3>4
  <2> QED
    BY <2>1, <2>2
<1> QED
  BY <1>8, <1>9, <1>10, <1>12, <1>13 DEF RateInv

\* A step of the token endpoint is one of a token request.
LEMMA TokenStep ==
    ASSUME IInv, NEW t \in Threads, call[t].pc \in {"add", "increment"}
    PROVE  /\ t \in DOMAIN call /\ DOMAIN call[t] = CallFields /\ call[t].req.method = "token"
           /\ DOMAIN call = Threads
  BY DEF IInv, CallInv, Idle, Underway

LEMMA AddRates ==
    ASSUME RateInv, IInv, NEW t \in Threads, Add(t)
    PROVE  RateInv'
<1> DEFINE next == IF now < counter.expires THEN counter
                   ELSE [count |-> 0, expires |-> now + Period]
<1>0. RateType /\ WindowInv /\ CounterInv /\ Spent /\ RefusedInv
  BY DEF RateInv
<1>1. /\ call[t].pc = "add" /\ Goto(t, "increment") /\ counter' = next /\ now' = now
      /\ window' = window /\ admitted' = admitted /\ before' = before
  BY DEF Add, AddCounter, Alive
<1>2. (\A u \in Threads \ {t} : call'[u] = call[u]) /\ call'[t].pc = "increment"
  BY <1>1, TokenStep DEF Goto, CallFields
<1>3. \A s : \A way : Let(way, s)' = Let(way, s)
  BY <1>1 DEF Let
<1>4. RateType'
  <2>1. next \in [count : 0..(Limit + 1), expires : 0..(now + Period)]
    BY <1>0, Quantities DEF RateType
  <2>2. next.expires = 0 \/ Period <= next.expires
    BY <1>0, Quantities DEF RateType
  <2> HIDE DEF next
  <2> QED
    BY <1>0, <1>1, <1>2, <2>1, <2>2 DEF RateType
<1>5. WindowInv'
  <2>1. \A s : Late(s)' = Late(s)
    BY <1>1, <1>2 DEF Late
  <2> QED
    BY <1>0, <1>1, <1>3, <2>1 DEF WindowInv, Recent
<1>6. CounterInv'
  <2> SUFFICES ASSUME NEW s \in Recent
      PROVE  CounterOk(now, s, next, Let("token", s), Let("open", s), Cardinality(Threads),
                       Cardinality(Waiting)')
    BY <1>1, <1>3 DEF CounterInv, Recent
  <2> DEFINE after == {u \in Threads : call'[u].pc = "increment"}
             all == Cardinality(Threads)
             waiting == Cardinality(Waiting)
  <2>1. s \in 0..now /\ now < s + Period /\ now \in Nat
    BY <1>0, Quantities
  <2>2. Waiting \in SUBSET Threads /\ after \in SUBSET Threads
    BY DEF Waiting
  <2>3. all \in Nat /\ waiting \in 0..all /\ Cardinality(after) \in 0..all
    BY <2>2, Sizes
  <2>4. CounterOk(now, s, counter, Let("token", s), Let("open", s), all, waiting)
    BY <1>0 DEF CounterInv
  <2>5. /\ Let("token", s) \in Nat /\ Let("open", s) \in Nat
        /\ counter \in [count : 0..(Limit + 1), expires : 0..(now + Period)]
    BY <1>0, <2>1, Quantities DEF Ways, RateType
  <2>6. Cardinality(Waiting)' = Cardinality(after)
    BY DEF Waiting
  <2> HIDE DEF after, all, waiting
  <2>7. CounterOk(now, s, next, Let("token", s), Let("open", s), all, Cardinality(after))
    BY <2>1, <2>3, <2>4, <2>5, AddToCounter
  <2> QED
    BY <2>6, <2>7 DEF all
<1>7. Spent'
  <2>1. next.count > 0 =>
            \E s \in 0..now : next.expires = s + Period /\ Held(next.count) <= Let("token", s)
    BY <1>0, Quantities DEF Spent
  <2> HIDE DEF next
  <2> QED
    BY <1>0, <1>1, <2>1 DEF Spent, Let
<1>8. RefusedInv'
  <2>1. Refused(call[t])'
    BY <1>2 DEF Refused
  <2>2. \A u \in Threads \ {t} : Refused(call[u])'
    BY <1>0, <1>1, <1>2, <1>3, Quantities, StillRefused DEF RefusedInv
  <2> QED
    BY <2>1, <2>2 DEF RefusedInv
<1> QED
  BY <1>4, <1>5, <1>6, <1>7, <1>8 DEF RateInv

LEMMA IncrementRates ==
    ASSUME RateInv, IInv, NEW t \in Threads, Increment(t)
    PROVE  RateInv'
<1> DEFINE c == call[t]
           next == [counter EXCEPT !.count = OneMore(@)]
           reply == IF Alive /\ counter'.count > Limit
                    THEN [Limited EXCEPT !.status = 429] ELSE Answer("result", 200)
<1>0. RateType /\ WindowInv /\ CounterInv /\ Spent /\ RefusedInv
  BY DEF RateInv
<1>1. /\ c.pc = "increment" /\ now' = now /\ window' = window /\ before' = before
      /\ \/ /\ Alive /\ counter' = next
            /\ IF next.count <= Limit THEN Admit("token") ELSE UNCHANGED admitted
         \/ ~Alive /\ counter' = counter /\ Admit("open")
      /\ call' = [call EXCEPT ![t].pc = "done", ![t].reading = now, ![t].reply = reply]
  BY DEF Increment, IncrementCounter
<1>2. t \in DOMAIN call /\ DOMAIN c = CallFields /\ c.req.method = "token" /\ DOMAIN call = Threads
  BY <1>1, TokenStep
<1> DEFINE d == [c EXCEPT !.pc = "done", !.reading = now, !.reply = reply]
<1>3. call' = [call EXCEPT ![t] = d]
  BY <1>1, <1>2 DEF CallFields
<1>4. d.pc = "done" /\ d.reading = now /\ d.reply = reply /\ d.req = c.req
  BY <1>2 DEF CallFields
<1>5. reply.body = "limited" => Alive /\ counter'.count > Limit
  BY DEF Answer, None
<1> HIDE DEF d, reply
<1>6. (\A u \in Threads \ {t} : call'[u] = call[u]) /\ call'[t] = d
  BY <1>2, <1>3
<1>7. /\ counter \in [count : 0..(Limit + 1), expires : 0..(now + Period)]
      /\ next.count = OneMore(counter.count) /\ next.expires = counter.expires
      /\ next \in [count : 0..(Limit + 1), expires : 0..(now + Period)]
      /\ next.count > 0
  <2>1. counter \in [count : 0..(Limit + 1), expires : 0..(now + Period)]
    BY <1>0 DEF RateType
  <2>2. OneMore(counter.count) \in 0..(Limit + 1) /\ OneMore(counter.count) > 0
    BY <1>0, Quantities DEF OneMore
  <2> QED
    BY <2>1, <2>2
<1> HIDE DEF next, c
<1>8. /\ admitted' \in [Ways -> Nat]
      /\ \A s \in 0..now : \A w \in Ways :
             /\ Let(w, s)' \in Nat /\ Let(w, s) <= Let(w, s)' /\ before[s][w] <= admitted'[w]
             /\ w = "tools" => Let(w, s)' = Let(w, s)
      /\ Alive => \A s \in 0..now :
             /\ Let("open", s)' = Let("open", s)
             /\ Let("token", s)' = IF next.count <= Limit THEN Let("token", s) + 1 ELSE Let("token", s)
      /\ ~Alive => \A s \in 0..now :
             Let("open", s)' = Let("open", s) + 1 /\ Let("token", s)' = Let("token", s)
  <2>0. "tools" \in Ways /\ "token" \in Ways /\ "open" \in Ways
    BY DEF Ways
  <2>1. CASE Alive /\ next.count <= Limit
    <3>1. Admit("token")
      BY <1>1, <2>1
    <3> QED
      BY <1>0, <1>1, <2>0, <2>1, <3>1, AdmitOne
  <2>2. CASE Alive /\ ~(next.count <= Limit)
    <3>1. UNCHANGED admitted
      BY <1>1, <2>2
    <3> QED
      BY <1>0, <1>1, <2>0, <2>2, <3>1, AdmitOne
  <2>3. CASE ~Alive
    <3>1. Admit("open")
      BY <1>1, <2>3
    <3> QED
      BY <1>0, <1>1, <2>0, <2>3, <3>1, AdmitOne
  <2> QED
    BY <2>1, <2>2, <2>3
<1>9. RateType'
  <2>1. /\ counter' \in [count : 0..(Limit + 1), expires : 0..(now + Period)]
        /\ counter'.expires = 0 \/ Period <= counter'.expires
    BY <1>0, <1>1, <1>7 DEF RateType
  <2>2. \A u \in Threads : call'[u].pc = "count" => call'[u].reading \in 0..now
    BY <1>0, <1>4, <1>6 DEF RateType
  <2> QED
    BY <1>0, <1>1, <1>8, <2>1, <2>2 DEF RateType
<1>10. WindowInv'
  <2>1. \A s : Late(s)' = Late(s)
    BY <1>1, <1>4, <1>6 DEF Late, c
  <2>2. \A s \in Recent : Let("tools", s)' = Let("tools", s)
    BY <1>0, <1>8, Quantities DEF Ways
  <2> QED
    BY <1>0, <1>1, <2>1, <2>2 DEF WindowInv, Recent
<1>11. CounterInv'
  <2> SUFFICES ASSUME NEW s \in Recent
      PROVE  CounterOk(now, s, counter', Let("token", s)', Let("open", s)', Cardinality(Threads),
                       Cardinality(Waiting)')
    BY <1>1 DEF CounterInv, Recent
  <2> DEFINE after == {u \in Threads : call'[u].pc = "increment"}
             all == Cardinality(Threads)
             waiting == Cardinality(Waiting)
  <2>1. s \in 0..now /\ now < s + Period /\ now \in Nat
    BY <1>0, Quantities
  <2>2. /\ Waiting \in SUBSET Threads /\ Threads \in SUBSET Threads /\ Waiting # {}
        /\ after = Waiting \ {t} /\ t \in Waiting
    BY <1>1, <1>4, <1>6 DEF Waiting, c
  <2>3. all \in Nat /\ waiting \in 1..all /\ Cardinality(after) = waiting - 1
    BY <2>2, Sizes
  <2>4. CounterOk(now, s, counter, Let("token", s), Let("open", s), all, waiting)
    BY <1>0 DEF CounterInv
  <2>5. Let("token", s) \in Nat /\ Let("open", s) \in Nat
    BY <1>0, <2>1, Quantities DEF Ways
  <2>6. Cardinality(Waiting)' = waiting - 1
    BY <2>3 DEF Waiting
  <2> HIDE DEF after, all, waiting
  <2>7. /\ Alive => CounterOk(now, s, next,
                              IF next.count <= Limit THEN Let("token", s) + 1 ELSE Let("token", s),
                              Let("open", s), all, waiting - 1)
        /\ ~Alive => CounterOk(now, s, counter, Let("token", s), Let("open", s) + 1, all, waiting - 1)
    BY <1>7, <2>1, <2>3, <2>4, <2>5, IncrementOfCounter DEF Alive, next
  <2>8. CASE Alive
    <3>1. counter' = next
      BY <1>1, <2>8
    <3> QED
      BY <1>8, <2>1, <2>6, <2>7, <2>8, <3>1 DEF all
  <2>9. CASE ~Alive
    <3>1. counter' = counter
      BY <1>1, <2>9
    <3> QED
      BY <1>8, <2>1, <2>6, <2>7, <2>9, <3>1 DEF all
  <2> QED
    BY <2>8, <2>9
<1>12. counter'.count > 0 =>
           \E s \in 0..now : counter'.expires = s + Period /\ Held(counter'.count) <= Let("token", s)'
  <2>1. CASE ~Alive
    <3> SUFFICES ASSUME counter.count > 0
        PROVE  \E s \in 0..now : counter.expires = s + Period /\ Held(counter.count) <= Let("token", s)'
      BY <1>1, <2>1
    <3>1. PICK s \in 0..now : counter.expires = s + Period /\ Held(counter.count) <= Let("token", s)
      BY <1>0 DEF Spent
    <3> QED
      BY <1>8, <2>1, <3>1
  <2>2. CASE Alive
    <3> SUFFICES \E s \in 0..now : counter.expires = s + Period /\ Held(next.count) <= Let("token", s)'
      BY <1>1, <1>7, <2>2
    <3>1. CASE counter.count > 0
      <4>1. PICK s \in 0..now : counter.expires = s + Period /\ Held(counter.count) <= Let("token", s)
        BY <1>0, <3>1 DEF Spent
      <4>2. Let("token", s) \in Nat
        BY <1>0, Quantities DEF Ways
      <4>3. Held(next.count) <= Let("token", s)'
        BY <1>0, <1>7, <1>8, <2>2, <4>1, <4>2, Quantities DEF Held, OneMore
      <4> QED
        BY <4>1, <4>3
    <3>2. CASE ~(counter.count > 0)
      <4>1. counter.count = 0 /\ next.count = 1
        BY <1>0, <1>7, <3>2, Quantities DEF OneMore
      <4>2. PICK s \in 0..now : counter.expires = s + Period
        <5>1. now < counter.expires
          BY <2>2 DEF Alive
        <5>2. counter.expires - Period \in 0..now /\ counter.expires = (counter.expires - Period) + Period
          BY <1>0, <5>1, Quantities DEF RateType
        <5> QED
          BY <5>2
      <4>3. Let("token", s) \in Nat /\ Let("token", s)' = Let("token", s) + 1
        BY <1>0, <1>8, <2>2, <4>1, Quantities DEF Ways
      <4> QED
        BY <1>0, <4>1, <4>2, <4>3, Quantities DEF Held
    <3> QED
      BY <3>1, <3>2
  <2> QED
    BY <2>1, <2>2
<1>13. Spent'
  <2>1. window.count > 0 => \A s \in 0..now : s = window.start => Held(window.count) <= Let("tools", s)'
    BY <1>0, <1>8, Quantities DEF Spent, Ways
  <2>2. window.count > 0 => Held(window'.count) <= Let("tools", window.start)'
    BY <1>0, <1>1, <2>1, Quantities DEF Let
  <2> QED
    BY <1>1, <1>12, <2>2 DEF Spent
<1>14. RefusedInv'
  <2> SUFFICES ASSUME NEW u \in Threads PROVE Refused(call[u])'
    BY DEF RefusedInv
  <2>1. CASE u # t
    BY <1>0, <1>1, <1>6, <1>8, <2>1, StillRefused DEF RefusedInv
  <2>2. CASE u = t
    <3>0. /\ call'[t].pc = "done" /\ call'[t].reading = now /\ call'[t].req.method = "token"
          /\ call'[t].reply = reply
      BY <1>2, <1>4, <1>6 DEF c
    <3> SUFFICES ASSUME reply.body = "limited"
        PROVE  \E s \in 0..now : now < s + Period /\ Limit <= Let("token", s)'
      BY <1>1, <2>2, <3>0 DEF Refused, Limiter
    <3>1. Alive /\ counter' = next /\ next.count > Limit
      BY <1>1, <1>5
    <3>2. PICK s \in 0..now : counter.expires = s + Period /\ Held(next.count) <= Let("token", s)'
      BY <1>7, <1>12, <3>1
    <3>3. Held(next.count) = Limit /\ now < counter.expires
      BY <3>1 DEF Held, Alive
    <3> QED
      BY <3>2, <3>3
  <2> QED
    BY <2>1, <2>2
<1> QED
  BY <1>9, <1>10, <1>11, <1>13, <1>14 DEF RateInv

LEMMA InitRates == Init => RateInv
<1> SUFFICES ASSUME Init PROVE RateInv
  OBVIOUS
<1>1. /\ now = 0 /\ window = [count |-> 0, start |-> 0] /\ counter = [count |-> 0, expires |-> 0]
      /\ admitted = [way \in Ways |-> 0] /\ before = [s \in 0..MaxTime |-> admitted]
      /\ \A t \in Threads : call[t] = [pc |-> "idle"]
  BY DEF Init, RateInit, Ways, Idle
<1>2. RateType
  BY <1>1, RateAssumption DEF RateType
<1>3. \A s \in Recent : \A way \in Ways : Let(way, s) = 0
  BY <1>1, <1>2, RateAssumption DEF Let, Recent
<1>4. Late(0) = {} /\ Waiting = {} /\ Cardinality({}) = 0 /\ Cardinality(Threads) \in Nat
  BY <1>1, Sizes, FS_EmptySet DEF Late, Waiting
<1>5. \A s \in Recent : s = 0
  BY <1>1, RateAssumption DEF Recent
<1>6. WindowInv
  BY <1>1, <1>3, <1>4, <1>5, RateAssumption DEF WindowInv, WindowOk, Held, Ways
<1>7. CounterInv
  BY <1>1, <1>3, <1>4, <1>5, RateAssumption DEF CounterInv, CounterOk, Held, Ways
<1>8. Spent /\ RefusedInv
  BY <1>1 DEF Spent, RefusedInv, Refused
<1> QED
  BY <1>2, <1>6, <1>7, <1>8 DEF RateInv

LEMMA StepRates == RateInv /\ IInv /\ [Next]_vars => RateInv'
<1> SUFFICES ASSUME RateInv, IInv, [Next]_vars PROVE RateInv'
  OBVIOUS
<1>1. ASSUME NEW t \in Threads, NEW req, Arrive(t, req) PROVE RateInv'
  <2>1. UNCHANGED rateVars
    BY <1>1 DEF Arrive
  <2> QED
    BY <1>1, <2>1, ArrivePasses, PassingKeeps
<1>2. ASSUME NEW t \in Threads, Step(t) PROVE RateInv'
  <2>1. CASE Count(t) \/ Add(t) \/ Increment(t)
    BY <2>1, CountRates, AddRates, IncrementRates
  <2>2. CASE ~(Count(t) \/ Add(t) \/ Increment(t))
    BY <1>2, <2>2, OthersPass, PassingKeeps DEF Step
  <2> QED
    BY <2>1, <2>2
<1>3. CASE UNCHANGED <<rateVars, call>>
  BY <1>3 DEF RateInv, RateType, WindowInv, CounterInv, Spent, RefusedInv, rateVars, Recent, Late,
              Waiting, Let, Refused, Limiter
<1>4. CASE Tick /\ UNCHANGED call
  BY <1>4, TickRates
<1> QED
  BY <1>1, <1>2, <1>3, <1>4 DEF Next, vars, Register

\* However the threads interleave, the two limiters let through no more than the limit and
\* what stalled threads add to it, and refuse nobody before the limit is spent
\* (allow_request, _token_rate_limit_exceeded).
THEOREM LimitsHold == Spec => []LimitsAreKept
<1>1. RateInv => LimitsAreKept
  <2> SUFFICES ASSUME RateInv PROVE LimitsAreKept
    OBVIOUS
  <2>0. RateType /\ WindowInv /\ CounterInv /\ RefusedInv
    BY DEF RateInv
  <2>1. ASSUME NEW s \in Recent
        PROVE  /\ Let("tools", s) <= 2 * Limit + (Cardinality(Threads) - 1)
               /\ Let("token", s) <= 2 * Limit
               /\ Let("open", s) <= Cardinality(Threads)
    <3> DEFINE all == Cardinality(Threads)
               late == Cardinality(Late(s))
               waiting == Cardinality(Waiting)
               tools == Let("tools", s)
               token == Let("token", s)
               open == Let("open", s)
    <3>1. Threads \in SUBSET Threads /\ Late(s) \in SUBSET Threads /\ Waiting \in SUBSET Threads
      BY DEF Late, Waiting
    <3>2. all \in Nat /\ late \in 0..all /\ waiting \in 0..all
      BY <3>1, Sizes
    <3>3. s \in 0..now /\ tools \in Nat /\ token \in Nat /\ open \in Nat
      BY <2>0, Quantities DEF Ways
    <3>4. WindowOk(s, window, tools, all, late) /\ CounterOk(now, s, counter, token, open, all, waiting)
      BY <2>0 DEF WindowInv, CounterInv
    <3>5. Held(window.count) \in 0..Limit /\ Held(counter.count) \in 0..Limit
      BY <2>0, Quantities DEF Held
    <3> HIDE DEF all, late, waiting, tools, token, open
    <3>6. token <= 2 * Limit /\ open <= all
      BY <2>0, <3>2, <3>3, <3>4, <3>5, Quantities DEF CounterOk
    <3>7. tools <= 2 * Limit + (all - 1)
      BY <2>0, <3>2, <3>3, <3>4, <3>5, Quantities DEF WindowOk
    <3> QED
      BY <3>6, <3>7 DEF all, tools, token, open
  <2>2. \A t \in Threads :
            LET c == call[t]
                limiter == IF c.req.method = "token" THEN "token" ELSE "tools"
            IN  Over(c) /\ c.reply.body = "limited" =>
                    \E s \in 0..now : c.reading < s + Period /\ Let(limiter, s) >= Limit
    <3> SUFFICES ASSUME NEW t \in Threads, Over(call[t]), call[t].reply.body = "limited"
        PROVE  \E s \in 0..now : /\ call[t].reading < s + Period
                                 /\ Let(IF call[t].req.method = "token" THEN "token" ELSE "tools", s)
                                        >= Limit
      OBVIOUS
    <3>1. PICK s \in 0..now :
              call[t].reading < s + Period /\ Limit <= Let(Limiter(call[t]), s)
      BY <2>0 DEF RefusedInv, Refused, Over
    <3>2. Limiter(call[t]) \in Ways
      BY DEF Limiter, Ways
    <3>3. Let(Limiter(call[t]), s) >= Limit
      BY <2>0, <3>1, <3>2, Quantities
    <3> QED
      BY <3>1, <3>3 DEF Limiter
  <2> QED
    BY <2>1, <2>2 DEF LimitsAreKept
<1>2. IInv /\ RateInv /\ [Next]_vars => (IInv /\ RateInv)'
  BY StepKeeps, StepRates
<1> QED
  BY <1>1, <1>2, InitInv, InitRates, PTL DEF Spec
=============================================================================
