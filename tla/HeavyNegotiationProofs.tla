----------------------- MODULE HeavyNegotiationProofs -----------------------
(* Theorems about HeavyNegotiation, for any tools, routes, callers, users,   *)
(* threads and tokens, and any number of changes by the operator.            *)
EXTENDS HeavyNegotiation, TLAPS

-----------------------------------------------------------------------------
(* Type correctness.                                                        *)

LEMMA LesserType ==
  ASSUME NEW a \in Tiers, NEW b \in Tiers
  PROVE  Lesser(a, b) \in Tiers
  BY DEF Lesser

LEMMA AskedType ==
  ASSUME NEW tool \in Tools
  PROVE  Asked(tool) \subseteq Actions \cup {Help, NoAction}
  <1>1. KindOf[tool] \in {"flat", "group", "class"} /\ ActionsOf[tool] \subseteq Actions
    BY NegotiationAssumption
  <1> QED
    BY <1>1 DEF Asked

LEMMA InitType == Init => TypeOK
  <1> SUFFICES ASSUME Init PROVE TypeOK
    OBVIOUS
  <1>1. TopTier \in Tiers
    BY NegotiationAssumption DEF Tiers
  <1>2. ActionsOf \in View
    BY NegotiationAssumption DEF View
  <1>3. call \in [Handlers -> Call \cup {Idle}]
    BY DEF Init
  <1> QED
    BY <1>1, <1>2, <1>3, NegotiationAssumption DEF Init, TypeOK, Nothing

LEMMA RememberType ==
  ASSUME TypeOK, Remember, surface' \in [Routes -> View],
         held' \in [Users -> SUBSET Actions],
         call' \in [Handlers -> Call \cup {Idle}]
  PROVE  witness' \in [Handlers -> [exposed: SUBSET Actions, held: SUBSET Actions]]
  <1>1. ASSUME NEW h \in Handlers, call'[h].pc # "idle"
        PROVE  /\ surface'[call'[h].route][call'[h].tool] \in SUBSET Actions
               /\ call'[h].user \in Users
    <2>1. call'[h] \in Call
      BY <1>1 DEF Idle
    <2>2. call'[h].route \in Routes /\ call'[h].tool \in Tools /\ call'[h].user \in Users
      BY <2>1 DEF Call
    <2>3. surface'[call'[h].route] \in [Tools -> SUBSET Actions]
      BY <2>2 DEF View
    <2> QED
      BY <2>2, <2>3
  <1> DEFINE Grown(h) ==
        [exposed |-> witness[h].exposed \cup surface'[call'[h].route][call'[h].tool],
         held |-> witness[h].held \cup
           IF call'[h].user \in Unrestricted THEN Actions ELSE held'[call'[h].user]]
  <1>2. ASSUME NEW h \in Handlers, call'[h].pc # "idle"
        PROVE  Grown(h) \in [exposed: SUBSET Actions, held: SUBSET Actions]
    <2>1. witness[h].exposed \subseteq Actions /\ witness[h].held \subseteq Actions
      BY DEF TypeOK
    <2> QED
      BY <1>1, <1>2, <2>1
  <1>3. Nothing \in [exposed: SUBSET Actions, held: SUBSET Actions]
    BY DEF Nothing
  <1>4. witness' = [h \in Handlers |-> IF call'[h].pc = "idle" THEN Nothing ELSE Grown(h)]
    BY DEF Remember
  <1> HIDE DEF Grown
  <1> QED
    BY <1>2, <1>3, <1>4

LEMMA BeginType ==
  ASSUME TypeOK, NEW h \in Handlers, NEW c \in Callers, NEW route \in Routes,
         NEW tool \in Tools, NEW asked \in Asked(tool) \cup {NoAction},
         NEW token \in Tokens \cup {None}, Begin(h, c, route, tool, asked, token)
  PROVE  call' \in [Handlers -> Call \cup {Idle}]
  <1>1. asked \in Actions \cup {Help, NoAction}
    BY AskedType
  <1>2. tier[c] \in Tiers /\ Ceiling[route] \in Tiers /\ user[c] \in Users
        /\ surface[route] \in View /\ edits \in Nat
    BY NegotiationAssumption DEF TypeOK
  <1>3. Lesser(tier[c], Ceiling[route]) \in Tiers
    BY <1>2, LesserType
  <1>4. [pc |-> "gate", caller |-> c, route |-> route, tool |-> tool, asked |-> asked,
         token |-> token, tier |-> Lesser(tier[c], Ceiling[route]), user |-> user[c],
         view |-> surface[route], conn |-> None, since |-> edits] \in Call
    BY <1>1, <1>2, <1>3 DEF Call
  <1> QED
    BY <1>4 DEF TypeOK, Begin

LEMMA FinishType ==
  ASSUME TypeOK, NEW h \in Handlers, Finish(h)
  PROVE  call' \in [Handlers -> Call \cup {Idle}]
  BY DEF TypeOK, Finish

LEMMA BusyType ==
  ASSUME TypeOK, NEW h \in Handlers, call[h].pc # "idle"
  PROVE  call[h] \in Call
  BY DEF TypeOK, Idle

LEMMA GateType ==
  ASSUME TypeOK, NEW h \in Handlers, Gate(h)
  PROVE  call' \in [Handlers -> Call \cup {Idle}]
  <1>1. call[h] \in Call
    BY BusyType DEF Gate
  <1>2. CASE Finish(h)
    BY <1>2, FinishType
  <1>3. CASE ~Finish(h)
    <2> DEFINE step == IF call[h].token = None THEN "dispatch" ELSE "redeem"
    <2>1. linked[call[h].caller] \in Conns \cup {None}
      BY <1>3 DEF Gate
    <2>2. [call[h] EXCEPT !.conn = linked[call[h].caller], !.pc = step] \in Call
      BY <1>1, <2>1 DEF Call
    <2>3. call' = [call EXCEPT ![h] =
                    [call[h] EXCEPT !.conn = linked[call[h].caller], !.pc = step]]
      BY <1>3 DEF Gate, TypeOK
    <2> HIDE DEF step
    <2> QED
      BY <2>2, <2>3 DEF TypeOK
  <1> QED
    BY <1>2, <1>3

LEMMA StepType ==
  ASSUME TypeOK, NEW h \in Handlers, call[h].pc # "idle",
         NEW step \in {"mint", "served"}, call' = [call EXCEPT ![h].pc = step]
  PROVE  call' \in [Handlers -> Call \cup {Idle}]
  <1>1. [call[h] EXCEPT !.pc = step] \in Call
    BY BusyType DEF Call
  <1> QED
    BY <1>1 DEF TypeOK

LEMMA MintType ==
  ASSUME TypeOK, NEW h \in Handlers, NEW token \in Tokens, Mint(h, token)
  PROVE  continuation' \in [Tokens -> Entry \cup {NoEntry}]
  <1> DEFINE c == call[h]
  <1>1. c \in Call
    BY BusyType DEF Mint
  <1>2. [owner |-> OwnerKey(c), tool |-> c.tool, target |-> Resolved(c),
         minter |-> c.caller, mintTier |-> c.tier, mintUser |-> c.user,
         route |-> c.route, conn |-> c.conn, since |-> c.since] \in Entry
    BY <1>1 DEF Call, Entry, Owner, OwnerKey, Resolved
  <1> QED
    BY <1>2 DEF TypeOK, Mint

LEMMA EditType ==
  ASSUME TypeOK, Edit
  PROVE  /\ tier' \in [Callers -> Tiers] /\ user' \in [Callers -> Users]
         /\ held' \in [Users -> SUBSET Actions]
         /\ linked' \in [Callers -> Conns \cup {None, Inactive}]
         /\ surface' \in [Routes -> View]
         /\ edits' \in Nat
  <1>1. edits' \in Nat
    BY DEF Edit, TypeOK
  <1>2. ASSUME NEW c \in Callers, NEW t \in Tiers, tier' = [tier EXCEPT ![c] = t]
        PROVE tier' \in [Callers -> Tiers]
    BY <1>2 DEF TypeOK
  <1>3. ASSUME NEW c \in Callers, NEW u \in Users, user' = [user EXCEPT ![c] = u]
        PROVE user' \in [Callers -> Users]
    BY <1>3 DEF TypeOK
  <1>4. ASSUME NEW u \in Users, NEW action \in Actions,
               held' = [held EXCEPT ![u] = Toggle(@, action)]
        PROVE held' \in [Users -> SUBSET Actions]
    BY <1>4 DEF TypeOK, Toggle
  <1>5. ASSUME NEW c \in Callers, NEW link \in Conns \cup {None, Inactive},
               linked' = [linked EXCEPT ![c] = link]
        PROVE linked' \in [Callers -> Conns \cup {None, Inactive}]
    BY <1>5 DEF TypeOK
  <1>6. ASSUME NEW r \in Routes, NEW t \in Tools, NEW exposed \in SUBSET Actions,
               surface' = [surface EXCEPT ![r][t] = exposed], surface'[r] \in View
        PROVE surface' \in [Routes -> View]
    BY <1>6 DEF TypeOK
  <1> QED
    BY <1>1, <1>2, <1>3, <1>4, <1>5, <1>6 DEF Edit, TypeOK

LEMMA HandlerStepType ==
  ASSUME TypeOK, NEW h \in Handlers, Gate(h) \/ Dispatch(h) \/ Redeem(h) \/ Return(h)
  PROVE  call' \in [Handlers -> Call \cup {Idle}] /\ UNCHANGED <<worldVars, continuation, edits>>
  <1>1. CASE Gate(h)
    BY <1>1, GateType DEF Gate
  <1>2. CASE Dispatch(h)
    BY <1>2, StepType, FinishType DEF Dispatch
  <1>3. CASE Redeem(h)
    BY <1>3, StepType, FinishType DEF Redeem
  <1>4. CASE Return(h)
    BY <1>4, FinishType DEF Return
  <1> QED
    BY <1>1, <1>2, <1>3, <1>4

LEMMA NextType == TypeOK /\ [Next]_vars => TypeOK'
  <1> SUFFICES ASSUME TypeOK, [Next]_vars PROVE TypeOK'
    OBVIOUS
  <1> USE RememberType
  <1>1. CASE \E h \in Handlers, c \in Callers, route \in Routes, tool \in Tools :
               \/ \E asked \in Asked(tool) : Begin(h, c, route, tool, asked, None)
               \/ \E token \in Tokens : Begin(h, c, route, tool, NoAction, token)
    <2>1. call' \in [Handlers -> Call \cup {Idle}]
      BY <1>1, BeginType
    <2>2. UNCHANGED <<worldVars, continuation, edits>> /\ Remember
      BY <1>1 DEF Begin
    <2> QED
      BY <2>1, <2>2 DEF TypeOK, worldVars
  <1>2. ASSUME NEW h \in Handlers, Gate(h) \/ Dispatch(h) \/ Redeem(h) \/ Return(h)
        PROVE  TypeOK'
    <2>1. Remember
      BY <1>2 DEF Gate, Dispatch, Redeem, Return
    <2> QED
      BY <1>2, <2>1, HandlerStepType DEF TypeOK, worldVars
  <1>3. ASSUME NEW h \in Handlers, NEW token \in Tokens, Mint(h, token)
        PROVE  TypeOK'
    <2>1. continuation' \in [Tokens -> Entry \cup {NoEntry}]
      BY <1>3, MintType
    <2>2. call' \in [Handlers -> Call \cup {Idle}]
      BY <1>3, FinishType DEF Mint
    <2>3. UNCHANGED <<worldVars, edits>> /\ Remember
      BY <1>3 DEF Mint
    <2> QED
      BY <2>1, <2>2, <2>3 DEF TypeOK, worldVars
  <1>4. ASSUME NEW token \in Tokens, Expire(token)
        PROVE  TypeOK'
    <2>1. continuation' \in [Tokens -> Entry \cup {NoEntry}]
      BY <1>4 DEF Expire, TypeOK
    <2> QED
      BY <1>4, <2>1 DEF Expire, TypeOK, worldVars
  <1>5. CASE Edit
    <2>1. UNCHANGED <<continuation, call>> /\ Remember
      BY <1>5 DEF Edit
    <2> QED
      BY <1>5, <2>1, EditType DEF TypeOK
  <1>6. CASE UNCHANGED vars
    BY <1>6 DEF vars, worldVars, TypeOK
  <1> QED
    BY <1>1, <1>2, <1>3, <1>4, <1>5, <1>6 DEF Next

\* Every variable of the negotiation keeps its type: owners, entries, calls and
\* the operator's tables.
THEOREM TypeCorrect == Spec => []TypeOK
  BY InitType, NextType, PTL DEF Spec

-----------------------------------------------------------------------------
(* The inductive invariant: what a call and an entry remember is what was in *)
(* force at their count of edits, and a redemption starts after its entry.    *)

Busy(h) == call[h].pc # "idle"

\* A call that no edit has overtaken works with what is in force.
Fresh(h) ==
  /\ call[h].since <= edits
  /\ call[h].since = edits =>
       /\ call[h].tier = Lesser(tier[call[h].caller], Ceiling[call[h].route])
       /\ call[h].user = user[call[h].caller]
       /\ call[h].view = surface[call[h].route]

\* Whatever is about to be minted has been called.
Ran(h) ==
  call[h].pc = "mint" =>
    LET c == call[h] IN
    /\ c.view[c.tool] # {}
    /\ c.asked \in Actions => c.asked \in c.view[c.tool] /\ TierOf[c.asked] <= c.tier

\* The history of a call covers what it works with.
Recorded(h) ==
  /\ call[h].view[call[h].tool] \subseteq witness[h].exposed
  /\ (IF call[h].user \in Unrestricted THEN Actions ELSE held[call[h].user])
       \subseteq witness[h].held

\* A redemption begins when its entry is there, so after the call that minted it.
Later(h) ==
  /\ call[h].pc \in {"redeem", "served"} => call[h].token \in Tokens
  /\ call[h].token \in Tokens /\ continuation[call[h].token] # NoEntry
       => continuation[call[h].token].since <= call[h].since

\* The key of an entry is its history, and an entry that no edit has overtaken
\* was minted from what is in force.
Minted(k) ==
  LET e == continuation[k] IN
  /\ e.owner = [tool |-> e.tool, caller |-> e.minter, tier |-> e.mintTier, user |-> e.mintUser]
  /\ e.since <= edits
  /\ e.since = edits =>
       /\ e.mintTier = Lesser(tier[e.minter], Ceiling[e.route])
       /\ e.mintUser = user[e.minter]
       /\ surface[e.route][e.tool] # {}
       /\ e.target \in Actions =>
            e.target \in surface[e.route][e.tool] /\ TierOf[e.target] <= e.mintTier

Calls == \A h \in Handlers : Busy(h) => Fresh(h) /\ Ran(h) /\ Recorded(h) /\ Later(h)
Entries == \A k \in Tokens : continuation[k] # NoEntry => Minted(k)
IInv == TypeOK /\ Calls /\ Entries

LEMMA InitInvariant == Init => IInv
  BY InitType DEF Init, IInv, Calls, Entries, Busy, Idle

\* h goes on with the request it came in with.
Continues(h) ==
  /\ Busy(h)
  /\ \A f \in {"caller", "route", "tool", "asked", "token", "tier", "user", "view", "since"} :
       call'[h][f] = call[h][f]

\* What Remember adds suffices for Recorded.
LEMMA RecordedStep ==
  ASSUME TypeOK, Remember, NEW h \in Handlers, Busy(h)',
         call'[h].view[call'[h].tool]
           \subseteq witness[h].exposed \cup surface'[call'[h].route][call'[h].tool]
  PROVE  Recorded(h)'
  BY DEF Remember, Recorded, Busy

\* A call that goes on while the tables stay keeps all but what its new step asks.
LEMMA ContinuesStep ==
  ASSUME IInv, Remember, NEW h \in Handlers, Continues(h), Busy(h)',
         UNCHANGED <<worldVars, edits>>
  PROVE  Fresh(h)' /\ Recorded(h)'
  <1>1. Fresh(h) /\ Recorded(h)
    BY DEF IInv, Calls, Continues
  <1>2. Fresh(h)'
    BY <1>1 DEF Fresh, Continues, worldVars
  <1>3. call'[h].view[call'[h].tool] \subseteq witness[h].exposed
    BY <1>1 DEF Recorded, Continues
  <1>4. Recorded(h)'
    BY <1>3, RecordedStep DEF IInv
  <1> QED
    BY <1>2, <1>4

\* So does every other thread.
LEMMA OthersStep ==
  ASSUME IInv, Remember, NEW h \in Handlers, call'[h] = call[h], Busy(h),
         UNCHANGED <<worldVars, edits>>
  PROVE  Fresh(h)' /\ Recorded(h)' /\ Ran(h)' /\ Busy(h)'
  <1>1. Continues(h) /\ Busy(h)'
    BY DEF Continues, Busy
  <1>2. Ran(h)'
    BY DEF IInv, Calls, Ran
  <1> QED
    BY <1>1, <1>2, ContinuesStep

LEMMA EntriesStay ==
  ASSUME IInv, UNCHANGED <<worldVars, continuation, edits>>
  PROVE  Entries'
  BY DEF IInv, Entries, Minted, worldVars

LEMMA BeginInvariant ==
  ASSUME IInv, NEW h \in Handlers, NEW c \in Callers, NEW route \in Routes,
         NEW tool \in Tools, NEW asked, NEW token \in Tokens \cup {None},
         Begin(h, c, route, tool, asked, token)
  PROVE  Calls' /\ Entries'
  <1> USE DEF Begin
  <1>1. Entries'
    BY EntriesStay
  <1>2. ASSUME NEW g \in Handlers, g # h, Busy(g)'
        PROVE  Fresh(g)' /\ Ran(g)' /\ Recorded(g)' /\ Later(g)'
    <2>1. call'[g] = call[g] /\ Busy(g)
      BY <1>2 DEF IInv, TypeOK, Busy
    <2>2. Later(g)'
      BY <2>1 DEF IInv, Calls, Later
    <2> QED
      BY <2>1, <2>2, OthersStep
  <1>3. call'[h] = [pc |-> "gate", caller |-> c, route |-> route, tool |-> tool,
          asked |-> asked, token |-> token, tier |-> Lesser(tier[c], Ceiling[route]),
          user |-> user[c], view |-> surface[route], conn |-> None, since |-> edits]
    BY DEF IInv, TypeOK
  <1>4. Fresh(h)' /\ Ran(h)'
    BY <1>3 DEF Fresh, Ran, worldVars, IInv, TypeOK
  <1>5. Later(h)'
    <2>1. call'[h].pc = "gate" /\ call'[h].token = token /\ call'[h].since = edits
      BY <1>3
    <2>2. token \in Tokens /\ continuation[token] # NoEntry
            => continuation[token].since <= edits
      BY DEF IInv, Entries, Minted
    <2> QED
      BY <2>1, <2>2 DEF Later
  <1>6. Recorded(h)'
    BY <1>3, RecordedStep DEF IInv, Busy, worldVars
  <1> QED
    BY <1>1, <1>2, <1>4, <1>5, <1>6 DEF Calls

LEMMA HandlerStepInvariant ==
  ASSUME IInv, NEW h \in Handlers, Gate(h) \/ Dispatch(h) \/ Redeem(h) \/ Return(h)
  PROVE  Calls' /\ Entries'
  <1>1. UNCHANGED <<worldVars, continuation, edits>> /\ Remember
    BY DEF Gate, Dispatch, Redeem, Return
  <1>2. Entries'
    BY <1>1, EntriesStay
  <1>3. ASSUME NEW g \in Handlers, g # h, Busy(g)'
        PROVE  Fresh(g)' /\ Ran(g)' /\ Recorded(g)' /\ Later(g)'
    <2>1. call'[g] = call[g] /\ Busy(g)
      BY <1>3 DEF IInv, TypeOK, Busy, Gate, Dispatch, Redeem, Return, Finish
    <2>2. Later(g)'
      BY <1>1, <2>1 DEF IInv, Calls, Later
    <2> QED
      BY <1>1, <2>1, <2>2, OthersStep
  <1>4. ASSUME Busy(h)' PROVE Continues(h) /\ Ran(h)' /\ Later(h)'
    <2>1. call[h] \in Call /\ Fresh(h) /\ Ran(h) /\ Later(h)
      BY BusyType DEF Gate, Dispatch, Redeem, Return, IInv, Calls, Busy
    <2>2. CASE Gate(h)
      <3>1. /\ Continues(h)
            /\ call'[h].pc = IF call[h].token = None THEN "dispatch" ELSE "redeem"
        BY <1>4, <2>1, <2>2 DEF Gate, Finish, Idle, Busy, Continues, Call, IInv, TypeOK
      <3> QED
        BY <1>1, <2>1, <3>1 DEF Ran, Later, Continues, Call
    <2>3. CASE Dispatch(h)
      <3>1. Continues(h) /\ Callable(call[h]) /\ call'[h].pc = "mint"
        BY <1>4, <2>1, <2>3 DEF Dispatch, Finish, Idle, Busy, Continues, Call, IInv, TypeOK
      <3> QED
        BY <1>1, <2>1, <3>1 DEF Ran, Later, Continues, Callable
    <2>4. CASE Redeem(h)
      <3>1. Continues(h) /\ call[h].pc = "redeem" /\ call'[h].pc = "served"
        BY <1>4, <2>1, <2>4 DEF Redeem, Finish, Idle, Busy, Continues, Call, IInv, TypeOK
      <3> QED
        BY <1>1, <2>1, <3>1 DEF Ran, Later, Continues
    <2>5. CASE Return(h)
      BY <1>4, <2>5 DEF Return, Finish, Idle, Busy, IInv, TypeOK
    <2> QED
      BY <2>2, <2>3, <2>4, <2>5
  <1> QED
    BY <1>1, <1>2, <1>3, <1>4, ContinuesStep DEF Calls

LEMMA MintInvariant ==
  ASSUME IInv, NEW h \in Handlers, NEW token \in Tokens, Mint(h, token)
  PROVE  Calls' /\ Entries'
  <1> USE DEF Mint
  <1>1. ASSUME NEW g \in Handlers, Busy(g)'
        PROVE  Fresh(g)' /\ Ran(g)' /\ Recorded(g)' /\ Later(g)'
    <2>1. call'[g] = call[g] /\ Busy(g)
      BY <1>1 DEF IInv, TypeOK, Busy, Finish, Idle
    <2>2. call[g].token # token
      BY <2>1 DEF Busy
    <2>3. Later(g)'
      BY <2>1, <2>2 DEF IInv, Calls, Later, TypeOK
    <2> QED
      BY <2>1, <2>3, OthersStep
  <1>2. ASSUME NEW k \in Tokens, k # token, continuation'[k] # NoEntry
        PROVE  Minted(k)'
    BY <1>2 DEF IInv, Entries, Minted, TypeOK, worldVars
  <1>3. Minted(token)'
    <2>1. Fresh(h) /\ Ran(h)
      BY DEF IInv, Calls, Busy
    <2>2. continuation'[token] =
            [owner |-> OwnerKey(call[h]), tool |-> call[h].tool, target |-> call[h].asked,
             minter |-> call[h].caller, mintTier |-> call[h].tier,
             mintUser |-> call[h].user, route |-> call[h].route,
             conn |-> call[h].conn, since |-> call[h].since]
      BY DEF IInv, TypeOK, Resolved
    <2> QED
      BY <2>1, <2>2 DEF Minted, OwnerKey, Fresh, Ran, worldVars
  <1> QED
    BY <1>1, <1>2, <1>3 DEF Calls, Entries

LEMMA ExpireInvariant ==
  ASSUME IInv, NEW token \in Tokens, Expire(token)
  PROVE  Calls' /\ Entries'
  <1> USE DEF Expire
  <1>1. ASSUME NEW g \in Handlers, Busy(g)'
        PROVE  Fresh(g)' /\ Ran(g)' /\ Recorded(g)' /\ Later(g)'
    <2>1. call'[g] = call[g] /\ Busy(g)
      BY <1>1 DEF Busy
    <2>2. Later(g)'
      BY <2>1 DEF IInv, Calls, Later, TypeOK
    <2> QED
      BY <2>1, <2>2, OthersStep
  <1>2. Entries'
    BY DEF IInv, Entries, Minted, TypeOK, worldVars
  <1> QED
    BY <1>1, <1>2 DEF Calls

\* An edit overtakes every call and every entry.
LEMMA EditInvariant ==
  ASSUME IInv, Edit
  PROVE  Calls' /\ Entries'
  <1>1. UNCHANGED <<continuation, call>> /\ edits' = edits + 1 /\ edits \in Nat /\ Remember
    BY DEF Edit, IInv, TypeOK
  <1>2. ASSUME NEW g \in Handlers, Busy(g)'
        PROVE  Fresh(g)' /\ Ran(g)' /\ Recorded(g)' /\ Later(g)'
    <2>1. call[g] \in Call /\ Fresh(g) /\ Ran(g) /\ Recorded(g) /\ Later(g)
      BY <1>1, <1>2, BusyType DEF IInv, Calls, Busy
    <2>2. Fresh(g)'
      BY <1>1, <2>1 DEF Fresh, Call
    <2>3. Ran(g)' /\ Later(g)'
      BY <1>1, <2>1 DEF Ran, Later
    <2>4. Recorded(g)'
      BY <1>1, <1>2, <2>1, RecordedStep DEF Recorded, IInv
    <2> QED
      BY <2>2, <2>3, <2>4
  <1>3. ASSUME NEW k \in Tokens, continuation'[k] # NoEntry
        PROVE  Minted(k)'
    <2>1. continuation[k] \in Entry /\ Minted(k)
      BY <1>1, <1>3 DEF IInv, Entries, TypeOK
    <2> QED
      BY <1>1, <2>1 DEF Minted, Entry
  <1> QED
    BY <1>2, <1>3 DEF Calls, Entries

LEMMA NextInvariant == IInv /\ [Next]_vars => IInv'
  <1> SUFFICES ASSUME IInv, [Next]_vars PROVE Calls' /\ Entries'
    BY NextType DEF IInv
  <1>1. CASE \E h \in Handlers, c \in Callers, route \in Routes, tool \in Tools :
               \/ \E asked \in Asked(tool) : Begin(h, c, route, tool, asked, None)
               \/ \E token \in Tokens : Begin(h, c, route, tool, NoAction, token)
    BY <1>1, BeginInvariant
  <1>2. ASSUME NEW h \in Handlers, Gate(h) \/ Dispatch(h) \/ Redeem(h) \/ Return(h)
        PROVE  Calls' /\ Entries'
    BY <1>2, HandlerStepInvariant
  <1>3. ASSUME NEW h \in Handlers, NEW token \in Tokens, Mint(h, token)
        PROVE  Calls' /\ Entries'
    BY <1>3, MintInvariant
  <1>4. ASSUME NEW token \in Tokens, Expire(token) PROVE Calls' /\ Entries'
    BY <1>4, ExpireInvariant
  <1>5. CASE Edit
    BY <1>5, EditInvariant
  <1>6. CASE UNCHANGED vars
    BY <1>6 DEF IInv, Calls, Entries, vars, worldVars, Busy, Fresh, Ran, Recorded, Later, Minted
  <1> QED
    BY <1>1, <1>2, <1>3, <1>4, <1>5, <1>6 DEF Next

LEMMA Invariant == Spec => []IInv
  BY InitInvariant, NextInvariant, PTL DEF Spec

-----------------------------------------------------------------------------
(* The properties.                                                          *)

\* Only a redemption that passes both checks serves anything.
LEMMA ServesOnlyRedeemable ==
  ASSUME TypeOK, [Next]_vars, NEW h \in Handlers, Serves(h)
  PROVE  Redeemable(call[h])
  <1>1. ASSUME NEW g \in Handlers, NEW c, NEW route, NEW tool, NEW asked, NEW token,
               Begin(g, c, route, tool, asked, token)
        PROVE  FALSE
    BY <1>1 DEF Begin, Serves, TypeOK
  <1>2. ASSUME NEW g \in Handlers, Gate(g) \/ Dispatch(g) \/ Return(g)
        PROVE  FALSE
    BY <1>2 DEF Gate, Dispatch, Return, Finish, Idle, Serves, TypeOK
  <1>3. ASSUME NEW g \in Handlers, Redeem(g)
        PROVE  Redeemable(call[h])
    BY <1>3 DEF Redeem, Finish, Idle, Serves, TypeOK
  <1>4. ASSUME NEW g \in Handlers, NEW token \in Tokens, Mint(g, token)
        PROVE  FALSE
    BY <1>4 DEF Mint, Finish, Idle, Serves, TypeOK
  <1>5. CASE Edit \/ (\E token \in Tokens : Expire(token)) \/ UNCHANGED vars
    BY <1>5 DEF Edit, Expire, vars, Serves
  <1> QED
    BY <1>1, <1>2, <1>3, <1>4, <1>5 DEF Next

\* SEC-3: a payload is served only to the credential and user it was computed for,
\* at the tier it was computed at.
THEOREM PayloadsKeepTheirOwner == Spec => ServedToItsOwner
  <1>1. IInv /\ [Next]_vars =>
          [\A h \in Handlers : Serves(h) =>
             LET c == call[h] entry == EntryOf(h) IN
             /\ entry.minter = c.caller /\ entry.tool = c.tool
             /\ entry.mintTier = c.tier /\ entry.mintUser = c.user]_vars
    <2> SUFFICES ASSUME IInv, [Next]_vars, NEW h \in Handlers, Serves(h)
                 PROVE  LET c == call[h] entry == EntryOf(h) IN
                        /\ entry.minter = c.caller /\ entry.tool = c.tool
                        /\ entry.mintTier = c.tier /\ entry.mintUser = c.user
      OBVIOUS
    <2>1. Redeemable(call[h])
      BY ServesOnlyRedeemable DEF IInv
    <2>2. call[h].token \in Tokens
      BY DEF IInv, Calls, Busy, Later, Serves
    <2>3. Minted(call[h].token)
      BY <2>1, <2>2 DEF Redeemable, IInv, Entries
    <2> QED
      BY <2>1, <2>3 DEF Redeemable, OwnerKey, Minted, EntryOf
  <1> QED
    BY <1>1, Invariant, PTL DEF Spec, ServedToItsOwner

\* ADR-011: what an action returned is served only where the route exposed the
\* action and the user held its permission during the redemption.
THEOREM PayloadsAreAuthorized == Spec => ServedIsAuthorized
  <1>1. IInv /\ [Next]_vars =>
          [\A h \in Handlers : Serves(h) /\ EntryOf(h).target \in Actions =>
             LET action == EntryOf(h).target IN
             /\ action \in witness[h].exposed
             /\ action \in witness[h].held
             /\ TierOf[action] <= call[h].tier]_vars
    <2> SUFFICES ASSUME IInv, [Next]_vars, NEW h \in Handlers, Serves(h),
                        EntryOf(h).target \in Actions
                 PROVE  /\ EntryOf(h).target \in witness[h].exposed
                        /\ EntryOf(h).target \in witness[h].held
                        /\ TierOf[EntryOf(h).target] <= call[h].tier
      OBVIOUS
    <2>1. Authorized(call[h], EntryOf(h).target)
      BY ServesOnlyRedeemable DEF IInv, Redeemable, EntryOf
    <2>2. Recorded(h)
      BY DEF IInv, Calls, Busy, Serves
    <2>3. EntryOf(h).target # NoAction
      BY NegotiationAssumption
    <2> QED
      BY <2>1, <2>2, <2>3 DEF Authorized, Recorded, Holds
  <1> QED
    BY <1>1, Invariant, PTL DEF Spec, ServedIsAuthorized

\* G1: a token for the result of an action is worth its round trip: a redemption
\* by a user who holds the permission is served unless something has changed.
THEOREM ResultTokensAreRedeemable == Spec => []ResultsAreRedeemable
  <1>1. IInv => ResultsAreRedeemable
    <2> SUFFICES ASSUME IInv, NEW h \in Handlers, Undisturbed(h),
                        EntryOf(h).target \in Actions, Holds(call[h].user, EntryOf(h).target)
                 PROVE  Redeemable(call[h])
      BY DEF ResultsAreRedeemable
    <2> DEFINE c == call[h]  e == EntryOf(h)
    <2>1. Busy(h) /\ c.token \in Tokens /\ e # NoEntry
      BY DEF IInv, Calls, Busy, Later, Undisturbed
    <2>2. Minted(c.token) /\ Fresh(h) /\ Later(h) /\ c \in Call /\ e \in Entry
      BY <2>1, BusyType DEF IInv, Calls, Entries, EntryOf, Busy, TypeOK
    <2>3. c.since = edits /\ e.since = edits
      <3>1. c.since \in Nat /\ edits \in Nat
        BY <2>2 DEF Call, IInv, TypeOK
      <3>2. e.since = edits
        BY DEF Undisturbed
      <3>3. c.since <= edits
        BY <2>2 DEF Fresh
      <3>4. e.since <= c.since
        BY <2>1, <2>2 DEF Later, EntryOf
      <3> QED
        BY <3>1, <3>2, <3>3, <3>4
    <2>4. c.tier = e.mintTier /\ c.user = e.mintUser /\ c.view = surface[e.route]
          /\ c.tool = e.tool /\ c.caller = e.minter
      BY <2>2, <2>3 DEF Fresh, Minted, EntryOf, Undisturbed
    <2>5. e.owner = OwnerKey(c)
      BY <2>2, <2>4 DEF Minted, OwnerKey, EntryOf
    <2>6. Authorized(c, e.target)
      BY <2>2, <2>3, <2>4 DEF Minted, Authorized, EntryOf
    <2> QED
      BY <2>1, <2>5, <2>6 DEF Redeemable, EntryOf
  <1> QED
    BY <1>1, Invariant, PTL

=============================================================================
