--------------------------- MODULE ToolCallProofs ---------------------------
(* Theorems about ToolCall, for any credentials, clients, connections, tools  *)
(* and threads, and any number of steps by the operator.                     *)
EXTENDS ToolCall, TLAPS

-----------------------------------------------------------------------------
(* Type correctness.                                                        *)

Glimpse == [valid: BOOLEAN, tools: SUBSET Tools, validTools: SUBSET Tools, tiers: SUBSET Tiers]

LEMMA ZeroType == 0 \in Tiers /\ NoRow \in Row
  BY StoreAssumption DEF Tiers, NoRow, Row

LEMMA IdleIs == Idle.pc = "idle" /\ Idle.caller = Anonymous
  BY DEF Idle

LEMMA InitType == Init => TypeOK
  <1> SUFFICES ASSUME Init PROVE TypeOK
    OBVIOUS
  <1>1. StoreTypeOK
    BY ZeroType DEF Init, StoreInit, StoreTypeOK, Conn
  <1> QED
    BY <1>1 DEF Init, TypeOK, Nothing

LEMMA LinkedType ==
  ASSUME StoreTypeOK, NEW c
  PROVE  /\ LinkedActive(c) \subseteq Linked(c) /\ Linked(c) \subseteq Conns
         /\ AllowedByNewest(c) \subseteq Tools /\ Allowed(c) \subseteq Tools
  <1>1. LinkedActive(c) \subseteq Linked(c) /\ Linked(c) \subseteq Conns
    BY DEF LinkedActive, Linked
  <1>2. \A n \in Conns : conns[n].allowed \subseteq Tools
    BY DEF StoreTypeOK, Conn
  <1>3. AllowedByNewest(c) \subseteq Tools
    BY <1>1, <1>2 DEF AllowedByNewest, Newest
  <1> QED
    BY <1>1, <1>3 DEF Allowed

LEMMA ValidType ==
  ASSUME StoreTypeOK, NEW c \in Credentials
  PROVE  Valid(c) \in BOOLEAN /\ LiveTier(c) \in Tiers /\ TokenTier(c) \in Tiers
  <1>1. tokens[c] \in Row
    BY DEF StoreTypeOK
  <1>2. c \in OAuthTokens => clients[ClientOf[c]] \in Row
    BY StoreAssumption DEF StoreTypeOK
  <1> QED
    BY <1>1, <1>2 DEF Valid, LiveTier, TokenTier, Row

\* What Remember adds for one caller.
Present(c) ==
  [valid |-> Valid(c), tools |-> Allowed(c),
   validTools |-> IF Valid(c) THEN Allowed(c) ELSE {},
   tiers |-> IF Valid(c) THEN {LiveTier(c)} ELSE {}]

LEMMA PresentType ==
  ASSUME StoreTypeOK, NEW c \in Credentials
  PROVE  Present(c) \in Glimpse
  <1>1. (IF Valid(c) THEN Allowed(c) ELSE {}) \in SUBSET Tools
    BY LinkedType
  <1>2. (IF Valid(c) THEN {LiveTier(c)} ELSE {}) \in SUBSET Tiers
    BY ValidType
  <1>3. Valid(c) \in BOOLEAN /\ Allowed(c) \in SUBSET Tools
    BY ValidType, LinkedType
  <1> QED
    BY <1>1, <1>2, <1>3 DEF Present, Glimpse

LEMMA JoinType ==
  ASSUME NEW v \in Glimpse, NEW w \in Glimpse
  PROVE  Join(v, w) \in Glimpse
  <1>1. (v.valid \/ w.valid) \in BOOLEAN
    OBVIOUS
  <1>2. /\ v.tools \cup w.tools \in SUBSET Tools
        /\ v.validTools \cup w.validTools \in SUBSET Tools
        /\ v.tiers \cup w.tiers \in SUBSET Tiers
    BY DEF Glimpse
  <1> QED
    BY <1>1, <1>2 DEF Join, Glimpse

LEMMA RememberIs ==
  ASSUME Remember, NEW h \in Handlers, NEW c \in Credentials, call'[h].caller = c
  PROVE  witness'[h] = Join(witness[h], Present(c)')
  <1>1. c # Anonymous
    BY CallAssumption
  <1>2. Policy'[c] = Present(c)'
    BY DEF Policy, Present
  <1> QED
    BY <1>1, <1>2 DEF Remember

LEMMA PresentTypeNext == StoreTypeOK' => (\A c \in Credentials : Present(c) \in Glimpse)'
  <1>1. StoreTypeOK => \A c \in Credentials : Present(c) \in Glimpse
    BY PresentType
  <1> QED
    BY <1>1, PTL

LEMMA RememberType ==
  ASSUME TypeOK, Remember, StoreTypeOK', call' \in [Handlers -> Call \cup {Idle}]
  PROVE  witness' \in [Handlers -> Glimpse]
  <1>1. \A c \in Credentials : Present(c)' \in Glimpse
    BY PresentTypeNext
  <1>2. ASSUME NEW h \in Handlers, call'[h].caller # Anonymous
        PROVE  witness'[h] \in Glimpse
    <2>1. PICK c \in Credentials : call'[h].caller = c
      BY <1>2, IdleIs DEF Call
    <2>2. witness[h] \in Glimpse
      BY DEF TypeOK, Glimpse
    <2>3. witness'[h] = Join(witness[h], Present(c)')
      BY <2>1, RememberIs
    <2>4. Present(c)' \in Glimpse
      BY <1>1
    <2> QED
      BY <2>2, <2>3, <2>4, JoinType
  <1>3. ASSUME NEW h \in Handlers, call'[h].caller = Anonymous
        PROVE  witness'[h] \in Glimpse
    BY <1>3 DEF Remember, Nothing, Glimpse
  <1>4. \E f : witness' = [h \in Handlers |-> f[h]]
    BY DEF Remember
  <1> QED
    BY <1>2, <1>3, <1>4

\* All that is left to show of a step.
LEMMA StepType ==
  ASSUME TypeOK, Remember, StoreTypeOK', call' \in [Handlers -> Call \cup {Idle}]
  PROVE  TypeOK'
  BY RememberType DEF TypeOK, Glimpse

LEMMA RefuseType ==
  ASSUME TypeOK, NEW h \in Handlers, Refuse(h)
  PROVE  call' \in [Handlers -> Call \cup {Idle}]
  BY DEF TypeOK, Refuse

LEMMA GotoType ==
  ASSUME TypeOK, NEW h \in Handlers, call[h].pc # "idle",
         NEW pc \in {"inactive", "dispatch", "run"}, Goto(h, pc)
  PROVE  call' \in [Handlers -> Call \cup {Idle}]
  <1>1. [call[h] EXCEPT !.pc = pc] \in Call
    BY IdleIs DEF TypeOK, Call
  <1> QED
    BY <1>1 DEF TypeOK, Goto

LEMMA CappedType ==
  ASSUME NEW tier \in Tiers, NEW ceiling \in Ceilings
  PROVE  Capped(tier, ceiling) \in Tiers /\ Capped(tier, ceiling) <= tier
  <1>1. ceiling \in Tiers \/ ceiling = None
    BY CallAssumption
  <1> QED
    BY <1>1, StoreAssumption DEF Capped, Tiers

LEMMA AuthenticateType ==
  ASSUME TypeOK, NEW h \in Handlers, NEW c \in Credentials, NEW tool \in Tools,
         NEW ceiling \in Ceilings, Authenticate(h, c, tool, ceiling)
  PROVE  call' \in [Handlers -> Call \cup {Idle}]
  <1>1. ASSUME NEW caller \in Credentials \cup {Anonymous}, NEW tier \in Tiers,
               NEW pc \in {"active", "dispatch"}, Start(h, caller, tool, tier, ceiling, pc)
        PROVE  call' \in [Handlers -> Call \cup {Idle}]
    <2>1. [pc |-> pc, caller |-> caller, tool |-> tool, tier |-> Capped(tier, ceiling)] \in Call
      BY CappedType DEF Call
    <2> QED
      BY <1>1, <2>1 DEF Start, TypeOK
  <1>2. TokenTier(c) \in Tiers
    BY ValidType DEF TypeOK
  <1>3. AnonymousTier \in Tiers \/ AnonymousTier = None
    BY CallAssumption
  <1> QED
    BY <1>1, <1>2, <1>3 DEF Authenticate

LEMMA UnlinkType ==
  ASSUME StoreTypeOK, NEW holders, Unlink(holders)
  PROVE  conns' \in [Conns -> Conn]
  <1>1. ASSUME NEW n \in Conns PROVE [conns[n] EXCEPT !.link = None] \in Conn
    BY DEF StoreTypeOK, Conn
  <1> QED
    BY <1>1 DEF Unlink, StoreTypeOK

LEMMA EditStoreType ==
  ASSUME StoreTypeOK, EditStore
  PROVE  StoreTypeOK'
  <1>1. ASSUME NEW c \in Credentials, NEW tier \in Tiers, Issue(c, tier)
        PROVE  StoreTypeOK'
    BY <1>1 DEF Issue, StoreTypeOK, NewRow, Row
  <1>2. ASSUME NEW k \in Clients, NEW tier \in Tiers, CreateClient(k, tier)
        PROVE  StoreTypeOK'
    BY <1>2 DEF CreateClient, OperatorStep, StoreTypeOK, NewRow, Row
  <1>3. ASSUME NEW c \in Credentials, Expire(c)
        PROVE  StoreTypeOK'
    <2>1. [tokens[c] EXCEPT !.active = FALSE] \in Row
      BY DEF StoreTypeOK, Row
    <2> QED
      BY <1>3, <2>1 DEF Expire, StoreTypeOK
  <1>4. ASSUME NEW c \in Credentials, NEW active \in BOOLEAN, NEW tier \in Tiers,
               SaveToken(c, active, tier)
        PROVE  StoreTypeOK'
    <2>1. [tokens[c] EXCEPT !.active = active, !.tier = tier] \in Row
      BY DEF StoreTypeOK, Row
    <2> QED
      BY <1>4, <2>1 DEF SaveToken, OperatorStep, StoreTypeOK
  <1>5. ASSUME NEW c \in Credentials, DeleteToken(c)
        PROVE  StoreTypeOK'
    BY <1>5, ZeroType, UnlinkType DEF DeleteToken, OperatorStep, StoreTypeOK
  <1>6. ASSUME NEW k \in Clients, NEW active \in BOOLEAN, NEW tier \in Tiers,
               SaveClient(k, active, tier)
        PROVE  StoreTypeOK'
    <2>1. [clients[k] EXCEPT !.active = active, !.tier = tier] \in Row
      BY DEF StoreTypeOK, Row
    <2> QED
      BY <1>6, <2>1 DEF SaveClient, OperatorStep, StoreTypeOK
  <1>7. ASSUME NEW k \in Clients, DeleteClient(k)
        PROVE  StoreTypeOK'
    BY <1>7, ZeroType, UnlinkType DEF DeleteClient, OperatorStep, StoreTypeOK
  <1>8. ASSUME NEW n \in Conns, NEW link \in StaticTokens \cup Clients \cup {None},
               NEW active \in BOOLEAN, NEW allowed \in SUBSET Tools,
               SaveConn(n, link, active, allowed)
        PROVE  StoreTypeOK'
    BY <1>8 DEF SaveConn, OperatorStep, StoreTypeOK, Conn
  <1>9. ASSUME NEW selected \in SUBSET Conns, DeactivateConns(selected)
        PROVE  StoreTypeOK'
    <2>1. \A n \in Conns : [conns[n] EXCEPT !.active = FALSE] \in Conn
      BY DEF StoreTypeOK, Conn
    <2> QED
      BY <1>9, <2>1 DEF DeactivateConns, OperatorStep, StoreTypeOK
  <1> QED
    BY <1>1, <1>2, <1>3, <1>4, <1>5, <1>6, <1>7, <1>8, <1>9 DEF EditStore

LEMMA NextType == TypeOK /\ [Next]_vars => TypeOK'
  <1> SUFFICES ASSUME TypeOK, [Next]_vars PROVE TypeOK'
    OBVIOUS
  <1>1. UNCHANGED storeVars => StoreTypeOK'
    BY DEF TypeOK, storeVars, StoreTypeOK
  <1>2. ASSUME NEW h \in Handlers, NEW c \in Credentials, NEW tool \in Tools,
               NEW ceiling \in Ceilings, Authenticate(h, c, tool, ceiling)
        PROVE  TypeOK'
    BY <1>1, <1>2, AuthenticateType, StepType DEF Authenticate
  <1>3. ASSUME NEW h \in Handlers, FindActive(h) \/ FindInactive(h) \/ Dispatch(h) \/ Return(h)
        PROVE  TypeOK'
    <2>1. call' \in [Handlers -> Call \cup {Idle}]
      BY <1>3, GotoType, RefuseType DEF FindActive, FindInactive, Dispatch, Return
    <2> QED
      BY <1>1, <1>3, <2>1, StepType DEF FindActive, FindInactive, Dispatch, Return
  <1>4. CASE Edit
    BY <1>4, EditStoreType, StepType DEF Edit, TypeOK
  <1>5. CASE UNCHANGED vars
    BY <1>1, <1>5 DEF vars, TypeOK
  <1> QED
    BY <1>2, <1>3, <1>4, <1>5 DEF Next

\* Rows, connections, calls and their history are well typed; only a credential
\* or the anonymous caller makes a call.
THEOREM TypeCorrect == Spec => []TypeOK
  BY InitType, NextType, PTL DEF Spec

-----------------------------------------------------------------------------
(* The inductive invariant: a call has in its history what it was let through *)
(* for, and an access token keeps the tier it was issued with.               *)

Snapshot == \A c \in OAuthTokens : tokens[c].exists => tokens[c].tier = issued[c]

Cleared(h) ==
  call[h].caller \in Credentials =>
    /\ witness[h].valid
    /\ call[h].caller \in OAuthTokens =>
         issued[call[h].caller] \in Tiers /\ call[h].tier <= issued[call[h].caller]
    /\ call[h].pc \in {"dispatch", "run"} => call[h].tool \in witness[h].tools
    /\ call[h].pc = "run" => TierOf[call[h].tool] <= call[h].tier

IInv == TypeOK /\ Snapshot /\ \A h \in Handlers : Cleared(h)

LEMMA InitInvariant == Init => IInv
  <1> SUFFICES ASSUME Init PROVE IInv
    OBVIOUS
  <1>1. Snapshot
    BY DEF Init, StoreInit, Snapshot, NoRow, Credentials
  <1>2. \A h \in Handlers : Cleared(h)
    BY CallAssumption DEF Init, Cleared, Idle
  <1> QED
    BY <1>1, <1>2, InitType DEF IInv

\* Nothing that was issued is issued again, and only Issue sets an access token's tier.
LEMMA EditStoreSnapshot ==
  ASSUME StoreTypeOK, Snapshot, EditStore
  PROVE  /\ Snapshot'
         /\ \A c \in Credentials : issued[c] \in Tiers => issued'[c] = issued[c]
  <1> USE DEF Snapshot, Credentials
  <1>1. ASSUME NEW d \in Credentials, NEW tier \in Tiers, Issue(d, tier)
        PROVE  Snapshot' /\ \A c \in Credentials : issued[c] \in Tiers => issued'[c] = issued[c]
    BY <1>1, StoreAssumption DEF Issue, StoreTypeOK, NewRow
  <1>2. ASSUME UNCHANGED <<tokens, issued>>
        PROVE  Snapshot' /\ \A c \in Credentials : issued[c] \in Tiers => issued'[c] = issued[c]
    BY <1>2
  <1>3. ASSUME NEW d \in Credentials, Expire(d)
        PROVE  Snapshot' /\ \A c \in Credentials : issued[c] \in Tiers => issued'[c] = issued[c]
    BY <1>3 DEF Expire, StoreTypeOK, Row
  <1>4. ASSUME NEW d \in Credentials, NEW active, NEW tier \in Tiers, SaveToken(d, active, tier)
        PROVE  Snapshot' /\ \A c \in Credentials : issued[c] \in Tiers => issued'[c] = issued[c]
    BY <1>4, StoreAssumption DEF SaveToken, StoreTypeOK
  <1>5. ASSUME NEW d \in Credentials, DeleteToken(d)
        PROVE  Snapshot' /\ \A c \in Credentials : issued[c] \in Tiers => issued'[c] = issued[c]
    BY <1>5 DEF DeleteToken, StoreTypeOK, NoRow
  <1>6. ASSUME NEW k \in Clients, DeleteClient(k)
        PROVE  Snapshot' /\ \A c \in Credentials : issued[c] \in Tiers => issued'[c] = issued[c]
    BY <1>6 DEF DeleteClient, StoreTypeOK, NoRow
  <1> QED
    BY <1>1, <1>2, <1>3, <1>4, <1>5, <1>6
       DEF EditStore, CreateClient, SaveClient, SaveConn, DeactivateConns

\* The truth value among the fields needs a proof of its own.
LEMMA JoinIs ==
  ASSUME Remember, NEW h \in Handlers, NEW c \in Credentials, call'[h].caller = c
  PROVE  witness'[h].valid = (witness[h].valid \/ Valid(c)')
  <1>1. witness'[h] = Join(witness[h], Present(c)')
    BY RememberIs
  <1>2. Join(witness[h], Present(c)').valid = (witness[h].valid \/ Present(c)'.valid)
    BY Zenon DEF Join
  <1>3. Present(c)'.valid = Valid(c)'
    BY Zenon DEF Present
  <1>4. witness'[h].valid = (witness[h].valid \/ Present(c)'.valid)
    BY <1>1, <1>2
  <1> QED
    BY <1>3, <1>4

\* A call that keeps its request keeps what it was cleared for, and its history grows.
LEMMA WitnessGrows ==
  ASSUME Remember, NEW h \in Handlers, call'[h].caller = call[h].caller,
         call[h].caller \in Credentials
  PROVE  /\ witness[h].valid => witness'[h].valid
         /\ witness[h].tools \subseteq witness'[h].tools
         /\ Allowed(call[h].caller)' \subseteq witness'[h].tools
  <1>1. PICK c \in Credentials : call[h].caller = c
    OBVIOUS
  <1>2. witness'[h] = Join(witness[h], Present(c)')
    BY <1>1, RememberIs
  <1>3. witness'[h].tools = witness[h].tools \cup Allowed(c)'
    BY <1>2 DEF Join, Present
  <1>4. witness'[h].valid = (witness[h].valid \/ Valid(c)')
    BY <1>1, JoinIs
  <1>5. witness[h].valid => witness'[h].valid
    BY <1>4, Zenon
  <1>6. Allowed(call[h].caller)' = Allowed(c)'
    BY <1>1
  <1> QED
    BY <1>3, <1>5, <1>6

LEMMA OthersCleared ==
  ASSUME Remember, NEW h \in Handlers, Cleared(h), call'[h] = call[h],
         \A c \in Credentials : issued[c] \in Tiers => issued'[c] = issued[c]
  PROVE  Cleared(h)'
  <1>1. CASE call[h].caller \notin Credentials
    BY <1>1 DEF Cleared
  <1>2. CASE call[h].caller \in Credentials
    BY <1>2, WitnessGrows DEF Cleared, Credentials
  <1> QED
    BY <1>1, <1>2

\* A call cannot start without a credential that is valid at that moment.
LEMMA AuthenticateCleared ==
  ASSUME IInv, NEW h \in Handlers, NEW c \in Credentials, NEW tool \in Tools,
         NEW ceiling \in Ceilings, Authenticate(h, c, tool, ceiling)
  PROVE  Cleared(h)'
  <1>1. CASE Start(h, Anonymous, tool, AnonymousTier, ceiling, "dispatch")
    BY <1>1, CallAssumption DEF Start, Cleared, IInv, TypeOK
  <1>2. CASE ~Start(h, Anonymous, tool, AnonymousTier, ceiling, "dispatch")
    <2>1. /\ tokens[c].exists /\ ~Rejects(c)
          /\ c \in StaticTokens => tokens[c].active
          /\ Start(h, c, tool, TokenTier(c), ceiling, "active")
          /\ UNCHANGED storeVars /\ Remember
      BY <1>2 DEF Authenticate
    <2>2. call'[h] = [pc |-> "active", caller |-> c, tool |-> tool,
                      tier |-> Capped(TokenTier(c), ceiling)]
      BY <2>1 DEF Start, IInv, TypeOK
    <2>3. Valid(c)
      BY <2>1 DEF Rejects, Valid, Credentials
    <2>4. Valid(c)'
      BY <2>1, <2>3 DEF Valid, storeVars
    <2>5. witness'[h].valid
      <3>1. witness'[h].valid = (witness[h].valid \/ Valid(c)')
        BY <2>1, <2>2, JoinIs
      <3> QED
        BY <2>4, <3>1, Zenon
    <2>6. c \in OAuthTokens => issued'[c] \in Tiers /\ Capped(TokenTier(c), ceiling) <= issued'[c]
      <3> SUFFICES ASSUME c \in OAuthTokens
                   PROVE  issued'[c] \in Tiers /\ Capped(TokenTier(c), ceiling) <= issued'[c]
        OBVIOUS
      <3>1. TokenTier(c) = issued[c] /\ TokenTier(c) \in Tiers
        BY <2>1, ValidType DEF IInv, Snapshot, TokenTier, TypeOK
      <3> QED
        BY <2>1, <3>1, CappedType DEF storeVars
    <2> QED
      BY <2>2, <2>5, <2>6 DEF Cleared
  <1> QED
    BY <1>1, <1>2

\* The gate lets through what the connections allow at one of its two queries.
LEMMA GateCleared ==
  ASSUME IInv, NEW h \in Handlers, FindActive(h) \/ FindInactive(h) \/ Dispatch(h) \/ Return(h)
  PROVE  Cleared(h)'
  <1>1. UNCHANGED storeVars /\ Remember /\ call[h].pc # "idle"
    BY DEF FindActive, FindInactive, Dispatch, Return
  <1>2. call[h] \in Call
    BY <1>1, IdleIs DEF IInv, TypeOK
  <1>3. CASE call'[h].caller \notin Credentials
    BY <1>3 DEF Cleared
  <1>4. CASE call'[h].caller \in Credentials
    <2>1. call'[h] # Idle
      BY <1>4, CallAssumption, IdleIs
    <2>2. \E pc \in {"inactive", "dispatch", "run"} : Goto(h, pc) /\ call'[h].pc = pc
      BY <1>2, <2>1 DEF FindActive, FindInactive, Dispatch, Return, Refuse, Goto, IInv, TypeOK, Call
    <2>3. /\ call'[h].caller = call[h].caller /\ call'[h].tool = call[h].tool
          /\ call'[h].tier = call[h].tier
      BY <1>2, <2>2 DEF Goto, IInv, TypeOK, Call
    <2>4. /\ witness[h].valid => witness'[h].valid
          /\ witness[h].tools \subseteq witness'[h].tools
          /\ Allowed(call[h].caller)' \subseteq witness'[h].tools
      BY <1>1, <1>4, <2>3, WitnessGrows
    <2>5. issued' = issued /\ Allowed(call[h].caller) \subseteq witness'[h].tools
      BY <1>1, <1>4, <2>3, <2>4 DEF storeVars, Allowed, Linked, AllowedByNewest, LinkedActive,
         Newest, Holder
    <2>6. /\ call'[h].pc \in {"dispatch", "run"} => call'[h].tool \in witness'[h].tools
          /\ call'[h].pc = "run" => TierOf[call'[h].tool] <= call'[h].tier
      <3>1. CASE FindActive(h)
        <4>1. call'[h].pc \in {"inactive", "dispatch"}
              /\ (call'[h].pc = "dispatch" => call[h].tool \in AllowedByNewest(call[h].caller))
              /\ (call'[h].pc = "dispatch" => LinkedActive(call[h].caller) # {})
          BY <1>2, <2>1, <3>1 DEF FindActive, Refuse, Goto, IInv, TypeOK, Call
        <4>2. LinkedActive(call[h].caller) # {} => Linked(call[h].caller) # {}
          BY DEF LinkedActive
        <4> QED
          BY <2>3, <2>5, <4>1, <4>2 DEF Allowed
      <3>2. CASE FindInactive(h)
        <4>1. call'[h].pc = "dispatch" /\ Linked(call[h].caller) = {}
          BY <1>2, <2>1, <3>2 DEF FindInactive, Refuse, Goto, IInv, TypeOK, Call
        <4> QED
          BY <1>2, <2>3, <2>5, <4>1 DEF Allowed, Call
      <3>3. CASE Dispatch(h)
        <4>1. call'[h].pc = "run" /\ TierOf[call[h].tool] <= call[h].tier /\ call[h].pc = "dispatch"
          BY <1>2, <2>1, <3>3 DEF Dispatch, Refuse, Goto, IInv, TypeOK, Call
        <4> QED
          BY <1>4, <2>3, <2>4, <4>1 DEF IInv, Cleared
      <3>4. CASE Return(h)
        BY <2>1, <3>4 DEF Return, Refuse, IInv, TypeOK
      <3> QED
        BY <3>1, <3>2, <3>3, <3>4
    <2> QED
      BY <1>4, <2>3, <2>4, <2>5, <2>6 DEF IInv, Cleared
  <1> QED
    BY <1>3, <1>4

LEMMA NextInvariant == IInv /\ [Next]_vars => IInv'
  <1> SUFFICES ASSUME IInv, [Next]_vars
               PROVE  Snapshot' /\ \A h \in Handlers : Cleared(h)'
    BY NextType DEF IInv
  <1>1. ASSUME UNCHANGED storeVars
        PROVE  Snapshot' /\ \A c \in Credentials : issued[c] \in Tiers => issued'[c] = issued[c]
    BY <1>1 DEF IInv, Snapshot, storeVars
  <1>2. ASSUME NEW h \in Handlers, NEW c \in Credentials, NEW tool \in Tools,
               NEW ceiling \in Ceilings, Authenticate(h, c, tool, ceiling)
        PROVE  Snapshot' /\ \A g \in Handlers : Cleared(g)'
    <2>1. UNCHANGED storeVars /\ Remember
      BY <1>2 DEF Authenticate
    <2>2. ASSUME NEW g \in Handlers, g # h PROVE Cleared(g)'
      <3>1. call'[g] = call[g]
        BY <1>2, <2>2 DEF Authenticate, Start, IInv, TypeOK
      <3> QED
        BY <1>1, <2>1, <3>1, OthersCleared DEF IInv
    <2> QED
      BY <1>1, <1>2, <2>1, <2>2, AuthenticateCleared
  <1>3. ASSUME NEW h \in Handlers, FindActive(h) \/ FindInactive(h) \/ Dispatch(h) \/ Return(h)
        PROVE  Snapshot' /\ \A g \in Handlers : Cleared(g)'
    <2>1. UNCHANGED storeVars /\ Remember
      BY <1>3 DEF FindActive, FindInactive, Dispatch, Return
    <2>2. ASSUME NEW g \in Handlers, g # h PROVE Cleared(g)'
      <3>1. call'[g] = call[g]
        BY <1>3, <2>2 DEF FindActive, FindInactive, Dispatch, Return, Refuse, Goto, IInv, TypeOK
      <3> QED
        BY <1>1, <2>1, <3>1, OthersCleared DEF IInv
    <2> QED
      BY <1>1, <1>3, <2>1, <2>2, GateCleared
  <1>4. CASE Edit
    <2>1. Snapshot' /\ \A c \in Credentials : issued[c] \in Tiers => issued'[c] = issued[c]
      BY <1>4, EditStoreSnapshot DEF Edit, IInv, TypeOK
    <2> QED
      BY <1>4, <2>1, OthersCleared DEF Edit, IInv
  <1>5. CASE UNCHANGED vars
    BY <1>5 DEF vars, storeVars, IInv, Snapshot, Cleared
  <1> QED
    BY <1>2, <1>3, <1>4, <1>5 DEF Next

LEMMA Invariant == Spec => []IInv
  BY InitInvariant, NextInvariant, PTL DEF Spec

-----------------------------------------------------------------------------
(* The properties.                                                          *)

\* PKG-6, SEC-5: no interleaving of the two queries with the operator lets a tool
\* run that its caller's connections did not allow at a moment of the call.
THEOREM GateIsNeverFooled == Spec => []AgentPolicyHolds
  <1>1. IInv => AgentPolicyHolds
    BY DEF IInv, Cleared, AgentPolicyHolds, RunningFor, Running
  <1> QED
    BY <1>1, Invariant, PTL

\* ADR-009, T7: no tool runs above the tier its access token was issued with.
THEOREM AuthorityIsFixed == Spec => []AuthorityFixedAtIssue
  <1>1. IInv => AuthorityFixedAtIssue
    <2> SUFFICES ASSUME IInv, NEW h \in Handlers, call[h].pc = "run",
                        call[h].caller \in OAuthTokens
                 PROVE  TierOf[call[h].tool] <= issued[call[h].caller]
      BY DEF AuthorityFixedAtIssue, RunningFor, Running
    <2>1. call[h] \in Call
      BY IdleIs DEF IInv, TypeOK
    <2>2. TierOf[call[h].tool] \in Nat /\ call[h].tier \in Nat /\ issued[call[h].caller] \in Nat
      BY <2>1, CallAssumption DEF IInv, Cleared, Call, Tiers, Credentials
    <2>3. TierOf[call[h].tool] <= call[h].tier /\ call[h].tier <= issued[call[h].caller]
      BY DEF IInv, Cleared, Credentials
    <2> QED
      BY <2>2, <2>3
  <1> QED
    BY <1>1, Invariant, PTL

\* Every call that runs was authenticated by a credential valid during the call.
THEOREM RevokedTokensRunNothing == Spec => []RevocationStopsCalls
  <1>1. IInv => RevocationStopsCalls
    BY DEF IInv, Cleared, RevocationStopsCalls, RunningFor, Running
  <1> QED
    BY <1>1, Invariant, PTL

=============================================================================
