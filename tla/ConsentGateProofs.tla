-------------------------- MODULE ConsentGateProofs -------------------------
(* Theorems about ConsentGate, for any users, clients, URIs and requests.    *)
EXTENDS ConsentGate, ClientTableProofs

-----------------------------------------------------------------------------
(* Type correctness.                                                        *)

Witness == [tiers: SUBSET Tiers, rowless: BOOLEAN, scopes: SUBSET Tiers, known: BOOLEAN]

\* The part of TypeOK about the threads.
RequestOK ==
  /\ request \in [Requests -> Request \cup {Idle}]
  /\ \A r \in Requests :
       request[r].pc \in GetSteps \cup {"find", "insert", "refind"} => request[r].user \in Users

Busy(r) == request[r].pc # "idle"

LEMMA BusyType ==
  ASSUME TypeOK, NEW r \in Requests, Busy(r)
  PROVE  request[r] \in Request
  BY DEF TypeOK, Busy, Idle

LEMMA IdleNotBusy == Idle.pc = "idle" /\ "idle" \notin GetSteps \cup PostSteps
  BY DEF Idle, GetSteps, PostSteps

LEMMA InitType == Init => TypeOK
  <1> SUFFICES ASSUME Init PROVE TypeOK
    OBVIOUS
  <1>1. TableTypeOK
    BY NoRowType DEF Init, TableInit, TableTypeOK
  <1>2. request \in [Requests -> Request \cup {Idle}]
        /\ \A r \in Requests : request[r].pc = "idle"
    BY DEF Init, Idle
  <1>3. \A r \in Requests :
          request[r].pc \in GetSteps \cup {"find", "insert", "refind"} => request[r].user \in Users
    BY <1>2 DEF GetSteps
  <1>4. witness \in [Requests -> Witness]
    BY DEF Init, Nothing, Witness
  <1> QED
    BY <1>1, <1>2, <1>3, <1>4 DEF Init, TypeOK, Witness

LEMMA DefaultType == DefaultTier \in Tiers /\ 0 \in Tiers
  BY TableAssumption DEF Tiers

\* What Remember writes about one request.
Glimpse(r) ==
  LET new == request[r].pc = "idle"
      row == clients'[request'[r].client]
  IN [tiers |-> witness[r].tiers \cup IF row.active THEN {row.tier} ELSE {},
      rowless |-> witness[r].rowless \/ ~row.active,
      scopes |-> witness[r].scopes \cup
        {g.scope : g \in {g \in consents' :
           [g EXCEPT !.scope = 0] = [Grant(request'[r]) EXCEPT !.scope = 0]}},
      known |-> IF new THEN KnownClient(request'[r].client, request'[r].uri)
                       ELSE witness[r].known]

LEMMA RememberIs ==
  ASSUME Remember
  PROVE  witness' = [r \in Requests |-> IF request'[r].pc = "idle" THEN Nothing ELSE Glimpse(r)]
  BY DEF Remember, Glimpse

\* Its fields, one by one: two of them are truth values.
LEMMA GlimpseIs ==
  ASSUME NEW r
  PROVE  /\ Glimpse(r).tiers = witness[r].tiers \cup
              IF clients'[request'[r].client].active THEN {clients'[request'[r].client].tier} ELSE {}
         /\ Glimpse(r).rowless = (witness[r].rowless \/ ~clients'[request'[r].client].active)
         /\ Glimpse(r).scopes = witness[r].scopes \cup
              {g.scope : g \in {g \in consents' :
                 [g EXCEPT !.scope = 0] = [Grant(request'[r]) EXCEPT !.scope = 0]}}
         /\ Glimpse(r).known = IF request[r].pc = "idle"
                                THEN KnownClient(request'[r].client, request'[r].uri)
                                ELSE witness[r].known
  <1>1. Glimpse(r).tiers = witness[r].tiers \cup
          IF clients'[request'[r].client].active THEN {clients'[request'[r].client].tier} ELSE {}
    BY DEF Glimpse
  <1>2. Glimpse(r).rowless = (witness[r].rowless \/ ~clients'[request'[r].client].active)
    BY Zenon DEF Glimpse
  <1>3. Glimpse(r).scopes = witness[r].scopes \cup
          {g.scope : g \in {g \in consents' :
             [g EXCEPT !.scope = 0] = [Grant(request'[r]) EXCEPT !.scope = 0]}}
    BY DEF Glimpse
  <1>4. Glimpse(r).known = IF request[r].pc = "idle"
                           THEN KnownClient(request'[r].client, request'[r].uri)
                           ELSE witness[r].known
    BY Zenon DEF Glimpse
  <1> QED
    BY <1>1, <1>2, <1>3, <1>4

LEMMA RememberType ==
  ASSUME TypeOK, Remember, TableTypeOK', consents' \subseteq Consent, RequestOK'
  PROVE  witness' \in [Requests -> Witness]
  <1>1. ASSUME NEW r \in Requests, request'[r].pc # "idle"
        PROVE  Glimpse(r) \in Witness
    <2>1. request'[r] \in Request
      BY <1>1, IdleNotBusy DEF RequestOK
    <2>2. request'[r].client \in ClientIds /\ request'[r].uri \in Uris
      BY <2>1 DEF Request
    <2>3. clients'[request'[r].client] \in Row
      BY <2>2 DEF TableTypeOK
    <2>4. witness[r] \in Witness
      BY DEF TypeOK, Witness
    <2>5. KnownClient(request'[r].client, request'[r].uri) \in BOOLEAN
      BY <2>2 DEF KnownClient, ActiveRow, TypeOK, TableTypeOK, Row
    <2> DEFINE seen == {g.scope : g \in {g \in consents' :
                          [g EXCEPT !.scope = 0] = [Grant(request'[r]) EXCEPT !.scope = 0]}}
    <2>6. seen \subseteq Tiers
      BY DEF Consent
    <2> HIDE DEF seen
    <2>7. witness[r].tiers \cup
            (IF clients'[request'[r].client].active THEN {clients'[request'[r].client].tier}
             ELSE {}) \in SUBSET Tiers
      BY <2>3, <2>4 DEF Row, Witness
    <2>8. (witness[r].rowless \/ ~clients'[request'[r].client].active) \in BOOLEAN
      BY <2>3, <2>4 DEF Row, Witness
    <2>9. (IF request[r].pc = "idle" THEN KnownClient(request'[r].client, request'[r].uri)
           ELSE witness[r].known) \in BOOLEAN
      BY <2>4, <2>5 DEF Witness
    <2>10. witness[r].scopes \cup seen \in SUBSET Tiers
      BY <2>4, <2>6 DEF Witness
    <2> QED
      BY <2>7, <2>8, <2>9, <2>10 DEF Glimpse, Witness, seen
  <1>2. Nothing \in Witness
    BY DEF Nothing, Witness
  <1> HIDE DEF Glimpse
  <1> QED
    BY <1>1, <1>2, RememberIs

\* All that is left to show of a step.
LEMMA StepType ==
  ASSUME TypeOK, Remember, TableTypeOK', consents' \subseteq Consent,
         coded' \subseteq Coded, approved' \subseteq Consent, RequestOK'
  PROVE  TypeOK'
  BY RememberType DEF TypeOK, RequestOK, Witness

LEMMA TableStays ==
  ASSUME TypeOK, UNCHANGED <<clients, gens>>, edits' = edits \/ edits' = edits + 1
  PROVE  TableTypeOK'
  BY DEF TypeOK, TableTypeOK

LEMMA FinishType ==
  ASSUME TypeOK, NEW r \in Requests, Finish(r)
  PROVE  RequestOK'
  BY IdleNotBusy DEF TypeOK, RequestOK, Finish, Idle, GetSteps

\* A request goes on to a step that its user may be at.
LEMMA OnwardType ==
  ASSUME TypeOK, NEW r \in Requests, NEW c \in Request,
         request' = [request EXCEPT ![r] = c],
         c.pc \in GetSteps \cup {"find", "insert", "refind"} => c.user \in Users
  PROVE  RequestOK'
  BY DEF TypeOK, RequestOK

LEMMA GotoType ==
  ASSUME TypeOK, NEW r \in Requests, Busy(r), NEW pc \in GetSteps \cup PostSteps, Goto(r, pc),
         request[r].user \in Users \/ pc = "issue"
  PROVE  RequestOK'
  <1>1. [request[r] EXCEPT !.pc = pc] \in Request
    BY BusyType DEF Request
  <1>2. request' = [request EXCEPT ![r] = [request[r] EXCEPT !.pc = pc]]
    BY DEF Goto
  <1>3. [request[r] EXCEPT !.pc = pc].pc = pc
        /\ [request[r] EXCEPT !.pc = pc].user = request[r].user
    BY BusyType DEF Request
  <1>4. pc = "issue" => pc \notin GetSteps \cup {"find", "insert", "refind"}
    BY DEF GetSteps
  <1> QED
    BY <1>1, <1>2, <1>3, <1>4, OnwardType

LEMMA GrantType ==
  ASSUME TypeOK, NEW r \in Requests, Busy(r), request[r].user \in Users, NEW scope \in Tiers
  PROVE  Grant(request[r]) \in Consent /\ [Grant(request[r]) EXCEPT !.scope = scope] \in Consent
  BY BusyType DEF Grant, Request, Consent

LEMMA ArriveType ==
  ASSUME TypeOK, NEW r \in Requests, NEW user \in Users \cup {Anonymous},
         NEW id \in ClientIds, NEW uri \in Uris, Get(r, user, id, uri) \/ Post(r, user, id, uri)
  PROVE  TypeOK'
  <1> USE DEF GetSteps, PostSteps
  <1>1. TableTypeOK'
    BY TableStays DEF Get, Post, tableVars
  <1>2. CASE Get(r, user, id, uri)
    <2>1. [pc |-> "tier", user |-> user, client |-> id, uri |-> uri, scope |-> 0] \in Request
      BY DefaultType DEF Request
    <2>2. RequestOK'
      BY <1>2, <2>1, OnwardType DEF Get, Start, GoesOn
    <2> QED
      BY <1>1, <1>2, <2>2, StepType DEF Get, TypeOK
  <1>3. CASE Post(r, user, id, uri)
    <2>1. [pc |-> "scope", user |-> user, client |-> id, uri |-> uri, scope |-> 0] \in Request
      BY DefaultType DEF Request
    <2>2. RequestOK'
      BY <1>3, <2>1, OnwardType DEF Post, Start
    <2> QED
      BY <1>1, <1>3, <2>2, StepType DEF Post, TypeOK
  <1> QED
    BY <1>2, <1>3

LEMMA ServeType ==
  ASSUME TypeOK, NEW r \in Requests, Serve(r)
  PROVE  TypeOK'
  <1> USE DEF GetSteps, PostSteps
  <1>1. UNCHANGED tableVars /\ Remember /\ Busy(r) /\ request[r] \in Request
    <2>1. UNCHANGED tableVars /\ Remember /\ Busy(r)
      BY DEF Serve, ReadTier, ReadConsent, Issue, ReadScope, FindConsent, InsertConsent,
             FindAgain, Busy
    <2> QED
      BY <2>1, BusyType
  <1>2. TableTypeOK'
    BY <1>1, TableStays DEF tableVars
  <1>3. clients[request[r].client] \in Row /\ ScopeNow(request[r].client) \in Tiers
    <2>1. clients[request[r].client] \in Row
      BY <1>1 DEF TypeOK, TableTypeOK, Request
    <2> QED
      BY <2>1, DefaultType DEF ScopeNow, Row
  <1>4. CASE ReadTier(r)
    <2>1. RequestOK'
      <3>1. CASE clients[request[r].client].active
        <4> DEFINE c == [request[r] EXCEPT !.pc = "consent",
                                           !.scope = clients[request[r].client].tier]
        <4>1. c \in Request /\ c.user = request[r].user
          BY <1>1, <1>3 DEF Request, Row
        <4>2. request' = [request EXCEPT ![r] = c]
          BY <1>4, <3>1 DEF ReadTier, TypeOK
        <4>3. request[r].user \in Users
          BY <1>4 DEF ReadTier, TypeOK
        <4> HIDE DEF c
        <4> QED
          BY <4>1, <4>2, <4>3, OnwardType
      <3>2. CASE ~clients[request[r].client].active
        BY <1>4, <3>2, FinishType DEF ReadTier
      <3> QED
        BY <3>1, <3>2
    <2> QED
      BY <1>1, <1>2, <1>4, <2>1, StepType DEF ReadTier, TypeOK
  <1>5. CASE ReadConsent(r)
    <2>1. request[r].user \in Users
      BY <1>5 DEF ReadConsent, TypeOK
    <2>2. RequestOK'
      BY <1>1, <1>5, <2>1, GotoType, FinishType DEF ReadConsent
    <2> QED
      BY <1>1, <1>2, <1>5, <2>2, StepType DEF ReadConsent, TypeOK
  <1>6. CASE Issue(r)
    <2>1. coded' \subseteq Coded
      BY <1>1, <1>6 DEF Issue, Coded, Request, TypeOK
    <2> QED
      BY <1>1, <1>2, <1>6, <2>1, FinishType, StepType DEF Issue, TypeOK
  <1>7. CASE ReadScope(r)
    <2>1. CASE request[r].user = Anonymous
      <3>1. RequestOK'
        BY <1>1, <1>7, <2>1, GotoType DEF ReadScope
      <3> QED
        BY <1>1, <1>2, <1>7, <2>1, <3>1, StepType DEF ReadScope, TypeOK
    <2>2. CASE request[r].user # Anonymous
      <3> DEFINE c == [request[r] EXCEPT !.pc = "find", !.scope = ScopeNow(request[r].client)]
      <3>1. request[r].user \in Users
        BY <1>1, <2>2 DEF Request
      <3>2. c \in Request /\ c.user = request[r].user
        BY <1>1, <1>3 DEF Request
      <3>3. request' = [request EXCEPT ![r] = c]
        BY <1>7, <2>2 DEF ReadScope, TypeOK
      <3> HIDE DEF c
      <3>4. RequestOK'
        BY <3>1, <3>2, <3>3, OnwardType
      <3>5. approved' \subseteq Consent
        BY <1>1, <1>3, <1>7, <2>2, <3>1, GrantType DEF ReadScope, TypeOK
      <3> QED
        BY <1>1, <1>2, <1>7, <3>4, <3>5, StepType DEF ReadScope, TypeOK
    <2> QED
      BY <2>1, <2>2
  <1>8. CASE FindConsent(r)
    <2>1. request[r].user \in Users
      BY <1>8 DEF FindConsent, TypeOK
    <2>2. RequestOK'
      BY <1>1, <1>8, <2>1, GotoType DEF FindConsent
    <2> QED
      BY <1>1, <1>2, <1>8, <2>2, StepType DEF FindConsent, TypeOK
  <1>9. CASE InsertConsent(r)
    <2>1. request[r].user \in Users
      BY <1>9 DEF InsertConsent, TypeOK
    <2>2. RequestOK'
      BY <1>1, <1>9, <2>1, GotoType DEF InsertConsent
    <2>3. consents' \subseteq Consent
      <3>1. Grant(request[r]) \in Consent
        BY <1>1, <2>1, GrantType, DefaultType
      <3> QED
        BY <1>9, <3>1 DEF InsertConsent, TypeOK
    <2> QED
      BY <1>1, <1>2, <1>9, <2>2, <2>3, StepType DEF InsertConsent, TypeOK
  <1>10. CASE FindAgain(r)
    BY <1>1, <1>2, <1>10, GotoType, FinishType, StepType DEF FindAgain, TypeOK
  <1> QED
    BY <1>4, <1>5, <1>6, <1>7, <1>8, <1>9, <1>10 DEF Serve

LEMMA TableStepOf ==
  ASSUME NEW id \in ClientIds, ChangeTable(id)
  PROVE  TableStep(id)
  BY DEF ChangeTable, TableStep, GrantSets

LEMMA NextType == TypeOK /\ [Next]_vars => TypeOK'
  <1> SUFFICES ASSUME TypeOK, [Next]_vars PROVE TypeOK'
    OBVIOUS
  <1>1. CASE \E r \in Requests, user \in Users \cup {Anonymous}, id \in ClientIds, uri \in Uris :
               Get(r, user, id, uri) \/ Post(r, user, id, uri)
    BY <1>1, ArriveType
  <1>2. CASE \E r \in Requests : Serve(r)
    BY <1>2, ServeType
  <1>3. ASSUME NEW id \in ClientIds, ChangeTable(id) PROVE TypeOK'
    <2>1. TableTypeOK'
      BY <1>3, TableStepOf, TableStepType DEF TypeOK
    <2> QED
      BY <1>3, <2>1, StepType DEF ChangeTable, TypeOK, RequestOK
  <1>4. ASSUME NEW grant \in Consent, GrantConsent(grant) PROVE TypeOK'
    <2>1. TableTypeOK'
      BY <1>4, TableStays DEF GrantConsent, OperatorStep
    <2> QED
      BY <1>4, <2>1, StepType DEF GrantConsent, TypeOK, RequestOK
  <1>5. ASSUME NEW revoked \in SUBSET consents, RevokeConsents(revoked) PROVE TypeOK'
    <2>1. TableTypeOK'
      BY <1>5, TableStays DEF RevokeConsents, OperatorStep
    <2> QED
      BY <1>5, <2>1, StepType DEF RevokeConsents, TypeOK, RequestOK
  <1>6. ASSUME NEW c \in coded, Exchange(c) PROVE TypeOK'
    <2>1. c.client \in ClientIds /\ {c.uri} \in SUBSET Uris
      BY DEF TypeOK, Coded
    <2>2. TableTypeOK'
      BY <1>6, <2>1, InsertType, TableAssumption DEF Exchange, TypeOK, TableTypeOK, GrantSets
    <2> QED
      BY <1>6, <2>2, StepType DEF Exchange, TypeOK, RequestOK
  <1>7. CASE UNCHANGED vars
    BY <1>7 DEF vars, tableVars, consentVars, TypeOK, TableTypeOK
  <1> QED
    BY <1>1, <1>2, <1>3, <1>4, <1>5, <1>6, <1>7 DEF Next

\* Rows, consents, codes and requests of the authorize endpoint are well typed;
\* only a request of an authenticated user gets to read or to write a consent.
THEOREM TypeCorrect == Spec => []TypeOK
  BY InitType, NextType, PTL DEF Spec

-----------------------------------------------------------------------------
(* The inductive invariant: what a request has read is in its witness, and    *)
(* what it is about to record was approved.                                  *)

\* A GET that goes on found the client known, then its tier, then the consent.
Founded(r) ==
  /\ request[r].pc \in GetSteps => witness[r].known
  /\ request[r].pc \in {"consent", "fast"} => request[r].scope \in witness[r].tiers
  /\ request[r].pc = "fast" => request[r].scope \in witness[r].scopes

\* A POST records what its user approved, at the tier it read.
Vetted(r) ==
  request[r].pc \in {"find", "insert", "refind"} =>
    /\ Grant(request[r]) \in approved
    /\ request[r].scope \in
         witness[r].tiers \cup IF witness[r].rowless THEN {DefaultTier} ELSE {}

IInv ==
  /\ TypeOK
  /\ \A r \in Requests : Founded(r) /\ Vetted(r)
  /\ ConsentsAreApproved

LEMMA InitInvariant == Init => IInv
  BY InitType DEF Init, IInv, Founded, Vetted, Idle, GetSteps, ConsentsAreApproved

\* A witness only grows while its request lasts.
LEMMA WitnessGrows ==
  ASSUME Remember, NEW r \in Requests, Busy(r), request'[r].pc # "idle"
  PROVE  /\ witness[r].tiers \subseteq witness'[r].tiers
         /\ witness[r].rowless => witness'[r].rowless
         /\ witness[r].scopes \subseteq witness'[r].scopes
         /\ witness[r].known => witness'[r].known
  <1>1. witness'[r] = Glimpse(r)
    BY RememberIs
  <1>2. request[r].pc # "idle"
    BY DEF Busy
  <1>3. witness[r].tiers \subseteq witness'[r].tiers /\ witness[r].scopes \subseteq witness'[r].scopes
    BY <1>1, GlimpseIs
  <1>4. witness[r].rowless => witness'[r].rowless
    BY <1>1, GlimpseIs, Zenon
  <1>5. witness[r].known => witness'[r].known
    BY <1>1, <1>2, GlimpseIs, Zenon
  <1> QED
    BY <1>3, <1>4, <1>5

\* A request that has stopped has nothing left to show.
LEMMA IdleInvariant ==
  ASSUME NEW r \in Requests, request'[r].pc = "idle"
  PROVE  Founded(r)' /\ Vetted(r)'
  BY DEF Founded, Vetted, GetSteps

\* Nor has one that only waits, whatever the others do.
LEMMA OthersInvariant ==
  ASSUME NEW r \in Requests, Founded(r), Vetted(r), Remember,
         request'[r] = request[r], approved \subseteq approved'
  PROVE  Founded(r)' /\ Vetted(r)'
  <1>1. CASE request[r].pc = "idle"
    BY <1>1, IdleInvariant
  <1>2. CASE request[r].pc # "idle"
    <2>1. /\ witness[r].tiers \subseteq witness'[r].tiers
          /\ witness[r].rowless => witness'[r].rowless
          /\ witness[r].scopes \subseteq witness'[r].scopes
          /\ witness[r].known => witness'[r].known
      BY <1>2, WitnessGrows DEF Busy
    <2>2. Founded(r)'
      BY <2>1 DEF Founded
    <2>3. Vetted(r)'
      BY <2>1 DEF Vetted, Grant
    <2> QED
      BY <2>2, <2>3
  <1> QED
    BY <1>1, <1>2

LEMMA ArriveInvariant ==
  ASSUME IInv, NEW r \in Requests, NEW user \in Users \cup {Anonymous},
         NEW id \in ClientIds, NEW uri \in Uris, Get(r, user, id, uri) \/ Post(r, user, id, uri)
  PROVE  (\A q \in Requests : Founded(q)' /\ Vetted(q)') /\ ConsentsAreApproved'
  <1>1. UNCHANGED <<tableVars, consents, approved>> /\ Remember /\ request[r].pc = "idle"
    BY DEF Get, Post
  <1>2. ASSUME NEW q \in Requests, q # r PROVE Founded(q)' /\ Vetted(q)'
    <2>1. request'[q] = request[q]
      BY <1>2 DEF Get, Post, Start, IInv, TypeOK
    <2> QED
      BY <1>1, <2>1, OthersInvariant DEF IInv
  <1>3. CASE Get(r, user, id, uri)
    <2>1. request'[r].pc = "tier" /\ request'[r].client = id /\ request'[r].uri = uri
      BY <1>3 DEF Get, Start, IInv, TypeOK
    <2>2. witness'[r] = Glimpse(r)
      BY <1>1, <2>1, RememberIs
    <2>3. KnownClient(request'[r].client, request'[r].uri)
      BY <1>3, <2>1 DEF Get, GoesOn
    <2>4. witness'[r].known
      BY <1>1, <2>2, <2>3, GlimpseIs, Zenon
    <2>5. Founded(r)' /\ Vetted(r)'
      BY <2>1, <2>4 DEF Founded, Vetted
    <2> QED
      BY <1>1, <1>2, <2>5 DEF IInv, ConsentsAreApproved
  <1>4. CASE Post(r, user, id, uri)
    <2>1. request'[r].pc = "scope"
      BY <1>4 DEF Post, Start, IInv, TypeOK
    <2>2. Founded(r)' /\ Vetted(r)'
      BY <2>1 DEF Founded, Vetted, GetSteps
    <2> QED
      BY <1>1, <1>2, <2>2 DEF IInv, ConsentsAreApproved
  <1> QED
    BY <1>3, <1>4

LEMMA ServeInvariant ==
  ASSUME IInv, NEW r \in Requests, Serve(r)
  PROVE  (\A q \in Requests : Founded(q)' /\ Vetted(q)') /\ ConsentsAreApproved'
  <1> USE DEF GetSteps
  <1>1. /\ UNCHANGED tableVars /\ Remember /\ Busy(r)
        /\ approved \subseteq approved'
    BY DEF Serve, ReadTier, ReadConsent, Issue, ReadScope, FindConsent, InsertConsent,
           FindAgain, Busy
  <1>2. ASSUME NEW q \in Requests, q # r PROVE Founded(q)' /\ Vetted(q)'
    <2>1. request'[q] = request[q]
      BY <1>2 DEF Serve, ReadTier, ReadConsent, Issue, ReadScope, FindConsent, InsertConsent,
                  FindAgain, Finish, Goto, IInv, TypeOK
    <2> QED
      BY <1>1, <2>1, OthersInvariant DEF IInv
  <1>3. Founded(r) /\ Vetted(r) /\ request[r] \in Request /\ TypeOK
    BY <1>1, BusyType DEF IInv
  <1>4. ASSUME request'[r].pc # "idle"
        PROVE  /\ witness[r].tiers \subseteq witness'[r].tiers
               /\ witness[r].rowless => witness'[r].rowless
               /\ witness[r].scopes \subseteq witness'[r].scopes
               /\ witness[r].known => witness'[r].known
               /\ witness'[r] = Glimpse(r)
    BY <1>1, <1>4, WitnessGrows, RememberIs
  <1>5. Founded(r)' /\ Vetted(r)'
    <2>1. CASE request'[r].pc = "idle"
      BY <2>1, IdleInvariant
    <2>2. CASE request'[r].pc # "idle" /\ ReadTier(r)
      <3>1. /\ request[r].pc = "tier" /\ clients[request[r].client].active
            /\ request'[r].pc = "consent" /\ request'[r].client = request[r].client
            /\ request'[r].scope = clients[request[r].client].tier
        BY <1>3, <2>2 DEF ReadTier, Finish, Idle, Request, TypeOK
      <3>2. request'[r].scope \in witness'[r].tiers
        BY <1>1, <1>4, <2>2, <3>1 DEF Glimpse, tableVars
      <3> QED
        BY <1>3, <1>4, <2>2, <3>1, <3>2 DEF Founded, Vetted
    <2>3. CASE request'[r].pc # "idle" /\ ReadConsent(r)
      <3>1. /\ request[r].pc = "consent" /\ Grant(request[r]) \in consents
            /\ request'[r].pc = "fast" /\ Grant(request'[r]) = Grant(request[r])
            /\ request'[r].scope = request[r].scope /\ consents' = consents
        BY <1>3, <2>3 DEF ReadConsent, Consented, Finish, Goto, Idle, Request, TypeOK, Grant
      <3>2. Grant(request[r]).scope = request[r].scope
        BY DEF Grant
      <3>3. request'[r].scope \in witness'[r].scopes
        <4> DEFINE about == {g \in consents' :
                      [g EXCEPT !.scope = 0] = [Grant(request'[r]) EXCEPT !.scope = 0]}
        <4>1. Grant(request[r]) \in about
          BY <3>1
        <4>2. witness'[r].scopes = witness[r].scopes \cup {g.scope : g \in about}
          BY <1>4, <2>3, GlimpseIs
        <4> HIDE DEF about
        <4> QED
          BY <3>1, <3>2, <4>1, <4>2
      <3> QED
        BY <1>3, <1>4, <2>3, <3>1, <3>3 DEF Founded, Vetted
    <2>4. CASE Issue(r)
      BY <2>4, IdleInvariant DEF Issue, Finish, Idle, IInv, TypeOK
    <2>5. CASE request'[r].pc # "idle" /\ ReadScope(r)
      <3>1. CASE request[r].user = Anonymous
        <4>1. request'[r].pc = "issue"
          BY <1>3, <2>5, <3>1 DEF ReadScope, Goto, Request, TypeOK
        <4> QED
          BY <4>1 DEF Founded, Vetted
      <3>2. CASE request[r].user # Anonymous
        <4> DEFINE c == request[r].client
        <4>1. /\ request'[r] = [request[r] EXCEPT !.pc = "find", !.scope = ScopeNow(c)]
              /\ approved' = approved \cup {[Grant(request[r]) EXCEPT !.scope = ScopeNow(c)]}
          BY <2>5, <3>2 DEF ReadScope, IInv, TypeOK
        <4>2. /\ request'[r].pc = "find" /\ request'[r].scope = ScopeNow(c)
              /\ request'[r].client = c
              /\ Grant(request'[r]) = [Grant(request[r]) EXCEPT !.scope = ScopeNow(c)]
          BY <1>3, <4>1 DEF Request, Grant
        <4>3. CASE clients[c].active
          <5>1. ScopeNow(c) \in witness'[r].tiers
            BY <1>1, <1>4, <2>5, <4>2, <4>3 DEF Glimpse, ScopeNow, tableVars
          <5> QED
            BY <4>1, <4>2, <5>1 DEF Founded, Vetted
        <4>4. CASE ~clients[c].active
          <5>1. ScopeNow(c) = DefaultTier /\ witness'[r].rowless
            <6>1. ~clients'[request'[r].client].active
              BY <1>1, <4>2, <4>4 DEF tableVars
            <6>2. witness'[r].rowless
              BY <1>4, <2>5, <6>1, GlimpseIs, Zenon
            <6> QED
              BY <4>4, <6>2 DEF ScopeNow
          <5> QED
            BY <4>1, <4>2, <5>1 DEF Founded, Vetted
        <4> QED
          BY <4>3, <4>4
      <3> QED
        BY <3>1, <3>2
    <2>6. CASE request'[r].pc # "idle" /\ (FindConsent(r) \/ InsertConsent(r) \/ FindAgain(r))
      <3>1. /\ request[r].pc \in {"find", "insert", "refind"}
            /\ request'[r].pc \in {"insert", "refind", "issue"}
            /\ Grant(request'[r]) = Grant(request[r])
            /\ request'[r].scope = request[r].scope
        BY <1>3, <2>6 DEF FindConsent, InsertConsent, FindAgain, Finish, Goto, Idle, Request,
                          TypeOK, Grant
      <3> QED
        BY <1>1, <1>3, <1>4, <2>6, <3>1 DEF Founded, Vetted
    <2> QED
      BY <2>1, <2>2, <2>3, <2>4, <2>5, <2>6 DEF Serve
  <1>6. ConsentsAreApproved'
    <2>1. consents' \subseteq consents \cup {Grant(request[r])}
      BY DEF Serve, ReadTier, ReadConsent, Issue, ReadScope, FindConsent, InsertConsent, FindAgain
    <2>2. consents' # consents => request[r].pc = "insert"
      BY DEF Serve, ReadTier, ReadConsent, Issue, ReadScope, FindConsent, InsertConsent, FindAgain
    <2> QED
      BY <1>1, <1>3, <2>1, <2>2 DEF Vetted, IInv, ConsentsAreApproved
  <1> QED
    BY <1>2, <1>5, <1>6

\* What the operator and the token endpoint do.
LEMMA OutsideInvariant ==
  ASSUME IInv, Remember, UNCHANGED request, approved \subseteq approved', consents' \subseteq approved'
  PROVE  (\A q \in Requests : Founded(q)' /\ Vetted(q)') /\ ConsentsAreApproved'
  BY OthersInvariant DEF IInv, ConsentsAreApproved

LEMMA NextInvariant == IInv /\ [Next]_vars => IInv'
  <1> SUFFICES ASSUME IInv, [Next]_vars
               PROVE  (\A q \in Requests : Founded(q)' /\ Vetted(q)') /\ ConsentsAreApproved'
    BY NextType DEF IInv
  <1>1. CASE \E r \in Requests, user \in Users \cup {Anonymous}, id \in ClientIds, uri \in Uris :
               Get(r, user, id, uri) \/ Post(r, user, id, uri)
    BY <1>1, ArriveInvariant
  <1>2. CASE \E r \in Requests : Serve(r)
    BY <1>2, ServeInvariant
  <1>3. ASSUME NEW id \in ClientIds, ChangeTable(id)
        PROVE  (\A q \in Requests : Founded(q)' /\ Vetted(q)') /\ ConsentsAreApproved'
    BY <1>3, OutsideInvariant DEF ChangeTable, IInv, ConsentsAreApproved
  <1>4. ASSUME NEW grant \in Consent, GrantConsent(grant)
        PROVE  (\A q \in Requests : Founded(q)' /\ Vetted(q)') /\ ConsentsAreApproved'
    BY <1>4, OutsideInvariant DEF GrantConsent, IInv, ConsentsAreApproved
  <1>5. ASSUME NEW revoked \in SUBSET consents, RevokeConsents(revoked)
        PROVE  (\A q \in Requests : Founded(q)' /\ Vetted(q)') /\ ConsentsAreApproved'
    BY <1>5, OutsideInvariant DEF RevokeConsents, IInv, ConsentsAreApproved
  <1>6. ASSUME NEW c \in coded, Exchange(c)
        PROVE  (\A q \in Requests : Founded(q)' /\ Vetted(q)') /\ ConsentsAreApproved'
    BY <1>6, OutsideInvariant DEF Exchange, IInv, ConsentsAreApproved
  <1>7. CASE UNCHANGED vars
    BY <1>7 DEF vars, consentVars, IInv, Founded, Vetted, ConsentsAreApproved
  <1> QED
    BY <1>1, <1>2, <1>3, <1>4, <1>5, <1>6, <1>7 DEF Next

LEMMA Invariant == Spec => []IInv
  BY InitInvariant, NextInvariant, PTL DEF Spec

-----------------------------------------------------------------------------
(* The properties.                                                          *)

\* T9: a code without the form rests on a consent to this very tuple, at a tier
\* the client had, both in force while the GET was being served.
THEOREM FastPathNeedsConsent == Spec => []FastPathIsConsented
  <1>1. IInv => FastPathIsConsented
    BY DEF IInv, Founded, FastPathIsConsented
  <1> QED
    BY <1>1, Invariant, PTL

\* T9: a client without an active row when the GET came in gets no code from it.
THEOREM FirstTouchNeedsForm == Spec => []FirstTouchRendersForm
  <1>1. IInv => FirstTouchRendersForm
    BY DEF IInv, Founded, FirstTouchRendersForm, GetSteps
  <1> QED
    BY <1>1, Invariant, PTL

\* Every consent was approved by its user, at its tier, or entered by the operator.
THEOREM ConsentsComeFromApproval == Spec => []ConsentsAreApproved
  <1>1. IInv => ConsentsAreApproved
    BY DEF IInv
  <1> QED
    BY <1>1, Invariant, PTL

\* What a POST records is a tier the client had during it, or the default tier.
THEOREM ApprovalIsCurrent == Spec => []ApprovedTierIsCurrent
  <1>1. IInv => ApprovedTierIsCurrent
    BY DEF IInv, Vetted, ApprovedTierIsCurrent
  <1> QED
    BY <1>1, Invariant, PTL

=============================================================================
