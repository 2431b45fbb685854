------------------------- MODULE CodeExchangeProofs -------------------------
(* Theorems about CodeExchange, for any clients, codes, handlers and times.  *)
EXTENDS CodeExchange, ClientTableProofs

USE DEF OrNone

-----------------------------------------------------------------------------
(* Type correctness.                                                        *)

LEMMA IdleType == Idle \in Request
  BY TableAssumption DEF Idle, Request, Fields, Tiers

LEMMA InitType == Init => TypeOK
  <1> SUFFICES ASSUME Init PROVE TypeOK
    OBVIOUS
  <1>1. TableTypeOK
    BY NoRowType DEF Init, TableInit, TableTypeOK
  <1>2. codes \in [Codes -> Binding]
    BY DEF Init, Unbound, Binding
  <1>3. handler \in [Handlers -> Request]
    BY IdleType DEF Init
  <1>4. minted \in [Codes -> Seq(ClientIds)]
    BY DEF Init
  <1> QED
    BY <1>1, <1>2, <1>3, <1>4 DEF Init, TypeOK, Idle, Token, Steps

LEMMA GotoType ==
  ASSUME TypeOK, NEW h \in Handlers, handler[h].pc # "idle",
         NEW step \in Steps, handler[h].pc # "mint",
         Goto(h, step)
  PROVE  handler' \in [Handlers -> Request]
  <1>1. [handler[h] EXCEPT !.pc = step] \in Request
    BY DEF TypeOK, Request, Fields, Steps
  <1> QED
    BY <1>1 DEF TypeOK, Goto

LEMMA FinishType ==
  ASSUME TypeOK, NEW h \in Handlers, Finish(h)
  PROVE  handler' \in [Handlers -> Request]
  BY IdleType DEF TypeOK, Finish

LEMMA HoldingType ==
  ASSUME TypeOK, NEW h \in Handlers, handler[h].pc # "idle",
         NEW row, row.gen \in Nat, NEW tier \in Tiers, Holding(h, row, tier)
  PROVE  handler' \in [Handlers -> Request]
  <1>1. [handler[h] EXCEPT !.pc = "mint", !.gen = row.gen, !.tier = tier] \in Request
    BY DEF TypeOK, Request, Fields, Steps
  <1> QED
    BY <1>1 DEF TypeOK, Holding

LEMMA RememberType ==
  ASSUME TypeOK, Remember, clients' \in [ClientIds -> Row],
         handler' \in [Handlers -> Request]
  PROVE  witness' \in [Handlers -> SUBSET Glimpse]
  <1>1. ASSUME NEW g \in Handlers, handler'[g].pc # "idle"
        PROVE {Seen(clients[handler'[g].client]), Seen(clients'[handler'[g].client])}
              \in SUBSET Glimpse
    <2>1. handler'[g].client \in ClientIds
      BY <1>1 DEF Request
    <2>2. \A row \in Row : Seen(row) \in Glimpse
      BY DEF Seen, Row, Glimpse
    <2> QED
      BY <2>1, <2>2 DEF TypeOK, TableTypeOK
  <1> QED
    BY <1>1 DEF Remember, TypeOK

LEMMA ServeType ==
  ASSUME TypeOK, NEW h \in Handlers, Serve(h) \/ Crash(h)
  PROVE  TypeOK'
  <1> DEFINE id == handler[h].client
  <1>0. /\ handler[h] \in Request
        /\ handler[h].pc # "idle" => id \in ClientIds /\ clients[id] \in Row
    BY DEF TypeOK, TableTypeOK, Request
  <1>1. CASE Consume(h)
    <2>1. handler' \in [Handlers -> Request]
      BY <1>0, <1>1, FinishType, GotoType DEF Consume, Request, Steps
    <2>2. consumed' \in [Codes -> Nat]
      BY <1>1, ExchangeAssumption DEF Consume, TypeOK
    <2> QED
      BY <1>1, <2>1, <2>2, RememberType DEF Consume, TypeOK, TableTypeOK, tableVars
  <1>2. CASE DiscardCode(h)
    <2>1. handler' \in [Handlers -> Request]
      BY <1>0, <1>2, GotoType DEF DiscardCode, Request, Steps
    <2>2. codes' \in [Codes -> Binding]
      BY <1>2 DEF DiscardCode, TypeOK, Binding
    <2> QED
      BY <1>2, <2>1, <2>2, RememberType DEF DiscardCode, TypeOK, TableTypeOK, tableVars
  <1>3. CASE Lookup(h)
    <2>1. handler' \in [Handlers -> Request]
      BY <1>0, <1>3, FinishType, GotoType, HoldingType DEF Lookup, Request, Steps, Row
    <2> QED
      BY <1>3, <2>1, RememberType DEF Lookup, TypeOK, TableTypeOK, tableVars
  <1>4. CASE CheckNoRow(h)
    <2>1. handler' \in [Handlers -> Request]
      BY <1>0, <1>4, FinishType, GotoType DEF CheckNoRow, Request, Steps
    <2> QED
      BY <1>4, <2>1, RememberType DEF CheckNoRow, TypeOK, TableTypeOK, tableVars
  <1>5. CASE CreateRow(h)
    <2>1. CASE Insert(id, DefaultTier, {handler[h].uri}, {"authorization_code"})
               /\ Holding(h, clients'[id], DefaultTier)
      <3>1. id \in ClientIds /\ {handler[h].uri} \in SUBSET Uris
        BY <1>0, <1>5 DEF CreateRow, Request
      <3>2. clients' \in [ClientIds -> Row] /\ gens' \in [ClientIds -> Nat]
        BY <2>1, <3>1, InsertType, TableAssumption DEF TypeOK, GrantSets
      <3>3. handler' \in [Handlers -> Request]
        <4>1. clients'[id].gen \in Nat
          BY <3>1, <3>2 DEF Row
        <4> QED
          BY <1>5, <2>1, <4>1, HoldingType, TableAssumption DEF CreateRow
      <3> QED
        BY <1>5, <3>2, <3>3, RememberType DEF CreateRow, TypeOK, TableTypeOK
    <2>2. CASE Exists(id) /\ Finish(h) /\ UNCHANGED <<clients, gens>>
      BY <1>5, <2>2, FinishType, RememberType DEF CreateRow, TypeOK, TableTypeOK
    <2> QED
      BY <1>5, <2>1, <2>2 DEF CreateRow
  <1>6. CASE Mint(h)
    <2> DEFINE r == handler[h]
    <2>1. handler' \in [Handlers -> Request]
      BY <1>6, FinishType DEF Mint
    <2>2. r.client \in ClientIds /\ r.code \in OrNone(Codes) /\ r.gen \in Nat /\ r.tier \in Tiers
      BY <1>0, <1>6 DEF Mint, Request, Fields
    <2>3. tokens' \subseteq Token
      BY <1>6, <2>2 DEF Mint, TypeOK, Token
    <2>4. minted' \in [Codes -> Seq(ClientIds)]
      <3>1. \A c \in Codes : Append(minted[c], r.client) \in Seq(ClientIds)
        BY <2>2 DEF TypeOK
      <3>2. minted' = minted \/ \E c \in Codes, s \in Seq(ClientIds) :
                                 minted' = [minted EXCEPT ![c] = s]
        BY <1>6, <2>2, <3>1 DEF Mint
      <3> QED
        BY <3>2 DEF TypeOK
    <2> QED
      BY <1>6, <2>1, <2>3, <2>4, RememberType DEF Mint, TypeOK, TableTypeOK, tableVars
  <1>7. CASE Crash(h)
    BY <1>7, FinishType, RememberType DEF Crash, TypeOK, TableTypeOK, tableVars
  <1> QED
    BY <1>1, <1>2, <1>3, <1>4, <1>5, <1>6, <1>7 DEF Serve

LEMMA ChangeTableType ==
  ASSUME TypeOK, NEW id \in ClientIds, ChangeTable(id)
  PROVE  TypeOK'
  <1>1. TableTypeOK'
    BY TableStepType DEF TableStep, ChangeTable, TypeOK
  <1>2. tokens' \subseteq Token
    BY DEF ChangeTable, TypeOK
  <1> QED
    BY <1>1, <1>2, RememberType DEF ChangeTable, TypeOK, TableTypeOK

LEMMA ArrivalType ==
  ASSUME TypeOK,
         \/ \E c \in Codes, id \in ClientIds, uri \in Uris, v \in Verifiers :
              Authorize(c, id, uri, v)
         \/ \E h \in Handlers, c \in Codes, id \in ClientIds, uri \in Uris,
               v \in Verifiers : ReadCode(h, c, id, uri, v)
         \/ \E h \in Handlers, id \in ClientIds, scope \in OrNone(Tiers) :
              ReadCredentials(h, id, scope)
  PROVE  TypeOK'
  <1>1. ASSUME NEW c \in Codes, NEW id \in ClientIds, NEW uri \in Uris,
               NEW v \in Verifiers, Authorize(c, id, uri, v)
        PROVE  TypeOK'
    <2>1. codes' \in [Codes -> Binding]
      BY <1>1, ExchangeAssumption DEF Authorize, StoreCode, TypeOK, Binding
    <2> QED
      BY <1>1, <2>1, RememberType DEF Authorize, TypeOK, TableTypeOK, tableVars
  <1>2. ASSUME NEW h \in Handlers, NEW c \in Codes, NEW id \in ClientIds,
               NEW uri \in Uris, NEW v \in Verifiers, ReadCode(h, c, id, uri, v)
        PROVE  TypeOK'
    <2>1. handler' \in [Handlers -> Request]
      BY <1>2, IdleType DEF ReadCode, TypeOK, Idle, Request, Fields, Steps
    <2> QED
      BY <1>2, <2>1, RememberType DEF ReadCode, TypeOK, TableTypeOK, tableVars
  <1>3. ASSUME NEW h \in Handlers, NEW id \in ClientIds, NEW scope \in OrNone(Tiers),
               ReadCredentials(h, id, scope)
        PROVE  TypeOK'
    <2>1. clients[id].gen \in Nat /\ Effective(scope, clients[id].tier) \in Tiers
      BY DEF TypeOK, TableTypeOK, Row, Effective
    <2>2. handler' \in [Handlers -> Request]
      BY <1>3, <2>1, IdleType DEF ReadCredentials, TypeOK, Idle, Request, Fields, Steps
    <2> QED
      BY <1>3, <2>2, RememberType DEF ReadCredentials, TypeOK, TableTypeOK, tableVars
  <1> QED
    BY <1>1, <1>2, <1>3

LEMMA StepType == TypeOK /\ [Next]_vars => TypeOK'
  <1> SUFFICES ASSUME TypeOK, [Next]_vars PROVE TypeOK'
    OBVIOUS
  <1>1. CASE Tick
    BY <1>1 DEF Tick, TypeOK, TableTypeOK, tableVars
  <1>2. CASE UNCHANGED vars
    BY <1>2 DEF vars, exchangeVars, tableVars, TypeOK, TableTypeOK
  <1> QED
    BY <1>1, <1>2, ServeType, ChangeTableType, ArrivalType DEF Next

\* Every variable keeps its type, in any instance: handlers carry the code and
\* URI the steps of _handle_authorization_code use.
THEOREM TypeCorrect == Spec => []TypeOK
  <1> QED
    BY InitType, StepType, PTL DEF Spec

-----------------------------------------------------------------------------
(* Single use.  A handler that has consumed a code holds it until it mints or *)
(* gives up; the marker outlives it, because no request outlives Stall.  A    *)
(* handler that read the code before it was discarded finds the marker: it    *)
(* read the code no later than Stall after the holder came in, and the marker *)
(* lasts Ttl > 2 * Stall.                                                     *)

Reads(h, c) == handler[h].pc = "consume" /\ handler[h].code = c
Holds(h, c) == handler[h].pc \notin {"idle", "consume"} /\ handler[h].code = c

OnTime == \A h \in Handlers : handler[h].pc # "idle" =>
            handler[h].at <= now /\ now <= handler[h].at + Stall

OfGrantee == \A h \in Handlers, c \in Codes :
  Reads(h, c) \/ Holds(h, c) => codes[c].client = handler[h].client

MarkerLasts == \A h \in Handlers, c \in Codes :
  Holds(h, c) => handler[h].at + Ttl <= consumed[c]

OneHolder == \A g, h \in Handlers, c \in Codes :
  Holds(g, c) /\ Holds(h, c) => g = h

Discarded == \A h \in Handlers, c \in Codes :
  Holds(h, c) /\ handler[h].pc # "discard" => codes[c].until = 0

LateReaders == \A h \in Handlers, c \in Codes :
  Reads(h, c) /\ codes[c].until = 0 => handler[h].at + Ttl <= consumed[c] + Stall

Spent == \A c \in Codes : minted[c] # <<>> =>
  /\ minted[c] = <<codes[c].client>>
  /\ codes[c].client # None
  /\ codes[c].until = 0
  /\ \A h \in Handlers : ~Holds(h, c)

Safe == /\ OnTime /\ OfGrantee /\ MarkerLasts
        /\ OneHolder /\ Discarded /\ LateReaders /\ Spent

IInv == TypeOK /\ Safe

\* h goes on with the code it holds, takes a request without one, or stops.
GoesOn(h, r) ==
  /\ handler' = [handler EXCEPT ![h] = r]
  /\ \/ r.pc = "idle"
     \/ r.pc # "consume" /\ r.code = None /\ r.at = now
     \/ /\ r.pc \notin {"consume", "discard"}
        /\ handler[h].pc \notin {"idle", "consume", "discard"}
        /\ r.code = handler[h].code /\ r.client = handler[h].client
        /\ r.at = handler[h].at

LEMMA GoesOnSafe ==
  ASSUME IInv, NEW h \in Handlers, NEW r \in Request, GoesOn(h, r),
         UNCHANGED <<now, codes, consumed, minted>>
  PROVE  Safe'
  <1>1. \A g \in Handlers : handler'[g] = IF g = h THEN r ELSE handler[g]
    BY DEF GoesOn, IInv, TypeOK
  <1>2. \A g \in Handlers, c \in Codes : Reads(g, c)' => Reads(g, c)
    BY <1>1, ExchangeAssumption DEF GoesOn, Reads
  <1>3. \A g \in Handlers, c \in Codes : Holds(g, c)' => Holds(g, c)
    BY <1>1, ExchangeAssumption DEF GoesOn, Holds
  <1>4. \A g \in Handlers, c \in Codes : Reads(g, c)' \/ Holds(g, c)' =>
          /\ handler'[g].client = handler[g].client
          /\ handler'[g].at = handler[g].at
          /\ handler[g].pc = "discard" => handler'[g].pc = "discard"
    BY <1>1, ExchangeAssumption DEF GoesOn, Reads, Holds
  <1>5. OnTime'
    BY <1>1, ExchangeAssumption DEF OnTime, GoesOn, IInv, Safe, TypeOK
  <1>6. OfGrantee' /\ MarkerLasts' /\ OneHolder' /\ LateReaders'
    BY <1>2, <1>3, <1>4 DEF IInv, Safe, OfGrantee, MarkerLasts, OneHolder, LateReaders
  <1>7. Discarded'
    BY <1>3, <1>4 DEF IInv, Safe, Discarded
  <1>8. Spent'
    BY <1>3 DEF IInv, Safe, Spent
  <1> QED
    BY <1>5, <1>6, <1>7, <1>8 DEF Safe

LEMMA AuthorizeSafe ==
  ASSUME IInv, NEW c \in Codes, NEW id \in ClientIds, NEW uri \in Uris,
         NEW v \in Verifiers, Authorize(c, id, uri, v)
  PROVE  Safe'
  <1>1. /\ codes[c].client = None /\ codes'[c].client = id /\ codes'[c].until # 0
        /\ \A d \in Codes : d # c => codes'[d] = codes[d]
    BY ExchangeAssumption DEF Authorize, StoreCode, Unbound, IInv, TypeOK
  <1>2. UNCHANGED <<now, consumed, handler, minted>>
    BY DEF Authorize
  <1>3. \A h \in Handlers : ~Reads(h, c) /\ ~Holds(h, c)
    BY <1>1, ExchangeAssumption DEF IInv, Safe, OfGrantee, TypeOK, Request, Reads, Holds
  <1>4. OnTime' /\ MarkerLasts' /\ OneHolder'
    BY <1>2 DEF IInv, Safe, OnTime, MarkerLasts, OneHolder, Holds
  <1>5. OfGrantee' /\ Discarded' /\ LateReaders'
    BY <1>1, <1>2, <1>3 DEF IInv, Safe, OfGrantee, Discarded, LateReaders, Reads, Holds
  <1>6. Spent'
    BY <1>1, <1>2, <1>3 DEF IInv, Safe, Spent, Holds
  <1> QED
    BY <1>4, <1>5, <1>6 DEF Safe

LEMMA ReadCodeSafe ==
  ASSUME IInv, NEW h \in Handlers, NEW c \in Codes, NEW id \in ClientIds,
         NEW uri \in Uris, NEW v \in Verifiers, ReadCode(h, c, id, uri, v)
  PROVE  Safe'
  <1>1. UNCHANGED <<now, codes, consumed, minted>>
    BY DEF ReadCode
  <1>2. /\ \A g \in Handlers : g # h => handler'[g] = handler[g]
        /\ handler'[h].pc = "consume" /\ handler'[h].code = c
        /\ handler'[h].client = id /\ handler'[h].at = now
    BY DEF ReadCode, Idle, IInv, TypeOK
  <1>3. codes[c].client = id /\ codes[c].until # 0
    BY DEF ReadCode, Presents, Cached, IInv, TypeOK, Binding
  <1>4. \A g \in Handlers, d \in Codes :
          /\ Holds(g, d)' => g # h /\ Holds(g, d)
          /\ Reads(g, d)' => (g = h /\ d = c) \/ (g # h /\ Reads(g, d))
    BY <1>2 DEF Holds, Reads
  <1>5. OnTime'
    BY <1>1, <1>2, ExchangeAssumption DEF IInv, Safe, OnTime, TypeOK
  <1>6. OfGrantee' /\ LateReaders'
    BY <1>1, <1>2, <1>3, <1>4 DEF IInv, Safe, OfGrantee, LateReaders
  <1>7. MarkerLasts' /\ OneHolder' /\ Discarded'
    BY <1>1, <1>2, <1>4 DEF IInv, Safe, MarkerLasts, OneHolder, Discarded
  <1>8. Spent'
    BY <1>1, <1>4 DEF IInv, Safe, Spent
  <1> QED
    BY <1>5, <1>6, <1>7, <1>8 DEF Safe

\* Whoever finds no marker is the first: nobody holds the code, and it has not
\* been discarded since this handler read it.
LEMMA UnmarkedIsFresh ==
  ASSUME IInv, NEW h \in Handlers, NEW c \in Codes, Reads(h, c), ~Marked(c)
  PROVE  (\A g \in Handlers : ~Holds(g, c)) /\ codes[c].until # 0
  <1>1. consumed[c] <= now /\ now \in Nat /\ consumed[c] \in Nat
    BY DEF Marked, IInv, TypeOK
  <1>2. \A g \in Handlers : handler[g].at \in Nat
    BY DEF IInv, TypeOK, Request, Fields
  <1>3. \A g \in Handlers : ~Holds(g, c)
    BY <1>1, <1>2, ExchangeAssumption DEF IInv, Safe, OnTime, MarkerLasts, Holds
  <1>4. codes[c].until # 0
    BY <1>1, <1>2, ExchangeAssumption DEF IInv, Safe, OnTime, LateReaders, Reads
  <1> QED
    BY <1>3, <1>4

LEMMA ConsumeSafe ==
  ASSUME IInv, NEW h \in Handlers, Consume(h)
  PROVE  Safe'
  <1> DEFINE c == handler[h].code
  <1>0. c \in Codes /\ Reads(h, c) /\ handler[h].at \in Nat
    BY DEF Consume, Reads, IInv, TypeOK, Request, Fields
  <1>1. CASE Marked(c)
    BY <1>1, IdleType, GoesOnSafe DEF Consume, Finish, GoesOn, Idle
  <1>2. CASE ~Marked(c)
    <2>1. /\ UNCHANGED <<now, codes, minted>>
          /\ consumed' = [consumed EXCEPT ![c] = now + Ttl]
          /\ handler' = [handler EXCEPT ![h].pc = "discard"]
      BY <1>2 DEF Consume, Goto
    <2>2. /\ consumed'[c] = now + Ttl /\ consumed[c] <= now
          /\ \A d \in Codes : d # c => consumed'[d] = consumed[d]
      BY <1>0, <1>2, <2>1 DEF Marked, IInv, TypeOK
    <2>3. /\ \A g \in Handlers : g # h => handler'[g] = handler[g]
          /\ handler'[h].pc = "discard" /\ handler'[h].code = c
          /\ handler'[h].client = handler[h].client /\ handler'[h].at = handler[h].at
      BY <2>1 DEF IInv, TypeOK, Request, Fields
    <2>4. (\A g \in Handlers : ~Holds(g, c)) /\ codes[c].until # 0
      BY <1>0, <1>2, UnmarkedIsFresh
    <2>5. \A g \in Handlers, d \in Codes :
            /\ Reads(g, d)' => g # h /\ Reads(g, d)
            /\ Holds(g, d)' => (g = h /\ d = c) \/ (g # h /\ d # c /\ Holds(g, d))
      BY <2>3, <2>4 DEF Reads, Holds
    <2>6. OnTime'
      BY <1>0, <2>1, <2>3 DEF IInv, Safe, OnTime, Reads
    <2>7. OfGrantee'
      BY <1>0, <2>1, <2>3, <2>5 DEF IInv, Safe, OfGrantee
    <2>8. MarkerLasts'
      <3>1. handler[h].at <= now
        BY <1>0 DEF IInv, Safe, OnTime, Reads
      <3>2. handler[h].at + Ttl <= now + Ttl
        BY <1>0, <3>1, ExchangeAssumption DEF IInv, TypeOK
      <3> QED
        BY <1>0, <2>2, <2>3, <2>5, <3>1, <3>2 DEF IInv, Safe, MarkerLasts
    <2>9. OneHolder' /\ Discarded'
      BY <2>1, <2>3, <2>5 DEF IInv, Safe, OneHolder, Discarded
    <2>10. LateReaders'
      BY <2>1, <2>2, <2>3, <2>4, <2>5 DEF IInv, Safe, LateReaders
    <2>11. Spent'
      BY <2>1, <2>4, <2>5 DEF IInv, Safe, Spent
    <2> QED
      BY <2>6, <2>7, <2>8, <2>9, <2>10, <2>11 DEF Safe
  <1> QED
    BY <1>1, <1>2

LEMMA DiscardSafe ==
  ASSUME IInv, NEW h \in Handlers, DiscardCode(h)
  PROVE  Safe'
  <1> DEFINE c == handler[h].code
  <1>0. c \in Codes /\ Holds(h, c) /\ handler[h].at \in Nat /\ now \in Nat
    BY DEF DiscardCode, Holds, IInv, TypeOK, Request, Fields
  <1>1. UNCHANGED <<now, consumed, minted>>
    BY DEF DiscardCode
  <1>2. /\ codes'[c].until = 0
        /\ \A d \in Codes : codes'[d].client = codes[d].client
        /\ \A d \in Codes : d # c => codes'[d] = codes[d]
    BY <1>0 DEF DiscardCode, IInv, TypeOK, Binding
  <1>3. /\ \A g \in Handlers : g # h => handler'[g] = handler[g]
        /\ handler'[h].pc = "lookup" /\ handler'[h].code = c
        /\ handler'[h].client = handler[h].client /\ handler'[h].at = handler[h].at
    BY DEF DiscardCode, Goto, IInv, TypeOK, Request, Fields
  <1>4. \A g \in Handlers, d \in Codes :
          /\ Reads(g, d)' => g # h /\ Reads(g, d)
          /\ Holds(g, d)' => Holds(g, d) /\ (g = h <=> d = c)
    BY <1>0, <1>3 DEF Reads, Holds, IInv, Safe, OneHolder
  <1>5. OnTime'
    BY <1>0, <1>1, <1>3 DEF IInv, Safe, OnTime, Holds
  <1>6. OfGrantee' /\ MarkerLasts' /\ OneHolder'
    BY <1>1, <1>2, <1>3, <1>4 DEF IInv, Safe, OfGrantee, MarkerLasts, OneHolder
  <1>7. Discarded'
    BY <1>2, <1>3, <1>4 DEF IInv, Safe, Discarded
  <1>8. LateReaders'
    <2>1. \A g \in Handlers : Reads(g, c) =>
            handler[g].at + Ttl <= consumed[c] + Stall
      <3>1. handler[h].at + Ttl <= consumed[c] /\ now <= handler[h].at + Stall
        BY <1>0 DEF IInv, Safe, OnTime, MarkerLasts, Holds
      <3>2. \A g \in Handlers : Reads(g, c) => handler[g].at \in Nat /\ handler[g].at <= now
        BY DEF IInv, Safe, OnTime, Reads, TypeOK, Request, Fields
      <3> QED
        BY <1>0, <3>1, <3>2, ExchangeAssumption DEF IInv, TypeOK
    <2> QED
      BY <1>1, <1>2, <1>3, <1>4, <2>1 DEF IInv, Safe, LateReaders
  <1>9. Spent'
    BY <1>0, <1>1, <1>2, <1>4 DEF IInv, Safe, Spent
  <1> QED
    BY <1>5, <1>6, <1>7, <1>8, <1>9 DEF Safe

LEMMA MintSafe ==
  ASSUME IInv, NEW h \in Handlers, Mint(h)
  PROVE  Safe'
  <1> DEFINE c == handler[h].code
  <1>1. CASE minted' = minted
    BY <1>1, IdleType, GoesOnSafe DEF Mint, Finish, GoesOn, Idle
  <1>2. CASE minted' # minted
    <2>1. c \in Codes /\ Holds(h, c)
      BY <1>2 DEF Mint, Holds, IInv, TypeOK, Request, Fields
    <2>2. /\ UNCHANGED <<now, codes, consumed>>
          /\ minted' = [minted EXCEPT ![c] = Append(@, handler[h].client)]
      BY <1>2, <2>1 DEF Mint
    <2>3. codes[c].until = 0 /\ codes[c].client = handler[h].client
      BY <2>1 DEF Mint, IInv, Safe, Discarded, OfGrantee
    <2>4. minted[c] = <<>>
      BY <2>1 DEF IInv, Safe, Spent
    <2>5. /\ minted'[c] = <<codes[c].client>>
          /\ \A d \in Codes : d # c => minted'[d] = minted[d]
      BY <2>1, <2>2, <2>3, <2>4 DEF IInv, TypeOK
    <2>6. /\ handler'[h].pc = "idle"
          /\ \A g \in Handlers : g # h => handler'[g] = handler[g]
      BY DEF Mint, Finish, Idle, IInv, TypeOK
    <2>7. \A g \in Handlers, d \in Codes :
            /\ Reads(g, d)' => g # h /\ Reads(g, d)
            /\ Holds(g, d)' => g # h /\ Holds(g, d) /\ d # c
      BY <2>1, <2>6 DEF Reads, Holds, IInv, Safe, OneHolder
    <2>8. OnTime' /\ OfGrantee' /\ MarkerLasts' /\ OneHolder' /\ Discarded' /\ LateReaders'
      BY <2>2, <2>6, <2>7 DEF IInv, Safe, OnTime, OfGrantee, MarkerLasts, OneHolder,
                             Discarded, LateReaders
    <2>9. Spent'
      <3>1. codes[c].client # None
        <4>1. handler[h] \in Request /\ handler[h].pc # "idle"
          BY DEF Mint, IInv, TypeOK
        <4> QED
          BY <2>3, <4>1, ExchangeAssumption DEF Request
      <3> QED
        BY <2>2, <2>3, <2>5, <2>7, <3>1 DEF IInv, Safe, Spent
    <2> QED
      BY <2>8, <2>9 DEF Safe
  <1> QED
    BY <1>1, <1>2

LEMMA TickSafe == IInv /\ Tick => Safe'
  <1> SUFFICES ASSUME IInv, Tick PROVE Safe'
    OBVIOUS
  <1>1. UNCHANGED <<codes, consumed, handler, minted>> /\ now' = now + 1
    BY DEF Tick
  <1>2. OnTime'
    BY <1>1, ExchangeAssumption DEF Tick, IInv, Safe, OnTime, TypeOK, Request, Fields
  <1> QED
    BY <1>1, <1>2 DEF IInv, Safe, OfGrantee, MarkerLasts, OneHolder, Discarded,
                      LateReaders, Spent, Reads, Holds

LEMMA QuietSafe ==
  ASSUME IInv, NEW h \in Handlers, Lookup(h) \/ CheckNoRow(h) \/ CreateRow(h) \/ Crash(h)
  PROVE  Safe'
  <1>1. UNCHANGED <<now, codes, consumed, minted>>
    BY DEF Lookup, CheckNoRow, CreateRow, Crash
  <1>2. handler' \in [Handlers -> Request]
    BY ServeType DEF Serve, IInv, TypeOK
  <1>3. handler[h] \in Request
    BY DEF IInv, TypeOK
  <1>4. CASE Finish(h)
    BY <1>1, <1>4, IdleType, GoesOnSafe DEF Finish, GoesOn, Idle
  <1>5. ASSUME NEW step \in {"exists", "create"}, Goto(h, step),
               handler[h].pc \in {"lookup", "exists"}
        PROVE  Safe'
    <2> DEFINE r == [handler[h] EXCEPT !.pc = step]
    <2>1. /\ handler' = [handler EXCEPT ![h] = r]
          /\ r.pc = step /\ r.code = handler[h].code
          /\ r.client = handler[h].client /\ r.at = handler[h].at
      BY <1>3, <1>5 DEF Goto, Request, Fields
    <2>2. r \in Request
      BY <1>2, <2>1 DEF IInv, TypeOK
    <2> QED
      BY <1>1, <1>5, <2>1, <2>2, GoesOnSafe DEF GoesOn
  <1>6. ASSUME NEW row, NEW tier, Holding(h, row, tier), handler[h].pc \in {"lookup", "create"}
        PROVE  Safe'
    <2> DEFINE r == [handler[h] EXCEPT !.pc = "mint", !.gen = row.gen, !.tier = tier]
    <2>1. /\ handler' = [handler EXCEPT ![h] = r]
          /\ r.pc = "mint" /\ r.code = handler[h].code
          /\ r.client = handler[h].client /\ r.at = handler[h].at
      BY <1>3, <1>6 DEF Holding, Request, Fields
    <2>2. r \in Request
      BY <1>2, <2>1 DEF IInv, TypeOK
    <2> QED
      BY <1>1, <1>6, <2>1, <2>2, GoesOnSafe DEF GoesOn
  <1> QED
    BY <1>4, <1>5, <1>6 DEF Lookup, CheckNoRow, CreateRow, Crash

LEMMA CredentialsSafe ==
  ASSUME IInv, NEW h \in Handlers, NEW id \in ClientIds, NEW scope \in OrNone(Tiers),
         ReadCredentials(h, id, scope)
  PROVE  Safe'
  <1> DEFINE r == [Idle EXCEPT !.pc = "mint", !.client = id, !.at = now,
                               !.gen = clients[id].gen,
                               !.tier = Effective(scope, clients[id].tier)]
  <1>1. handler' = [handler EXCEPT ![h] = r] /\ UNCHANGED <<now, codes, consumed, minted>>
    BY DEF ReadCredentials
  <1>2. r.pc = "mint" /\ r.code = None /\ r.at = now
    BY DEF Idle
  <1>3. r \in Request
    <2>1. handler' \in [Handlers -> Request]
      BY ArrivalType DEF IInv, TypeOK
    <2> QED
      BY <1>1, <2>1 DEF IInv, TypeOK
  <1> QED
    BY <1>1, <1>2, <1>3, GoesOnSafe DEF GoesOn

LEMMA InitSafe == Init => IInv
  <1> SUFFICES ASSUME Init PROVE IInv
    OBVIOUS
  <1>1. \A h \in Handlers, c \in Codes : ~Reads(h, c) /\ ~Holds(h, c)
    BY DEF Init, Idle, Reads, Holds
  <1> QED
    BY <1>1, InitType DEF Init, Idle, IInv, Safe, OnTime, OfGrantee, MarkerLasts,
       OneHolder, Discarded, LateReaders, Spent

LEMMA StepSafe == IInv /\ [Next]_vars => IInv'
  <1> SUFFICES ASSUME IInv, [Next]_vars PROVE Safe'
    BY StepType DEF IInv
  <1>1. ASSUME NEW id \in ClientIds, ChangeTable(id) PROVE Safe'
    BY <1>1 DEF ChangeTable, IInv, Safe, OnTime, OfGrantee, MarkerLasts, OneHolder,
                Discarded, LateReaders, Spent, Reads, Holds
  <1>2. CASE UNCHANGED vars
    BY <1>2 DEF vars, exchangeVars, IInv, Safe, OnTime, OfGrantee, MarkerLasts,
                OneHolder, Discarded, LateReaders, Spent, Reads, Holds
  <1>3. ASSUME NEW h \in Handlers, Serve(h) \/ Crash(h) PROVE Safe'
    BY <1>3, ConsumeSafe, DiscardSafe, QuietSafe, MintSafe DEF Serve
  <1> QED
    BY <1>1, <1>2, <1>3, AuthorizeSafe, ReadCodeSafe, CredentialsSafe, TickSafe DEF Next

LEMMA Safety == Spec => []IInv
  BY InitSafe, StepSafe, PTL DEF Spec

\* T11 for any number of workers, codes and lifetimes, provided a worker is
\* killed within less than half of _AUTH_CODE_TTL: one code, one token.
THEOREM CodesAreSingleUse == Spec => []SingleUse
  <1>1. ASSUME IInv PROVE SingleUse
    <2>1. ASSUME NEW c \in Codes PROVE Len(minted[c]) <= 1
      <3>1. minted[c] = <<>> \/ minted[c] = <<codes[c].client>>
        BY <1>1 DEF IInv, Safe, Spent
      <3>2. Len(<<>>) <= 1 /\ \A id : Len(<<id>>) <= 1
        OBVIOUS
      <3> QED
        BY <3>1, <3>2
    <2> QED
      BY <2>1 DEF SingleUse
  <1> QED
    BY <1>1, Safety, PTL

-----------------------------------------------------------------------------
(* The endpoint implements the abstract grant.                              *)

LEMMA InitGrants == Init => Grant!Init
  BY DEF Init, Unbound, Grant!Init

LEMMA StepGrants == IInv /\ [Next]_vars => [Grant!Next]_(Grant!vars)
  <1> DEFINE grantee == [c \in Codes |-> codes[c].client]
  <1> SUFFICES ASSUME IInv, [Next]_vars PROVE Grant!Next \/ UNCHANGED <<grantee, minted>>
    BY DEF Grant!vars
  <1>1. ASSUME NEW c \in Codes, NEW id \in ClientIds, NEW uri \in Uris,
               NEW v \in Verifiers, Authorize(c, id, uri, v)
        PROVE  Grant!Next
    <2>1. /\ codes[c].client = None /\ codes'[c].client = id
          /\ \A d \in Codes : d # c => codes'[d] = codes[d]
      BY <1>1 DEF Authorize, StoreCode, Unbound, IInv, TypeOK
    <2>2. Grant!Grant(c, id)
      BY <1>1, <2>1 DEF Grant!Grant, Authorize
    <2> QED
      BY <2>2 DEF Grant!Next
  <1>2. ASSUME NEW h \in Handlers, Mint(h), minted' # minted PROVE Grant!Next
    <2> DEFINE c == handler[h].code
    <2>1. c \in Codes /\ Holds(h, c)
      BY <1>2 DEF Mint, Holds, IInv, TypeOK, Request, Fields
    <2>2. codes' = codes /\ minted' = [minted EXCEPT ![c] = Append(@, handler[h].client)]
      BY <1>2, <2>1 DEF Mint
    <2>3. codes[c].client = handler[h].client /\ minted[c] = <<>>
      BY <2>1 DEF IInv, Safe, OfGrantee, Spent
    <2>4. codes[c].client # None
      <3>1. handler[h] \in Request /\ handler[h].pc # "idle"
        BY <1>2 DEF Mint, IInv, TypeOK
      <3> QED
        BY <2>3, <3>1, ExchangeAssumption DEF Request
    <2>5. minted' = [minted EXCEPT ![c] = <<codes[c].client>>]
      BY <2>1, <2>2, <2>3 DEF IInv, TypeOK
    <2>6. Grant!Redeem(c)
      BY <2>1, <2>2, <2>3, <2>4, <2>5 DEF Grant!Redeem
    <2> QED
      BY <2>1, <2>6 DEF Grant!Next
  <1>3. ASSUME NEW h \in Handlers, DiscardCode(h) PROVE UNCHANGED <<grantee, minted>>
    <2>1. \A d \in Codes : codes'[d].client = codes[d].client
      BY <1>3 DEF DiscardCode, IInv, TypeOK, Binding
    <2> QED
      BY <1>3, <2>1 DEF DiscardCode
  <1>4. ASSUME codes' = codes, minted' = minted PROVE UNCHANGED <<grantee, minted>>
    BY <1>4
  <1>5. CASE UNCHANGED vars
    BY <1>4, <1>5 DEF vars, exchangeVars
  <1> QED
    BY <1>1, <1>2, <1>3, <1>4, <1>5 DEF Next, Serve, ReadCode, ReadCredentials, Consume,
       Lookup, CheckNoRow, CreateRow, Mint, Crash, Tick, ChangeTable

\* A code is granted to one client, which is the one that redeems it, once: what
\* two handlers, the cache and the database do together is RFC 6749, 4.1.2.
THEOREM RedemptionImplementsGrant == Spec => ImplementsGrant
  BY InitGrants, StepGrants, Safety, PTL DEF Spec, ImplementsGrant, Grant!Spec

-----------------------------------------------------------------------------
(* Rows.  A generation is positive from the moment a row exists, so nothing   *)
(* that names a row is taken for the absence of one.                          *)

Born == /\ \A id \in ClientIds : ActiveRow(id) => Exists(id)
        /\ \A h \in Handlers : handler[h].pc = "mint" => handler[h].gen > 0
        /\ \A t \in tokens : t.gen > 0 /\ clients[t.client].gen = t.gen

LEMMA TableBorn ==
  ASSUME TypeOK, Born, NEW id \in ClientIds, ChangeTable(id)
  PROVE  Born'
  <1>1. \A i \in ClientIds \ {id} : clients'[i] = clients[i]
    BY DEF ChangeTable, OperatorCreate, OperatorSave, OperatorDelete, Register, Insert,
           TypeOK, TableTypeOK
  <1>2. clients'[id].active => clients'[id].gen > 0
    <2>1. gens[id] \in Nat /\ clients[id] \in Row
      BY DEF TypeOK, TableTypeOK
    <2>2. CASE OperatorDelete(id)
      BY <2>2 DEF OperatorDelete, NoRow, TypeOK, TableTypeOK
    <2>3. ASSUME NEW tier, NEW uris, NEW grants, Insert(id, tier, uris, grants)
          PROVE  clients'[id].gen > 0
      BY <2>1, <2>3 DEF Insert, TypeOK, TableTypeOK
    <2>4. ASSUME NEW active, NEW tier, NEW uris, OperatorSave(id, active, tier, uris)
          PROVE  clients'[id].gen > 0
      BY <2>1, <2>4 DEF OperatorSave, Exists, Row, TypeOK, TableTypeOK
    <2> QED
      BY <2>2, <2>3, <2>4 DEF ChangeTable, OperatorCreate, Register
  <1> QED
    BY <1>1, <1>2 DEF ChangeTable, Born, ActiveRow, Exists, TypeOK

LEMMA ServeBorn ==
  ASSUME TypeOK, Born, NEW h \in Handlers, Serve(h) \/ Crash(h)
  PROVE  Born'
  <1> DEFINE id == handler[h].client
  <1>0. /\ handler[h] \in Request
        /\ handler[h].pc # "idle" => id \in ClientIds /\ clients[id] \in Row
    BY DEF TypeOK, TableTypeOK, Request
  <1>1. ASSUME UNCHANGED <<clients, tokens>>, Finish(h) PROVE Born'
    BY <1>1 DEF Born, ActiveRow, Exists, Finish, Idle, TypeOK
  <1>2. ASSUME UNCHANGED <<clients, tokens>>, NEW step \in Steps \ {"mint"}, Goto(h, step)
        PROVE Born'
    <2>1. handler'[h].pc = step /\ \A g \in Handlers : g # h => handler'[g] = handler[g]
      BY <1>0, <1>2 DEF Goto, TypeOK, Request, Fields
    <2> QED
      BY <1>2, <2>1 DEF Born, ActiveRow, Exists
  <1>3. ASSUME Lookup(h), Holding(h, clients[id], clients[id].tier), FindsClient(id) PROVE Born'
    <2>1. handler'[h].gen = clients[id].gen /\ \A g \in Handlers : g # h => handler'[g] = handler[g]
      BY <1>0, <1>3 DEF Holding, TypeOK, Request, Fields
    <2>2. clients[id].gen > 0
      BY <1>0, <1>3 DEF Lookup, FindsClient, Born, ActiveRow, Exists
    <2> QED
      BY <1>3, <2>1, <2>2 DEF Born, Lookup, tableVars, ActiveRow, Exists
  <1>4. CASE CreateRow(h)
    <2>1. CASE UNCHANGED clients /\ Finish(h)
      BY <1>1, <1>4, <2>1 DEF CreateRow
    <2>2. CASE ~(UNCHANGED clients /\ Finish(h))
      <3>1. /\ ~Exists(id) /\ id \in ClientIds /\ clients'[id].gen = gens[id] + 1
            /\ \A i \in ClientIds \ {id} : clients'[i] = clients[i]
            /\ Holding(h, clients'[id], DefaultTier)
        <4>1. ~Exists(id) /\ Insert(id, DefaultTier, {handler[h].uri}, {"authorization_code"})
              /\ Holding(h, clients'[id], DefaultTier)
          BY <1>4, <2>2 DEF CreateRow, Insert
        <4>2. id \in ClientIds
          BY <1>0, <1>4 DEF CreateRow
        <4> QED
          BY <4>1, <4>2 DEF Insert, TypeOK, TableTypeOK
      <3>2. clients'[id].gen > 0
        <4>1. gens[id] \in Nat
          BY <3>1 DEF TypeOK, TableTypeOK
        <4> QED
          BY <3>1, <4>1
      <3>3. handler'[h].gen > 0 /\ \A g \in Handlers : g # h => handler'[g] = handler[g]
        BY <1>0, <3>1, <3>2 DEF Holding, TypeOK, Request, Fields
      <3>4. \A t \in tokens : t.client # id
        BY <3>1 DEF Born, Exists
      <3>5. \A t \in tokens : t.client \in ClientIds
        BY DEF TypeOK, Token
      <3> QED
        BY <1>4, <3>1, <3>2, <3>3, <3>4, <3>5 DEF Born, ActiveRow, Exists, CreateRow
    <2> QED
      BY <2>1, <2>2
  <1>5. CASE Mint(h)
    <2>1. UNCHANGED clients /\ Finish(h) /\ handler[h].gen > 0
      BY <1>5 DEF Mint, tableVars, Born
    <2>2. \A t \in tokens' : t.gen > 0 /\ clients[t.client].gen = t.gen
      BY <1>5, <2>1 DEF Mint, SameRow, Born
    <2> QED
      BY <2>1, <2>2 DEF Born, ActiveRow, Exists, Finish, Idle, TypeOK
  <1> QED
    BY <1>1, <1>2, <1>3, <1>4, <1>5 DEF Serve, Crash, Consume, DiscardCode, Lookup,
       CheckNoRow, Steps, tableVars

LEMMA StepBorn == TypeOK /\ Born /\ [Next]_vars => Born'
  <1> SUFFICES ASSUME TypeOK, Born, [Next]_vars PROVE Born'
    OBVIOUS
  <1>1. ASSUME NEW h \in Handlers, NEW id \in ClientIds, NEW scope \in OrNone(Tiers),
               ReadCredentials(h, id, scope)
        PROVE  Born'
    <2>1. handler'[h].gen = clients[id].gen /\ \A g \in Handlers : g # h => handler'[g] = handler[g]
      BY <1>1 DEF ReadCredentials, Idle, TypeOK
    <2> QED
      BY <1>1, <2>1 DEF ReadCredentials, Born, Exists, ActiveRow, tableVars
  <1>2. ASSUME NEW h \in Handlers, NEW c \in Codes, NEW id \in ClientIds,
               NEW uri \in Uris, NEW v \in Verifiers, ReadCode(h, c, id, uri, v)
        PROVE  Born'
    <2>1. handler'[h].pc = "consume" /\ \A g \in Handlers : g # h => handler'[g] = handler[g]
      BY <1>2 DEF ReadCode, Idle, TypeOK
    <2> QED
      BY <1>2, <2>1 DEF ReadCode, Born, Exists, ActiveRow, tableVars
  <1>3. ASSUME UNCHANGED <<clients, handler, tokens>> PROVE Born'
    BY <1>3 DEF Born, ActiveRow, Exists
  <1> QED
    BY <1>1, <1>2, <1>3, TableBorn, ServeBorn
       DEF Next, Authorize, Tick, tableVars, vars, exchangeVars

\* A token belongs to the row it was minted for: what is left of a deleted
\* client never serves the client that is registered under its id later.
THEOREM TokensBelongToRows == Spec => []TokensFollowRow
  <1>1. Init => Born
    BY DEF Init, TableInit, NoRow, Idle, Born, ActiveRow
  <1>2. Born => TokensFollowRow
    BY DEF Born, TokensFollowRow
  <1> QED
    BY <1>1, <1>2, StepBorn, TypeCorrect, PTL DEF Spec

\* T7: whatever requests arrive and however they interleave, only an operator's
\* step changes a row that exists.
THEOREM RequestsAreNoAuthority == Spec => OperatorAuthority
  <1> DEFINE Kept == \A id \in ClientIds : Exists(id) /\ Exists(id)' =>
                       clients'[id] = clients[id] \/ edits' = edits + 1
  <1>1. ASSUME TypeOK, [Next]_vars PROVE [Kept]_vars
    <2>1. ASSUME UNCHANGED clients PROVE Kept
      BY <2>1
    <2>2. ASSUME NEW id \in ClientIds, NEW tier, NEW uris, NEW grants,
                 Insert(id, tier, uris, grants)
          PROVE  Kept
      BY <2>2 DEF Insert, Exists, TypeOK, TableTypeOK
    <2>3. ASSUME NEW id \in ClientIds, ChangeTable(id) PROVE Kept
      <3>1. CASE edits' = edits + 1
        BY <3>1
      <3>2. CASE edits' # edits + 1
        BY <2>2, <2>3, <3>2 DEF ChangeTable, OperatorCreate, OperatorSave, OperatorDelete,
                                OperatorStep, Register
      <3> QED
        BY <3>1, <3>2
    <2>4. ASSUME NEW h \in Handlers, CreateRow(h) PROVE Kept
      <3>1. handler[h].client \in ClientIds
        <4>1. handler[h] \in Request /\ handler[h].pc = "create"
          BY <1>1, <2>4 DEF CreateRow, TypeOK
        <4> QED
          BY <4>1 DEF Request
      <3> QED
        BY <2>1, <2>2, <2>4, <3>1 DEF CreateRow
    <2> QED
      BY <1>1, <2>1, <2>3, <2>4 DEF Next, Serve, Authorize, ReadCode, ReadCredentials, Consume,
         DiscardCode, Lookup, CheckNoRow, Mint, Crash, Tick, tableVars
  <1> QED
    BY <1>1, TypeCorrect, PTL DEF Spec, OperatorAuthority

-----------------------------------------------------------------------------
(* What a handler is about to mint was true while it served the request.      *)

Grounded(h) == handler[h].pc = "mint" =>
  \E row \in witness[h] :
    /\ row.active
    /\ row.gen = handler[h].gen
    /\ handler[h].tier <= row.tier
    /\ handler[h].code # None => handler[h].tier = row.tier

LEMMA WitnessGrows ==
  ASSUME TypeOK, Remember, NEW h \in Handlers, handler[h].pc # "idle",
         handler'[h].pc # "idle"
  PROVE  /\ witness[h] \subseteq witness'[h]
         /\ Seen(clients[handler'[h].client]) \in witness'[h]
         /\ Seen(clients'[handler'[h].client]) \in witness'[h]
  BY DEF Remember

LEMMA OthersGrounded ==
  ASSUME TypeOK, Remember, NEW g \in Handlers, Grounded(g), handler'[g] = handler[g]
  PROVE  Grounded(g)'
  BY WitnessGrows DEF Grounded

LEMMA StoppedGrounded ==
  ASSUME TypeOK, NEW h \in Handlers, Finish(h) \/ \E step \in Steps \ {"mint"} : Goto(h, step)
  PROVE  Grounded(h)'
  BY DEF Grounded, Finish, Idle, Goto, TypeOK, Request, Fields

LEMMA HoldingGrounded ==
  ASSUME TypeOK, Remember, NEW h \in Handlers, handler[h].pc # "idle",
         NEW row \in {clients[handler[h].client], clients'[handler[h].client]},
         row.active, row.tier \in Tiers, Holding(h, row, row.tier)
  PROVE  Grounded(h)'
  <1>1. /\ handler'[h].pc = "mint" /\ handler'[h].client = handler[h].client
        /\ handler'[h].gen = row.gen /\ handler'[h].tier = row.tier
    BY DEF Holding, TypeOK, Request, Fields
  <1>2. Seen(row) \in witness'[h]
    BY <1>1, WitnessGrows
  <1>3. row.tier <= row.tier
    BY TableAssumption DEF Tiers
  <1>4. /\ Seen(row).active /\ Seen(row).gen = handler'[h].gen
        /\ Seen(row).tier = handler'[h].tier
    BY <1>1 DEF Seen
  <1> QED
    BY <1>1, <1>2, <1>3, <1>4 DEF Grounded

LEMMA ServeGrounded ==
  ASSUME TypeOK, NEW h \in Handlers, Serve(h) \/ Crash(h)
  PROVE  Grounded(h)'
  <1> DEFINE id == handler[h].client
  <1>0. handler[h] \in Request
    BY DEF TypeOK
  <1>1. CASE Finish(h) \/ \E step \in Steps \ {"mint"} : Goto(h, step)
    BY <1>1, StoppedGrounded
  <1>2. ASSUME Lookup(h), FindsClient(id), Holding(h, clients[id], clients[id].tier)
        PROVE  Grounded(h)'
    <2>1. clients[id].tier \in Tiers
      BY <1>0, <1>2 DEF Lookup, TypeOK, TableTypeOK, Request, Row
    <2> QED
      BY <1>2, <2>1, HoldingGrounded DEF Lookup, FindsClient, ActiveRow
  <1>3. ASSUME CreateRow(h), NEW uris, NEW grants, Insert(id, DefaultTier, uris, grants),
               Holding(h, clients'[id], DefaultTier)
        PROVE  Grounded(h)'
    <2>1. id \in ClientIds
      BY <1>0, <1>3 DEF CreateRow, Request
    <2>2. clients'[id].active /\ clients'[id].tier = DefaultTier
      BY <1>3, <2>1 DEF Insert, TypeOK, TableTypeOK
    <2> QED
      BY <1>3, <2>2, HoldingGrounded, TableAssumption DEF CreateRow
  <1> QED
    BY <1>1, <1>2, <1>3 DEF Serve, Crash, Consume, DiscardCode, Lookup, CheckNoRow, CreateRow,
       Mint, Steps

LEMMA CredentialsGrounded ==
  ASSUME TypeOK, NEW h \in Handlers, NEW id \in ClientIds, NEW scope \in OrNone(Tiers),
         ReadCredentials(h, id, scope)
  PROVE  Grounded(h)'
  <1>1. /\ handler'[h].pc = "mint" /\ handler'[h].client = id /\ handler'[h].code = None
        /\ handler'[h].gen = clients[id].gen
        /\ handler'[h].tier = Effective(scope, clients[id].tier)
    BY DEF ReadCredentials, Idle, TypeOK
  <1>2. Seen(clients[id]) \in witness'[h]
    BY <1>1 DEF ReadCredentials, Remember
  <1>3. Seen(clients[id]).active /\ Seen(clients[id]).gen = clients[id].gen
    BY DEF ReadCredentials, FindsClient, ActiveRow, Seen
  <1>4. handler'[h].tier <= Seen(clients[id]).tier
    <2>1. clients[id].tier \in Nat
      BY TableAssumption DEF TypeOK, TableTypeOK, Row, Tiers
    <2> QED
      BY <1>1, <2>1 DEF ReadCredentials, ScopeAllowed, Effective, Seen
  <1> QED
    BY <1>1, <1>2, <1>3, <1>4 DEF Grounded

LEMMA StepGrounded == TypeOK /\ MintIsCurrent /\ [Next]_vars => MintIsCurrent'
  <1> SUFFICES ASSUME TypeOK, MintIsCurrent, [Next]_vars, NEW g \in Handlers
               PROVE  Grounded(g)'
    BY DEF MintIsCurrent, Grounded
  <1>0. Grounded(g)
    BY DEF MintIsCurrent, Grounded
  <1>1. CASE Remember /\ handler'[g] = handler[g]
    BY <1>0, <1>1, OthersGrounded
  <1>2. CASE UNCHANGED <<handler, witness>>
    BY <1>0, <1>2 DEF Grounded
  <1>3. ASSUME NEW h \in Handlers, Serve(h) \/ Crash(h) PROVE Grounded(g)'
    <2>1. CASE g = h
      BY <1>3, <2>1, ServeGrounded
    <2>2. CASE g # h
      <3>1. handler'[g] = handler[g]
        BY <1>3, <2>2 DEF Serve, Crash, Consume, DiscardCode, Lookup, CheckNoRow, CreateRow, Mint,
           Finish, Goto, Holding, TypeOK
      <3>2. Remember
        BY <1>3 DEF Serve, Crash, Consume, DiscardCode, Lookup, CheckNoRow, CreateRow, Mint
      <3> QED
        BY <1>0, <3>1, <3>2, OthersGrounded
    <2> QED
      BY <2>1, <2>2
  <1>4. ASSUME NEW h \in Handlers, NEW id \in ClientIds, NEW scope \in OrNone(Tiers),
               ReadCredentials(h, id, scope)
        PROVE  Grounded(g)'
    <2>1. g # h => handler'[g] = handler[g]
      BY <1>4 DEF ReadCredentials, TypeOK
    <2> QED
      BY <1>0, <1>4, <2>1, CredentialsGrounded, OthersGrounded DEF ReadCredentials
  <1>5. ASSUME NEW h \in Handlers, NEW c \in Codes, NEW id \in ClientIds,
               NEW uri \in Uris, NEW v \in Verifiers, ReadCode(h, c, id, uri, v)
        PROVE  Grounded(g)'
    <2>1. /\ g # h => handler'[g] = handler[g]
          /\ handler'[h].pc = "consume"
      BY <1>5 DEF ReadCode, Idle, TypeOK
    <2> QED
      BY <1>0, <1>5, <2>1, OthersGrounded DEF ReadCode, Grounded
  <1> QED
    BY <1>1, <1>2, <1>3, <1>4, <1>5 DEF Next, Authorize, ChangeTable, Tick, vars, exchangeVars

\* An activation or a tier a token is minted with held at some moment of the
\* request: an operator's edit that was saved before is never missed.
THEOREM MintingIsCurrent == Spec => []MintIsCurrent
  <1>1. Init => MintIsCurrent
    BY DEF Init, Idle, MintIsCurrent
  <1> QED
    BY <1>1, StepGrounded, TypeCorrect, PTL DEF Spec

=============================================================================
