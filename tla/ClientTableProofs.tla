------------------------- MODULE ClientTableProofs --------------------------
(* Lemmas about the client table, for the proofs of the modules that use it. *)
EXTENDS ClientTable, TLAPS

LEMMA NoRowType == NoRow \in Row
  BY TableAssumption DEF NoRow, Row, Tiers, GrantSets

LEMMA InsertType ==
  ASSUME TableTypeOK, NEW id \in ClientIds, NEW tier \in Tiers,
         NEW uris \in SUBSET Uris, NEW grants \in GrantSets,
         Insert(id, tier, uris, grants)
  PROVE  /\ clients' \in [ClientIds -> Row]
         /\ gens' \in [ClientIds -> Nat]
  BY DEF TableTypeOK, Insert, Row

\* What the operator and dynamic registration do to the table.
TableStep(id) ==
  \/ \E tier \in Tiers, uris \in SUBSET Uris, grants \in GrantSets :
       OperatorCreate(id, tier, uris, grants)
  \/ \E active \in BOOLEAN, tier \in Tiers, uris \in SUBSET Uris :
       OperatorSave(id, active, tier, uris)
  \/ OperatorDelete(id)
  \/ \E uris \in SUBSET Uris : Register(id, uris)

LEMMA TableStepType ==
  ASSUME TableTypeOK, NEW id \in ClientIds, TableStep(id)
  PROVE  TableTypeOK'
  <1>1. ASSUME NEW tier \in Tiers, NEW uris \in SUBSET Uris, NEW grants \in GrantSets,
               OperatorCreate(id, tier, uris, grants)
        PROVE  TableTypeOK'
    <2>1. clients' \in [ClientIds -> Row] /\ gens' \in [ClientIds -> Nat]
      BY <1>1, InsertType DEF OperatorCreate
    <2> QED
      BY <1>1, <2>1 DEF OperatorCreate, OperatorStep, TableTypeOK
  <1>2. ASSUME NEW active \in BOOLEAN, NEW tier \in Tiers, NEW uris \in SUBSET Uris,
               OperatorSave(id, active, tier, uris)
        PROVE  TableTypeOK'
    <2>1. [clients[id] EXCEPT !.active = active, !.tier = tier, !.uris = uris] \in Row
      BY DEF TableTypeOK, Row
    <2>2. clients' \in [ClientIds -> Row]
      BY <1>2, <2>1 DEF OperatorSave, TableTypeOK
    <2> QED
      BY <1>2, <2>2 DEF OperatorSave, OperatorStep, TableTypeOK
  <1>3. CASE OperatorDelete(id)
    BY <1>3, NoRowType DEF OperatorDelete, OperatorStep, TableTypeOK
  <1>4. ASSUME NEW uris \in SUBSET Uris, Register(id, uris)
        PROVE  TableTypeOK'
    BY <1>4, InsertType, TableAssumption DEF Register, TableTypeOK, GrantSets
  <1> QED
    BY <1>1, <1>2, <1>3, <1>4 DEF TableStep

=============================================================================
