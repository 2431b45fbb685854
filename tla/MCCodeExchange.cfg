SPECIFICATION Spec
CONSTANTS
  generated = generated
  walkup = walkup
  h1 = h1
  h2 = h2
  k1 = k1
  None = None
  ClientIds <- MCClientIds
  WalkUpIds <- MCWalkUpIds
  Uris = {u1}
  Handlers <- MCHandlers
  Codes = {k1}
  v1 = v1
  v2 = v2
  Verifiers <- MCVerifiers
  TopTier = 1
  DefaultTier = 0
  RegistrationOpen = TRUE
  AutoRegister = TRUE
  Allowlisted = {u1}
  Ttl = 3
  Stall = 1
  MaxTime = 3
  MaxGen = 2
  MaxEdits = 2
SYMMETRY Symmetry
INVARIANTS
  TypeOK
  SingleUse
  MintIsCurrent
  TokensFollowRow
PROPERTIES
  ImplementsGrant
  OperatorAuthority
CHECK_DEADLOCK FALSE
