SPECIFICATION Spec
CONSTANTS
  generated = generated
  r1 = r1
  r2 = r2
  None = None
  ClientIds <- MCClientIds
  WalkUpIds = {}
  Uris = {u1, u2}
  Requests <- MCRequests
  Users = {alice}
  Anonymous = Anonymous
  TopTier = 1
  DefaultTier = 0
  RegistrationOpen = TRUE
  AutoRegister = TRUE
  Allowlisted = {u1}
  AutoApprove = TRUE
  MaxGen = 2
  MaxEdits = 2
SYMMETRY Symmetry
INVARIANTS
  TypeOK
  FastPathIsConsented
  FirstTouchRendersForm
  ConsentsAreApproved
  ApprovedTierIsCurrent
CHECK_DEADLOCK FALSE
