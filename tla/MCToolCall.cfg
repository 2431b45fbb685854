SPECIFICATION Spec
CONSTANTS
  s1 = s1
  o1 = o1
  k1 = k1
  reader = reader
  writer = writer
  None = None
  Anonymous = Anonymous
  StaticTokens = {s1}
  OAuthTokens = {o1}
  Clients = {k1}
  ClientOf <- MCClientOf
  Conns = {1, 2}
  Tools = {reader, writer}
  TopTier = 1
  MaxEdits = 3
  Handlers = {h1}
  AnonymousTier = 0
  Ceilings <- MCCeilings
  TierOf <- MCTierOf
INVARIANTS
  TypeOK
  AgentPolicyHolds
  AuthorityFixedAtIssue
  RevocationStopsCalls
CHECK_DEADLOCK FALSE
