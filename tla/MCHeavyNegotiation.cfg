SPECIFICATION Spec
CONSTANTS
  c1 = c1  c2 = c2  ann = ann  root = root  wide = wide  narrow = narrow
  agent = agent  group = group  class = class  read = read  write = write  act = act  flat = flat
  Callers = {c1, c2}
  Users = {ann, root}
  Unrestricted = {root}
  Handlers = {h1}
  Tokens = {k1}
  Routes = {wide, narrow}
  Conns = {agent}
  Tools = {group, class, flat}
  KindOf <- MCKindOf
  ActionsOf <- MCActionsOf
  TierOf <- MCTierOf
  TopTier = 1
  Ceiling <- MCCeiling
  AllowedBy <- MCAllowedBy
  FirstUser <- MCFirstUser
  Help = Help
  NoAction = NoAction
  None = None
  Inactive = Inactive
  MaxEdits = 2
CHECK_DEADLOCK FALSE
INVARIANTS
  TypeOK
  ResultsAreRedeemable
PROPERTIES
  ServedToItsOwner
  ServedIsAuthorized
