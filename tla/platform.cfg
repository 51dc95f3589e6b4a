SPECIFICATION Spec
CONSTANTS
  e1 = e1
  e2 = e2
  Processes = {api1, api2}
  Advances = {1}
  MaxMoves = 2
  MaxTime = 1
  Edits = {e1, e2}
  EffectiveAt <- MCEffectiveAt
  DemoParameters = DemoParameters
  Registrations = {q1, q2}
  Tokens = {t1, t2}
  NoToken = NoToken
  Lifetime = 1
  Rows = {1, 2, 3}
  RateOf <- MCRateOf
  ExpiresAt <- MCExpiresAt
  PageSize = 1
CONSTRAINTS
  OneAtATime
  MovesApart
  RegisteredFirst
SYMMETRY Alike
INVARIANTS
  MoveOutlivesProcess
  ServedIsCommitted
  OwnEditServed
  SignInHeals
  SignOutHolds
  BrowsedOnce
CHECK_DEADLOCK FALSE
