\* Two authentications at a time beside refreshes, selections and revocations.
SPECIFICATION Spec
CONSTANTS
  Sessions = {s1}
  Profiles = {p1}
  NoProfile = NoProfile
  Compats = {c1}
  Requests = {q1, q2}
  NoSession = NoSession
  NoCompat = NoCompat
  AccessTTL = 1
  RefreshTTL = 2
  GrantTTL = 1
  Grace = 1
  Retention = 1
  MaxWaiters = 2
  MaxTokens = 2
  MaxSelections = 2
SYMMETRY Symmetry
INVARIANTS
  TypeOK
  OneWorkingToken
  LifetimesNested
  FlightsShared
PROPERTIES
  WorkUnderItsSelection
CHECK_DEADLOCK FALSE
