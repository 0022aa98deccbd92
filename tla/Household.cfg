SPECIFICATION Spec
CONSTANTS
  t1 = t1
  t2 = t2
  t3 = t3
  c1 = c1
  c2 = c2
  p1 = p1
  p2 = p2
  u1 = u1
  u2 = u2
  a1 = a1
  a2 = a2
  k1 = k1
  k2 = k2
  first = first
  other = other
  Categories = {c1, c2}
  Profiles = {p1, p2}
  Addons = {a1, a2}
  Collections = {k1, k2}
  Users = {u1, u2}
  Transports = {first, other}
  None = None
  MaxCollections = 1
  Txs = {t1, t2, t3}
  Plans <- Mixes
  Assignments <- Asked
  AddonCalls <- Requests
  Households <- Start
INVARIANTS
  TypeOK
  AssignmentLimits
  AdministratorRemains
PROPERTY
  ActorIsAdministrator
CHECK_DEADLOCK FALSE
