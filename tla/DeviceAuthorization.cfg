\* Two calls at a time on one or two codes of both protocols, while grants, accounts, devices and
\* categories change; or five codes from three sources.
SPECIFICATION Spec
CONSTANTS
  u1 = u1
  u2 = u2
  k1 = k1
  k2 = k2
  s1 = s1
  s2 = s2
  s3 = s3
  Codes = {c1, c2, c3, c4, c5}
  Sources = {s1, s2, s3}
  Clients = {i1}
  Purposes = {"native", "quick"}
  Users = {u1, u2}
  Admins = {u2}
  NoUser = NoUser
  Profiles = {p1}
  NoProfile = NoProfile
  Categories = {k1, k2}
  NoCategory = NoCategory
  Households <- SharedMovingOrBusy
  Requests = {q1, q2}
  Capacity = 4
  SourceCapacity = 2
  ReservePercent = 10
  CodeTTL = 2
  Interval = 1
  MaxDevices = 1
SYMMETRY Symmetry
INVARIANTS
  TypeOK
  DeviceLimits
  RetryAfterExact
PROPERTIES
  AuthorityWhenUsed
