\* Either copies and variants of one SendCommand race while the target moves on,
\* or two commands compete for one pending place.
SPECIFICATION Spec
CONSTANTS
  s1 = s1
  s2 = s2
  o1 = o1
  o2 = o2
  Sessions = {s1, s2}
  Devices = {s2}
  Profiles = {p1}
  NoProfile = NoProfile
  Operations = {o1, o2}
  Requests = {q1, q2}
  Workloads <- RaceAndLimit
  PresenceTTL = 1
  PresenceKeep = 2
  CommandTTL = 1
  ResultKeep = 1
  MaxPending = 1
  MaxRevision = 2
INVARIANTS
  TypeOK
  SendsSerialised
  ObservedResultStable
