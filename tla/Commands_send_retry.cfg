\* A retry of an accepted SendCommand after a metadata refresh.
SPECIFICATION Spec
CONSTANTS
  s1 = s1
  s2 = s2
  o1 = o1
  o2 = o2
  Sessions = {s1, s2}
  Devices = {s2}
  Profiles = {p1}
  NoProfile = NoProfile
  Operations = {o1}
  Requests = {q1}
  Workloads <- OneCall
  PresenceTTL = 1
  PresenceKeep = 2
  CommandTTL = 1
  ResultKeep = 1
  MaxPending = 1
  MaxRevision = 1
INVARIANTS
  SendRetryIdempotent
