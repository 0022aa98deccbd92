\* Room for one entry: builds race with callers that join, give up and come back, with
\* clears, evictions and expiry; nobody waits for ever.
SPECIFICATION CacheSpec
CONSTANTS
  k1 = k1
  k2 = k2
  w1 = w1
  w2 = w2
  Keys = {k1, k2}
  Callers = {w1, w2}
  Workloads <- OneKeyOrTwo
  Calls = {c1, c2}
  Owners = {o1}
  None = None
  MaxEntries = 1
  EntryTTL = 3
  HandoffTTL = 2
  MaxClears = 1
INVARIANTS
  CacheTypeOK
  CacheCoherent
  OneBuildPerKey
PROPERTIES
  WaitersAnswered
