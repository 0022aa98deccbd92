SPECIFICATION Spec
CONSTANTS
  c1 = c1
  c2 = c2
  a = a
  b = b
  d = d
  key = key
  other = other
  plain = plain
  rich = rich
  Sessions = {a, b, d}
  OwnerOf <- Owner
  UserOf <- User
  MaxRefs = 6
  OwnerRefs = 3
  UserRefs = 4
  StoredRefs = 4
  Keys = {key, other, NoKey}
  NoKey = NoKey
  Capabilities = {plain, rich}
  Calls = {c1, c2}
  Programs <- Mixes
  MaxPlays = 4
  MaxRows = 4
  OwnerLimit = 1
  UserLimit = 2
  PlayLimit = 2
  HandleLimit = 2
  ProfileOf <- Profile
  SessionRows = 2
  ProfileRows = 2
  RowLimit = 3
  MaxChanges = 2
INVARIANTS
  TypeOK
  PinsExact
  DeliveriesOwned
  CurrentDelivery
  StopIsFinal
PROPERTIES
  RevokedSettles
CHECK_DEADLOCK FALSE
