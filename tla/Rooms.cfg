\* Two sessions and two room ids: admission of rooms, joins, updates, loss
\* of the host, and the end of rooms nobody may see.  No symmetry: it is unsound for liveness.
SPECIFICATION Spec
CONSTANTS
  Sessions = {s1, s2}
  Profiles = {p1}
  Rooms = {r1, r2}
  NoProfile = NoProfile
  NoSession = NoSession
  PresenceTTL = 1
  RoomTTL = 1
  MaxRooms = 1
  MaxMembers = 2
  MaxVersion = 3
INVARIANTS
  HostLimit
  TypeOK
  UpdatesInVersionOrder
PROPERTIES
  DeadStaysDead
  RevokedRoomsEnd
