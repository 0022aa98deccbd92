---------------------- MODULE RoomsAndCacheProofs ----------------------
(***************************************************************************)
(* Theorems about Rooms, for any sets of sessions, profiles and room ids   *)
(* and any limits, and about PreparationCache, for any keys, callers,      *)
(* calls and owners, any workload and any limits.                          *)
(***************************************************************************)
EXTENDS Rooms, PreparationCache, FiniteSetTheorems, TLAPS

-----------------------------------------------------------------------------
(* Rooms: type correctness.                                                *)

\* What joining, staying and growing older make of a member's row is a member's row again.
LEMMA MemberRows ==
  /\ NotMember \in Member
  /\ \A p \in Profiles \cup {NoProfile}, role \in {"host", "participant"} :
       Seen(p, role) \in Member
  /\ \A m \in Member : Older(m) \in Member /\ Refreshed(m) \in Member
BY RoomsAssumption DEF NotMember, Seen, Older, Refreshed, Member

\* What the operations make of a room's row is a room's row again.
LEMMA RoomRows ==
  /\ UnusedRoom \in Room
  /\ ClosedRoom \in Room
  /\ \A row \in Room : Renewed(row) \in Room /\ Shorter(row) \in Room
<1> USE RoomsAssumption
<1>1. UnusedRoom \in Room /\ ClosedRoom \in Room
  <2>1. <<>> \in Seq(1..MaxVersion) /\ 0 \in 0..MaxVersion /\ 0 \in 0..RoomTTL
    OBVIOUS
  <2>2. UnusedRoom \in Room
    BY <2>1 DEF UnusedRoom, Room
  <2> QED BY <2>2 DEF ClosedRoom, Room
<1>2. ASSUME NEW row \in Room PROVE Renewed(row) \in Room /\ Shorter(row) \in Room
  <2>1. row.life \in Nat /\ (row.life # 0 => row.life - 1 \in 0..RoomTTL)
    BY DEF Room
  <2>2. Renewed(row) \in Room
    <3>1. Renewed(row) = [row EXCEPT !.life = RoomTTL, !.revived = Renewed(row).revived]
      BY DEF Renewed, Room
    <3>2. Renewed(row).revived \in BOOLEAN
      BY DEF Renewed, Room
    <3>3. RoomTTL \in 0..RoomTTL
      OBVIOUS
    <3> HIDE DEF Renewed
    <3> QED BY <3>1, <3>2, <3>3 DEF Room
  <2>3. CASE row.life = 0
    BY <2>2, <2>3 DEF Shorter
  <2>4. CASE row.life # 0
    BY <2>1, <2>2, <2>4 DEF Shorter, Room
  <2> QED BY <2>2, <2>3, <2>4
<1> QED BY <1>1, <1>2

\* An accepted update leaves a room's row of the right type.
LEMMA UpdatedRow ==
  ASSUME NEW row \in Room, row.version < MaxVersion, NEW expected \in 1..MaxVersion
  PROVE  Updated(row, expected) \in Room
<1>1. row.version + 1 \in 0..MaxVersion
  BY RoomsAssumption DEF Room
<1>2. Renewed(row) \in Room /\ Renewed(row).version = row.version
  BY RoomRows DEF Renewed, Room
<1>3. Append(Renewed(row).applied, expected) \in Seq(1..MaxVersion)
  BY <1>2 DEF Room
<1> QED BY <1>1, <1>2, <1>3 DEF Updated, Room

\* Deleting rooms, with the cascade into their members, keeps the types.
LEMMA DeleteRoomsType ==
  ASSUME TypeOK, NEW R \in SUBSET Rooms, DeleteRooms(R)
  PROVE  room' \in [Rooms -> Room] /\ member' \in [Rooms -> [Sessions -> Member]]
BY RoomRows, MemberRows DEF TypeOK, DeleteRooms

\* Rooms starts in a state of the right type.
LEMMA InitType == Init => TypeOK
BY RoomRows, MemberRows, RoomsAssumption DEF Init, TypeOK, Held, Open

\* Every operation of Rooms, and of what surrounds it, keeps the types.
LEMMA NextType == TypeOK /\ [Next]_vars => TypeOK'
<1> SUFFICES ASSUME TypeOK, [Next]_vars PROVE TypeOK'
  OBVIOUS
<1> USE DEF Open, Held, Release
<1>1. ASSUME NEW s \in Sessions, CountRooms(s) PROVE TypeOK'
  BY <1>1 DEF CountRooms, AdmissionLock, TypeOK
<1>2. ASSUME NEW s \in Sessions, AbandonCreate(s) PROVE TypeOK'
  BY <1>2 DEF AbandonCreate, TypeOK
<1>3. ASSUME NEW s \in Sessions, DeleteSession(s) PROVE TypeOK'
  BY <1>3, RoomRows, MemberRows DEF DeleteSession, TypeOK
<1>15. ASSUME NEW s \in Sessions, NEW r \in Rooms, LockRoom(s, r) PROVE TypeOK'
  BY <1>15 DEF LockRoom, lockLiveRoom, Live, TypeOK
<1>16. ASSUME NEW r \in Rooms, AbandonRequest(r) PROVE TypeOK'
  BY <1>16 DEF AbandonRequest, TypeOK
<1>4. ASSUME NEW s \in Sessions, NEW r \in Rooms, InsertRoom(s, r) PROVE TypeOK'
  <2>1. [status |-> "open", host |-> s, hostProfile |-> profile[s],
         version |-> 1, life |-> RoomTTL,
         applied |-> <<>>, revived |-> FALSE] \in Room
    BY RoomsAssumption DEF Room, TypeOK
  <2>2. Seen(profile[s], "host") \in Member
    BY MemberRows DEF TypeOK
  <2> QED BY <1>4, <2>1, <2>2 DEF InsertRoom, TypeOK
<1>5. ASSUME NEW s \in Sessions, NEW r \in Rooms, JoinRoom(s, r) PROVE TypeOK'
  <2>1. AfterPurge(r) \in [Sessions -> Member]
    BY MemberRows DEF AfterPurge, TypeOK
  <2>2. JoinedRole(AfterPurge(r)[s]) \in {"host", "participant"}
    BY <2>1 DEF JoinedRole, Member
  <2>3. Seen(profile[s], JoinedRole(AfterPurge(r)[s])) \in Member
    BY <2>2, MemberRows DEF TypeOK
  <2>4. member' \in [Rooms -> [Sessions -> Member]]
    BY <1>5, <2>1, <2>3 DEF JoinRoom, TypeOK
  <2>5. room' \in [Rooms -> Room]
    <3>1. Renewed(room[r]) \in Room
      BY RoomRows DEF TypeOK
    <3>2. room' = [room EXCEPT ![r] = Renewed(@)]
      BY <1>5 DEF JoinRoom
    <3> QED BY <3>1, <3>2 DEF TypeOK
  <2>6. \A q \in Rooms : room'[q].status = room[q].status
    BY <1>5 DEF JoinRoom, Renewed, TypeOK, Room
  <2> QED BY <1>5, <2>4, <2>5, <2>6 DEF JoinRoom, TypeOK
<1>6. ASSUME NEW s \in Sessions, NEW r \in Rooms, ReadRoom(s, r) PROVE TypeOK'
  <2>1. Refreshed(member[r][s]) \in Member
    BY MemberRows DEF TypeOK
  <2>2. member' \in [Rooms -> [Sessions -> Member]]
    BY <1>6, <2>1 DEF ReadRoom, TypeOK
  <2> QED BY <1>6, <2>2 DEF ReadRoom, TypeOK
<1>7. ASSUME NEW s \in Sessions, NEW r \in Rooms, LeaveRoom(s, r) PROVE TypeOK'
  <2>1. CASE member[r][s].role = "host"
    <3>1. /\ room' = [q \in Rooms |-> IF q \in {r} THEN ClosedRoom ELSE room[q]]
          /\ DeleteRooms({r})
          /\ holder' = [holder EXCEPT ![r] = NoSession]
          /\ UNCHANGED <<profile, access, creating>>
      BY <1>7, <2>1 DEF LeaveRoom, DeleteRooms
    <3>2. room' \in [Rooms -> Room] /\ member' \in [Rooms -> [Sessions -> Member]]
      BY <3>1, DeleteRoomsType
    <3>3. \A q \in Rooms : holder'[q] # NoSession => room'[q].status = "open"
      BY <3>1 DEF TypeOK
    <3> QED BY <3>1, <3>2, <3>3 DEF TypeOK
  <2>2. CASE member[r][s].role # "host"
    <3>1. member' = [member EXCEPT ![r][s] = NotMember] /\ UNCHANGED room
      BY <1>7, <2>2 DEF LeaveRoom
    <3>2. member' \in [Rooms -> [Sessions -> Member]]
      BY <3>1, MemberRows DEF TypeOK
    <3> QED BY <1>7, <3>1, <3>2 DEF LeaveRoom, TypeOK
  <2> QED BY <2>1, <2>2
<1>8. ASSUME NEW s \in Sessions, NEW r \in Rooms, NEW v \in 1..MaxVersion,
             UpdateRoom(s, r, v)
      PROVE  TypeOK'
  <2>1. room' \in [Rooms -> Room]
    <3>1. Updated(room[r], v) \in Room
      BY <1>8, UpdatedRow DEF UpdateRoom, TypeOK
    <3>2. room' = [room EXCEPT ![r] = Updated(@, v)]
      BY <1>8 DEF UpdateRoom
    <3> QED BY <3>1, <3>2 DEF TypeOK
  <2>2. member' \in [Rooms -> [Sessions -> Member]]
    <3>1. Refreshed(member[r][s]) \in Member
      BY MemberRows DEF TypeOK
    <3> QED BY <1>8, <3>1 DEF UpdateRoom, TypeOK
  <2>3. \A q \in Rooms : room'[q].status = room[q].status
    BY <1>8 DEF UpdateRoom, Updated, Renewed, TypeOK, Room
  <2> QED BY <1>8, <2>1, <2>2, <2>3 DEF UpdateRoom, TypeOK
<1>9. ASSUME NEW s \in Sessions, NEW p \in Profiles \cup {NoProfile}, SelectProfile(s, p)
      PROVE  TypeOK'
  BY <1>9 DEF SelectProfile, TypeOK
<1>10. ASSUME NEW p \in Profiles, DeleteProfile(p) PROVE TypeOK'
  BY <1>10, RoomRows, MemberRows DEF DeleteProfile, TypeOK
<1>11. ASSUME NEW p \in Profiles, NEW a \in {"granted", "revoked"}, SetAccess(p, a)
       PROVE  TypeOK'
  BY <1>11 DEF SetAccess, TypeOK
<1>12. CASE Cleanup
  <2>1. room' \in [Rooms -> Room] /\ member' \in [Rooms -> [Sessions -> Member]]
    BY <1>12, DeleteRoomsType DEF Cleanup
  <2>2. \A r \in Rooms : Held(r) => room'[r] = room[r]
    BY <1>12 DEF Cleanup, DeleteRooms
  <2> QED BY <1>12, <2>1, <2>2 DEF Cleanup, TypeOK
<1>13. CASE Tick
  <2>1. room' \in [Rooms -> Room]
    <3>1. \A r \in Rooms : Shorter(room[r]) \in Room
      BY RoomRows DEF TypeOK
    <3>2. room' = [r \in Rooms |-> Shorter(room[r])]
      BY <1>13 DEF Tick
    <3> QED BY <3>1, <3>2
  <2>2. member' \in [Rooms -> [Sessions -> Member]]
    BY <1>13, MemberRows DEF Tick, TypeOK
  <2>3. \A r \in Rooms : room'[r].status = room[r].status
    BY <1>13 DEF Tick, Shorter, TypeOK, Room
  <2> QED BY <1>13, <2>1, <2>2, <2>3 DEF Tick, TypeOK
<1>14. CASE UNCHANGED vars
  BY <1>14 DEF vars, TypeOK
<1> QED
  BY <1>1, <1>2, <1>3, <1>4, <1>5, <1>6, <1>7, <1>8, <1>9, <1>10, <1>11,
     <1>12, <1>13, <1>14, <1>15, <1>16 DEF Next

\* Every reachable row has the shape its table declares: type correctness of
\* all operations of coordination/service.go that touch rooms.
THEOREM RoomsTypeCorrect == Spec => []TypeOK
BY InitType, NextType, PTL DEF Spec

-----------------------------------------------------------------------------
(* A room that is dead and not held stays so.                               *)

\* A row that is untouched, or emptied, cannot make a host live.
LEMMA HostLiveFrom ==
  ASSUME NEW r \in Rooms, ~HostLive(r),
         \A s \in Sessions : member'[r][s].role = "host" =>
            member[r][s].role = "host" /\ (Fresh(member'[r][s]) => Fresh(member[r][s]))
  PROVE  ~HostLive(r)'
BY DEF HostLive

\* Deleting rooms and members keeps dead rooms dead.
LEMMA DeletionKeepsDead ==
  ASSUME NEW r \in Rooms, TypeOK, Open(r), ~Live(r),
         room'[r] \in {room[r], ClosedRoom},
         \A s \in Sessions : member'[r][s] \in {member[r][s], NotMember}
  PROVE  ~Live(r)'
<1>1. CASE room'[r] = ClosedRoom
  BY <1>1 DEF Live, Open, ClosedRoom, UnusedRoom
<1>2. CASE room'[r] = room[r] /\ room[r].life = 0
  BY <1>2 DEF Live
<1>3. CASE room'[r] = room[r] /\ ~HostLive(r)
  <2>1. ~HostLive(r)'
    BY <1>3, HostLiveFrom DEF NotMember
  <2> QED BY <2>1 DEF Live
<1>4. room[r].life \in Nat
  BY RoomsAssumption DEF TypeOK, Room
<1> QED BY <1>1, <1>2, <1>3, <1>4 DEF Live

\* Time does not bring a member's presence back.
LEMMA OlderKeepsStale ==
  ASSUME NEW m \in Member
  PROVE  Older(m).role = m.role /\ (Fresh(Older(m)) => Fresh(m))
BY RoomsAssumption DEF Older, Fresh, Member

\* A step does not make a room live that is dead and not held, one step per action:
\* a request renews the room that it holds and no other.
LEMMA StepKeepsDead ==
  ASSUME TypeOK, [Next]_vars, NEW r \in Rooms, Open(r), ~Live(r), ~Held(r)
  PROVE  ~Live(r)'
<1>0. \A s \in Sessions, q \in Rooms : holder[q] = s => q # r
  BY RoomsAssumption DEF Held
<1>1. ASSUME NEW s \in Sessions, CountRooms(s) \/ AbandonCreate(s) PROVE ~Live(r)'
  BY <1>1, DeletionKeepsDead DEF CountRooms, AbandonCreate
<1>2. ASSUME NEW s \in Sessions, DeleteSession(s) PROVE ~Live(r)'
  BY <1>2, DeletionKeepsDead DEF DeleteSession
<1>3. ASSUME NEW s \in Sessions, NEW q \in Rooms, InsertRoom(s, q) PROVE ~Live(r)'
  <2>1. q # r
    BY <1>3 DEF InsertRoom, Open
  <2> QED BY <1>3, <2>1, DeletionKeepsDead DEF InsertRoom, TypeOK
<1>4. ASSUME NEW s \in Sessions, NEW q \in Rooms, JoinRoom(s, q) PROVE ~Live(r)'
  <2>1. q # r
    BY <1>0, <1>4 DEF JoinRoom
  <2> QED BY <1>4, <2>1, DeletionKeepsDead DEF JoinRoom, TypeOK
<1>5. ASSUME NEW s \in Sessions, NEW q \in Rooms, ReadRoom(s, q) PROVE ~Live(r)'
  <2>1. q # r
    BY <1>0, <1>5 DEF ReadRoom
  <2> QED BY <1>5, <2>1, DeletionKeepsDead DEF ReadRoom, TypeOK
<1>6. ASSUME NEW s \in Sessions, NEW q \in Rooms, LeaveRoom(s, q) PROVE ~Live(r)'
  <2>1. q # r
    BY <1>0, <1>6 DEF LeaveRoom
  <2>2. CASE member[q][s].role = "host"
    BY <1>6, <2>1, <2>2, DeletionKeepsDead DEF LeaveRoom, DeleteRooms, TypeOK
  <2>3. CASE member[q][s].role # "host"
    BY <1>6, <2>1, <2>3, DeletionKeepsDead DEF LeaveRoom, TypeOK
  <2> QED BY <2>2, <2>3
<1>7. ASSUME NEW s \in Sessions, NEW q \in Rooms, NEW v \in 1..MaxVersion,
             UpdateRoom(s, q, v)
      PROVE  ~Live(r)'
  <2>1. q # r
    BY <1>0, <1>7 DEF UpdateRoom
  <2> QED BY <1>7, <2>1, DeletionKeepsDead DEF UpdateRoom, TypeOK
<1>8. ASSUME NEW s \in Sessions, NEW p \in Profiles \cup {NoProfile}, SelectProfile(s, p)
      PROVE  ~Live(r)'
  BY <1>8, DeletionKeepsDead DEF SelectProfile
<1>9. ASSUME NEW p \in Profiles, DeleteProfile(p) PROVE ~Live(r)'
  BY <1>9, DeletionKeepsDead DEF DeleteProfile
<1>10. ASSUME NEW p \in Profiles, NEW a \in {"granted", "revoked"}, SetAccess(p, a)
       PROVE  ~Live(r)'
  BY <1>10, DeletionKeepsDead DEF SetAccess
<1>11. CASE Cleanup
  BY <1>11, DeletionKeepsDead DEF Cleanup, DeleteRooms
<1>12. CASE Tick
  <2>1. CASE room[r].life = 0
    BY <1>12, <2>1 DEF Tick, Shorter, Live
  <2>2. CASE ~HostLive(r)
    <3>1. \A s \in Sessions : member'[r][s] = Older(member[r][s])
      BY <1>12 DEF Tick
    <3>2. \A s \in Sessions : member[r][s] \in Member
      BY DEF TypeOK
    <3> QED BY <2>2, <3>1, <3>2, OlderKeepsStale, HostLiveFrom DEF Live
  <2>3. room[r].life \in Nat
    BY RoomsAssumption DEF TypeOK, Room
  <2> QED BY <2>1, <2>2, <2>3 DEF Live
<1>14. ASSUME NEW q \in Rooms,
              AbandonRequest(q) \/ \E s \in Sessions : LockRoom(s, q)
       PROVE  ~Live(r)'
  BY <1>14, DeletionKeepsDead DEF AbandonRequest, LockRoom
<1>13. CASE UNCHANGED vars
  BY <1>13, DeletionKeepsDead DEF vars
<1> QED
  BY <1>1, <1>2, <1>3, <1>4, <1>5, <1>6, <1>7, <1>8, <1>9, <1>10, <1>11,
     <1>12, <1>13, <1>14 DEF Next

\* Nor does a step lock it: lockLiveRoom finds nothing.
LEMMA StepKeepsFree ==
  ASSUME TypeOK, [Next]_vars, NEW r \in Rooms, ~Live(r), ~Held(r)
  PROVE  ~Held(r)'
<1>1. CASE \E s \in Sessions, q \in Rooms : LockRoom(s, q)
  BY <1>1 DEF LockRoom, lockLiveRoom, Held, TypeOK
<1>2. ASSUME NEW q \in Rooms, Release(q) PROVE ~Held(r)'
  BY <1>2 DEF Release, Held, TypeOK
<1>3. CASE holder' = holder
  BY <1>3 DEF Held
<1> QED
  BY <1>1, <1>2, <1>3
  DEF Next, vars, CountRooms, AbandonCreate, InsertRoom, DeleteSession, JoinRoom, ReadRoom,
      LeaveRoom, UpdateRoom, AbandonRequest, SelectProfile, DeleteProfile, SetAccess,
      Cleanup, Tick

\* A room that expired or whose host went silent comes back only by a request that
\* had locked it before; when that has ended, lockLiveRoom lets no other one near it.
THEOREM RoomsDeadStayDead == Spec => DeadStaysDead
<1>1. TypeOK /\ [Next]_vars
        => [\A r \in Rooms :
              Open(r) /\ ~Live(r) /\ ~Held(r) => ~Live(r)' /\ ~Held(r)']_vars
  BY StepKeepsDead, StepKeepsFree
<1> QED BY <1>1, RoomsTypeCorrect, PTL DEF Spec, DeadStaysDead

-----------------------------------------------------------------------------
(* The limit of rooms per host.                                             *)

\* What the limit counts: the rooms that no request renewed after they had expired.
Counted(s) == {r \in HostedRooms(s) : ~room[r].revived}

\* The rooms a session hosts can be counted.
LEMMA HostedRoomsFinite ==
  \A s : /\ IsFiniteSet(HostedRooms(s)) /\ IsFiniteSet(Counted(s))
         /\ Cardinality(Counted(s)) <= Cardinality(HostedRooms(s))
BY RoomsAssumption, FS_Subset DEF HostedRooms, Counted

\* No step but InsertRoom adds an unexpired room to those of a host that are counted.
LEMMA HostedRoomsShrink ==
  ASSUME TypeOK, [Next]_vars, NEW t \in Sessions,
         ~\E s \in Sessions, r \in Rooms : InsertRoom(s, r)
  PROVE  Counted(t)' \subseteq Counted(t)
<1> DEFINE Kept(q) == room'[q].status = "open" /\ ~room'[q].revived =>
                        /\ room[q].status = "open" /\ ~room[q].revived
                        /\ room'[q].host = room[q].host
                        /\ (room'[q].life > 0 => room[q].life > 0)
<1> SUFFICES \A q \in Rooms : Kept(q)
  BY DEF Counted, HostedRooms, Open
<1>0. \A q \in Rooms : room'[q] \in {room[q], ClosedRoom} => Kept(q)
  BY DEF ClosedRoom, UnusedRoom
<1> HIDE DEF Kept
<1>1. ASSUME NEW s \in Sessions, CountRooms(s) \/ AbandonCreate(s) \/ DeleteSession(s)
      PROVE  \A q \in Rooms : Kept(q)
  BY <1>0, <1>1 DEF CountRooms, AbandonCreate, DeleteSession
<1>2. ASSUME NEW s \in Sessions, NEW r \in Rooms, JoinRoom(s, r)
      PROVE  \A q \in Rooms : Kept(q)
  <2>1. room[r].status = "open"
    BY <1>2, RoomsAssumption DEF JoinRoom, TypeOK, Held, Open
  <2>2. room' = [room EXCEPT ![r] = Renewed(@)]
    BY <1>2 DEF JoinRoom
  <2>3. /\ Renewed(room[r]).host = room[r].host
        /\ room[r].life = 0 => Renewed(room[r]).revived = TRUE
        /\ room[r].life # 0 => Renewed(room[r]).revived = room[r].revived
    BY RoomsAssumption DEF Updated, Renewed, TypeOK, Room
  <2>4. Kept(r)
    <3>1. room'[r] = Renewed(room[r]) /\ room[r].life \in Nat
      BY <2>2 DEF TypeOK, Room
    <3>2. CASE room[r].life = 0
      BY <3>1, <3>2, <2>3 DEF Kept
    <3>3. CASE room[r].life # 0
      BY <3>1, <3>3, <2>1, <2>3 DEF Kept
    <3> QED BY <3>2, <3>3
  <2>5. \A q \in Rooms \ {r} : room'[q] = room[q]
    BY <2>2 DEF TypeOK
  <2> QED BY <1>0, <2>4, <2>5
<1>3. ASSUME NEW s \in Sessions, NEW r \in Rooms, NEW v \in 1..MaxVersion,
             UpdateRoom(s, r, v)
      PROVE  \A q \in Rooms : Kept(q)
  <2>1. room[r].status = "open"
    BY <1>3, RoomsAssumption DEF UpdateRoom, TypeOK, Held, Open
  <2>2. room' = [room EXCEPT ![r] = Updated(@, v)]
    BY <1>3 DEF UpdateRoom
  <2>3. /\ Updated(room[r], v).host = room[r].host
        /\ room[r].life = 0 => Updated(room[r], v).revived = TRUE
        /\ room[r].life # 0 => Updated(room[r], v).revived = room[r].revived
    BY RoomsAssumption DEF Updated, Renewed, TypeOK, Room
  <2>4. Kept(r)
    <3>1. room'[r] = Updated(room[r], v) /\ room[r].life \in Nat
      BY <2>2 DEF TypeOK, Room
    <3>2. CASE room[r].life = 0
      BY <3>1, <3>2, <2>3 DEF Kept
    <3>3. CASE room[r].life # 0
      BY <3>1, <3>3, <2>1, <2>3 DEF Kept
    <3> QED BY <3>2, <3>3
  <2>5. \A q \in Rooms \ {r} : room'[q] = room[q]
    BY <2>2 DEF TypeOK
  <2> QED BY <1>0, <2>4, <2>5
<1>4. ASSUME NEW s \in Sessions, NEW r \in Rooms,
             ReadRoom(s, r) \/ LeaveRoom(s, r) \/ LockRoom(s, r)
      PROVE  \A q \in Rooms : Kept(q)
  BY <1>0, <1>4 DEF ReadRoom, LeaveRoom, LockRoom, DeleteRooms
<1>5. ASSUME NEW s \in Sessions, NEW p \in Profiles \cup {NoProfile}, SelectProfile(s, p)
      PROVE  \A q \in Rooms : Kept(q)
  BY <1>0, <1>5 DEF SelectProfile
<1>6. ASSUME NEW p \in Profiles,
             DeleteProfile(p) \/ \E a \in {"granted", "revoked"} : SetAccess(p, a)
      PROVE  \A q \in Rooms : Kept(q)
  BY <1>0, <1>6 DEF DeleteProfile, SetAccess
<1>7. CASE Cleanup
  BY <1>0, <1>7 DEF Cleanup, DeleteRooms
<1>8. CASE Tick
  <2>1. ASSUME NEW q \in Rooms PROVE Kept(q)
    <3>1. room'[q] = Shorter(room[q]) /\ room[q] \in Room
      BY <1>8 DEF Tick, TypeOK
    <3>2. CASE room[q].life = 0
      BY <1>0, <3>1, <3>2 DEF Shorter
    <3>3. CASE room[q].life # 0
      BY <3>1, <3>3, RoomsAssumption DEF Shorter, Room, Kept
    <3> QED BY <3>2, <3>3
  <2> QED BY <2>1
<1>9. CASE UNCHANGED vars
  BY <1>0, <1>9 DEF vars
<1>10. ASSUME NEW r \in Rooms, AbandonRequest(r) PROVE \A q \in Rooms : Kept(q)
  BY <1>0, <1>10 DEF AbandonRequest
<1> QED BY <1>1, <1>2, <1>3, <1>4, <1>5, <1>6, <1>7, <1>8, <1>9, <1>10 DEF Next

\* No room is hosted to begin with.
LEMMA HostLimitInit == Init => HostLimit
<1> SUFFICES ASSUME Init, NEW s \in Sessions
             PROVE  Cardinality(Counted(s)) + creating[s] <= MaxRooms
  BY DEF HostLimit, Counted
<1>1. Counted(s) = {}
  BY DEF Init, Counted, HostedRooms, Open, UnusedRoom
<1> QED BY <1>1, FS_EmptySet, RoomsAssumption DEF Init

\* Every step keeps the limit on rooms and creations in progress together.
LEMMA HostLimitStep == TypeOK /\ HostLimit /\ [Next]_vars => HostLimit'
<1> SUFFICES ASSUME TypeOK, HostLimit, [Next]_vars, NEW t \in Sessions
             PROVE  Cardinality(Counted(t)') + creating'[t] <= MaxRooms
  BY DEF HostLimit, Counted
<1> DEFINE n == Cardinality(Counted(t))
           m == Cardinality(Counted(t)')
<1>0. n \in Nat /\ m \in Nat /\ n + creating[t] <= MaxRooms /\ creating[t] \in Nat
  <2>1. IsFiniteSet(Counted(t)) /\ IsFiniteSet(Counted(t)')
    BY RoomsAssumption, FS_Subset DEF HostedRooms, Counted
  <2> QED BY <2>1, FS_CardinalityType DEF TypeOK, HostLimit, Counted
<1>1. ASSUME NEW s \in Sessions, NEW r \in Rooms, InsertRoom(s, r)
      PROVE  m + creating'[t] <= MaxRooms
  <2>1. CASE s = t
    <3>1. Counted(t)' \subseteq Counted(t) \cup {r}
      BY <1>1 DEF InsertRoom, Counted, HostedRooms, Open, TypeOK
    <3>2. r \notin Counted(t)
      BY <1>1 DEF InsertRoom, Counted, HostedRooms, Open
    <3>3. IsFiniteSet(Counted(t) \cup {r})
          /\ Cardinality(Counted(t) \cup {r}) = n + 1
      BY <3>2, FS_AddElement, HostedRoomsFinite
    <3>4. m <= n + 1
      BY <3>1, <3>3, FS_Subset
    <3>5. creating'[t] = creating[t] - 1
      BY <1>1, <2>1 DEF InsertRoom, TypeOK
    <3> QED BY <1>0, <3>4, <3>5, RoomsAssumption
  <2>2. CASE s # t
    <3>1. Counted(t)' \subseteq Counted(t)
      BY <1>1, <2>2 DEF InsertRoom, Counted, HostedRooms, Open, TypeOK
    <3>2. m <= n
      BY <3>1, FS_Subset, HostedRoomsFinite
    <3>3. creating'[t] = creating[t]
      BY <1>1, <2>2 DEF InsertRoom, TypeOK
    <3> QED BY <1>0, <3>2, <3>3, RoomsAssumption
  <2> QED BY <2>1, <2>2
<1>2. ASSUME ~\E s \in Sessions, r \in Rooms : InsertRoom(s, r)
      PROVE  m + creating'[t] <= MaxRooms
  <2>1. m <= n
    BY <1>2, HostedRoomsShrink, FS_Subset, HostedRoomsFinite
  <2>2. CASE \E s \in Sessions : CountRooms(s)
    <3> PICK s \in Sessions : CountRooms(s)
      BY <2>2
    <3>1. CASE s = t
      <4>1. n < MaxRooms
        <5>1. Cardinality(HostedRooms(t)) \in Nat /\ Cardinality(HostedRooms(t)) < MaxRooms
          BY <3>1, HostedRoomsFinite, FS_CardinalityType DEF CountRooms
        <5> QED BY <1>0, <5>1, HostedRoomsFinite, RoomsAssumption
      <4> QED BY <1>0, <2>1, <3>1, <4>1, RoomsAssumption DEF CountRooms, AdmissionLock, TypeOK
    <3>2. CASE s # t
      <4>1. creating'[t] = creating[t]
        BY <3>2 DEF CountRooms, TypeOK
      <4> QED BY <1>0, <2>1, <4>1, RoomsAssumption
    <3> QED BY <3>1, <3>2
  <2>3. CASE ~\E s \in Sessions : CountRooms(s)
    <3>1. creating'[t] <= creating[t] /\ creating'[t] \in Nat
      <4>1. CASE \E s \in Sessions : AbandonCreate(s)
        <5> PICK s \in Sessions : AbandonCreate(s)
          BY <4>1
        <5>1. CASE s = t
          BY <1>0, <5>1 DEF AbandonCreate, TypeOK
        <5>2. CASE s # t
          BY <1>0, <5>2 DEF AbandonCreate, TypeOK
        <5> QED BY <5>1, <5>2
      <4>2. CASE creating' = creating
        BY <1>0, <4>2
      <4> QED
        BY <1>2, <2>3, <4>1, <4>2
        DEF Next, vars, DeleteSession, JoinRoom, ReadRoom, LeaveRoom, UpdateRoom,
            LockRoom, AbandonRequest, SelectProfile, DeleteProfile, SetAccess, Cleanup,
            Tick
    <3> QED BY <1>0, <2>1, <3>1, RoomsAssumption
  <2> QED BY <2>2, <2>3
<1> QED BY <1>1, <1>2

\* No session ever hosts more unexpired rooms than maximumRoomsPerSession, whatever the
\* interleaving of its CreateRoom calls with joins, updates and the passing of time,
\* but for those that a request held when they expired and then renewed.
THEOREM RoomsHostLimit == Spec => []HostLimit
<1>1. TypeOK /\ TypeOK' /\ HostLimit /\ [Next]_vars => HostLimit'
  BY HostLimitStep
<1> QED BY <1>1, HostLimitInit, RoomsTypeCorrect, PTL DEF Spec

-----------------------------------------------------------------------------
(* Updates apply in the order of the versions.                              *)

InVersionOrder(r) ==
  /\ \A i \in 1..Len(room[r].applied) : room[r].applied[i] = i
  /\ Open(r) => room[r].version = Len(room[r].applied) + 1

\* No update was accepted to begin with.
LEMMA VersionOrderInit == Init => UpdatesInVersionOrder
BY DEF Init, UpdatesInVersionOrder, Open, UnusedRoom

\* Every step keeps versions and accepted updates in line.
LEMMA VersionOrderStep == TypeOK /\ UpdatesInVersionOrder /\ [Next]_vars => UpdatesInVersionOrder'
<1> SUFFICES ASSUME TypeOK, UpdatesInVersionOrder, [Next]_vars, NEW r \in Rooms
             PROVE  InVersionOrder(r)'
  BY DEF UpdatesInVersionOrder, InVersionOrder
<1>0. InVersionOrder(r)
  BY DEF UpdatesInVersionOrder, InVersionOrder
<1> DEFINE Kept == \/ room'[r] = ClosedRoom
                   \/ /\ room'[r].status = room[r].status
                      /\ room'[r].version = room[r].version
                      /\ room'[r].applied = room[r].applied
<1>1. Kept => InVersionOrder(r)'
  BY <1>0 DEF InVersionOrder, Open, ClosedRoom, UnusedRoom
<1> HIDE DEF Kept
<1>2. ASSUME NEW s \in Sessions, CountRooms(s) \/ AbandonCreate(s) \/ DeleteSession(s)
      PROVE  Kept
  BY <1>2 DEF CountRooms, AbandonCreate, DeleteSession, Kept
<1>3. ASSUME NEW s \in Sessions, NEW q \in Rooms, InsertRoom(s, q)
      PROVE  InVersionOrder(r)'
  <2>1. CASE q = r
    BY <1>0, <1>3, <2>1 DEF InsertRoom, InVersionOrder, Open, TypeOK
  <2>2. CASE q # r
    BY <1>1, <1>3, <2>2 DEF InsertRoom, TypeOK, Kept
  <2> QED BY <2>1, <2>2
<1>4. ASSUME NEW s \in Sessions, NEW q \in Rooms, JoinRoom(s, q)
      PROVE  Kept
  BY <1>4 DEF JoinRoom, Renewed, TypeOK, Room, Kept
<1>5. ASSUME NEW s \in Sessions, NEW q \in Rooms, ReadRoom(s, q) \/ LeaveRoom(s, q) \/ LockRoom(s, q)
      PROVE  Kept
  BY <1>5 DEF ReadRoom, LeaveRoom, LockRoom, DeleteRooms, Kept
<1>6. ASSUME NEW s \in Sessions, NEW q \in Rooms, NEW expected \in 1..MaxVersion,
             UpdateRoom(s, q, expected)
      PROVE  InVersionOrder(r)'
  <2>1. CASE q = r
    <3>1. room[r].applied \in Seq(1..MaxVersion) /\ room'[r].applied = Append(room[r].applied, expected)
      BY <1>6, <2>1 DEF UpdateRoom, Updated, Renewed, TypeOK, Room
    <3>2. Len(room'[r].applied) = Len(room[r].applied) + 1
      BY <3>1
    <3>3. expected = Len(room[r].applied) + 1 /\ room[r].status = "open"
      BY <1>0, <1>6, <2>1, RoomsAssumption
      DEF UpdateRoom, VersionMatches, InVersionOrder, TypeOK, Held, Open
    <3>4. room'[r].version = room[r].version + 1 /\ room'[r].status = "open"
      BY <1>6, <2>1, <3>3 DEF UpdateRoom, Updated, Renewed, TypeOK, Room
    <3>5. \A i \in 1..Len(room'[r].applied) : room'[r].applied[i] = i
      BY <1>0, <3>1, <3>2, <3>3 DEF InVersionOrder
    <3>6. room[r].version = expected
      BY <1>6, <2>1 DEF UpdateRoom, VersionMatches
    <3> QED BY <3>2, <3>3, <3>4, <3>5, <3>6 DEF InVersionOrder, Open
  <2>2. CASE q # r
    BY <1>0, <1>6, <2>2 DEF UpdateRoom, TypeOK, InVersionOrder, Open
  <2> QED BY <2>1, <2>2
<1>7. ASSUME NEW s \in Sessions, NEW p \in Profiles \cup {NoProfile}, SelectProfile(s, p)
      PROVE  Kept
  BY <1>7 DEF SelectProfile, Kept
<1>8. ASSUME NEW p \in Profiles,
             DeleteProfile(p) \/ \E a \in {"granted", "revoked"} : SetAccess(p, a)
      PROVE  Kept
  BY <1>8 DEF DeleteProfile, SetAccess, Kept
<1>9. ASSUME Cleanup PROVE Kept
  BY <1>9 DEF Cleanup, DeleteRooms, Kept
<1>10. ASSUME Tick PROVE Kept
  BY <1>10 DEF Tick, Shorter, TypeOK, Room, Kept
<1>12. ASSUME NEW q \in Rooms, AbandonRequest(q) PROVE Kept
  BY <1>12 DEF AbandonRequest, Kept
<1>11. ASSUME UNCHANGED vars PROVE Kept
  BY <1>11 DEF vars, Kept
<1> QED
  BY <1>1, <1>2, <1>3, <1>4, <1>5, <1>6, <1>7, <1>8, <1>9, <1>10, <1>11, <1>12
  DEF Next

\* Of the updates sent against one version, retries and late ones included, at most one is
\* applied: the n-th update of UpdateRoom was made against version n.
THEOREM RoomsUpdatesInVersionOrder == Spec => []UpdatesInVersionOrder
BY VersionOrderInit, VersionOrderStep, RoomsTypeCorrect, PTL DEF Spec

-----------------------------------------------------------------------------
(* The cache: type correctness.  What a waiting caller receives comes from a call that *)
(* exists, and the number of evictions is bounded by way of the clears.     *)

WaitsForCall == \A w \in Callers : caller[w].state = "waiting" => caller[w].call \in Calls

VoidsBounded == \A k \in Keys : voided[k] <= MaxClears + generation

TypeInv == CacheTypeOK /\ WaitsForCall /\ VoidsBounded

\* A key without an entry, a call that does not run and a caller at rest have their types.
LEMMA EmptyRows ==
  /\ NoEntry \in Entry /\ NoHandoff \in Handoff
  /\ FreeCall \in CallState /\ IdleCaller \in CallerState
BY PreparationCacheAssumption
DEF NoEntry, NoHandoff, FreeCall, IdleCaller, Entry, Handoff, CallState, CallerState, Voids

\* What removeExpiredLocked leaves has the types of the tables.
LEMMA LiveRows ==
  ASSUME CacheTypeOK
  PROVE  /\ LiveEntries \in [Keys -> Entry]
         /\ LiveHandoffs \in [Owners -> Handoff]
BY EmptyRows DEF LiveEntries, LiveHandoffs, LiveEntry, LiveHandoff, CacheTypeOK

\* A caller that waits for a call has its type.
LEMMA WaitingRow ==
  ASSUME CacheTypeOK, NEW k \in Keys, NEW c \in Calls
  PROVE  Waiting(k, c) \in CallerState
BY PreparationCacheAssumption DEF Waiting, CallerState, CacheTypeOK, Voids

\* The cache starts in a state of the right type.
LEMMA TypeInit == CacheInit => TypeInv
BY EmptyRows, PreparationCacheAssumption
DEF CacheInit, TypeInv, CacheTypeOK, WaitsForCall, VoidsBounded, IdleCaller, Voids

\* Every critical section of the cache keeps the types and the bound on invalidations.
LEMMA TypeStep == TypeInv /\ [CacheNext]_cacheVars => TypeInv'
<1> SUFFICES ASSUME CacheTypeOK, WaitsForCall, VoidsBounded, [CacheNext]_cacheVars
             PROVE  CacheTypeOK' /\ WaitsForCall' /\ VoidsBounded'
  BY DEF TypeInv
<1> USE PreparationCacheAssumption
<1>0. \A w \in Callers : workload[w] \subseteq Keys
  BY DEF CacheTypeOK
<1>1. ASSUME NEW w \in Callers, NEW k \in Keys, Hit(w, k)
      PROVE  CacheTypeOK' /\ WaitsForCall' /\ VoidsBounded'
  <2>1. [state |-> "served", call |-> None, key |-> k,
         since |-> voided[k], born |-> entries[k].born] \in CallerState
    BY DEF CallerState, CacheTypeOK, Entry
  <2> QED BY <1>1, <2>1, LiveRows DEF Hit, CacheTypeOK, WaitsForCall, VoidsBounded
<1>2. ASSUME NEW w \in Callers, NEW k \in Keys, Join(w, k)
      PROVE  CacheTypeOK' /\ WaitsForCall' /\ VoidsBounded'
  <2>1. inFlight[k] \in Calls
    BY <1>2 DEF Join, CacheTypeOK
  <2> QED BY <1>2, <2>1, LiveRows, WaitingRow
          DEF Join, CacheTypeOK, WaitsForCall, VoidsBounded, Waiting
<1>3. ASSUME NEW w \in Callers, NEW k \in Keys, NEW c \in Calls, Start(w, k, c)
      PROVE  CacheTypeOK' /\ WaitsForCall' /\ VoidsBounded'
  <2>1. [state |-> "running", key |-> k, generation |-> generation,
         born |-> voided[k], ok |-> FALSE] \in CallState
    BY DEF CallState, CacheTypeOK
  <2>2. call' \in [Calls -> CallState]
    BY <1>3, <2>1 DEF Start, CacheTypeOK
  <2>3. caller' = [caller EXCEPT ![w] = Waiting(k, c)] /\ Waiting(k, c) \in CallerState
    BY <1>3, WaitingRow DEF Start
  <2> QED BY <1>3, <2>2, <2>3, LiveRows
          DEF Start, Registered, CacheTypeOK, WaitsForCall, VoidsBounded, Waiting
<1>4. ASSUME NEW w \in Callers, GiveUp(w) \/ Leave(w)
      PROVE  CacheTypeOK' /\ WaitsForCall' /\ VoidsBounded'
  BY <1>4, EmptyRows DEF GiveUp, Leave, cache, CacheTypeOK, WaitsForCall, VoidsBounded, IdleCaller
<1>5. ASSUME NEW w \in Callers, Receive(w)
      PROVE  CacheTypeOK' /\ WaitsForCall' /\ VoidsBounded'
  <2> DEFINE c == caller[w].call
             got == [caller[w] EXCEPT !.state = IF call[c].ok THEN "served" ELSE "failed",
                                      !.call = None, !.born = call[c].born]
  <2>1. c \in Calls
    BY <1>5 DEF Receive, WaitsForCall
  <2>2. caller[w] \in CallerState /\ call[c].born \in Voids
    BY <2>1 DEF CacheTypeOK, CallState
  <2>3. got \in CallerState /\ got.state # "waiting"
    BY <2>2 DEF CallerState
  <2>4. caller' = [caller EXCEPT ![w] = got]
    BY <1>5 DEF Receive
  <2> HIDE DEF got
  <2> QED BY <1>5, <2>3, <2>4 DEF Receive, cache, CacheTypeOK, WaitsForCall, VoidsBounded
<1>6. ASSUME NEW c \in Calls, NEW ok \in BOOLEAN, NEW life \in 0..EntryTTL, Complete(c, ok, life)
      PROVE  CacheTypeOK' /\ WaitsForCall' /\ VoidsBounded'
  <2>1. [present |-> TRUE, born |-> call[c].born, life |-> life] \in Entry
    BY DEF Entry, CacheTypeOK, CallState
  <2>2. entries' \in [Keys -> Entry] /\ handoffs' \in [Owners -> Handoff]
    <3>1. \A drop : HandoffsWithout(drop) \in [Owners -> Handoff]
      BY EmptyRows DEF HandoffsWithout, CacheTypeOK
    <3>2. CASE ok /\ Storable(c)
      <4> PICK drop \in Keys \cup {None} :
             /\ entries' = [j \in Keys |->
                  IF j = call[c].key THEN [present |-> TRUE, born |-> call[c].born, life |-> life]
                  ELSE IF j = drop THEN NoEntry ELSE entries[j]]
             /\ handoffs' = IF drop = None THEN handoffs ELSE HandoffsWithout(drop)
        BY <1>6, <3>2 DEF Complete
      <4> QED BY <2>1, <3>1, EmptyRows DEF CacheTypeOK
    <3> QED BY <1>6, <3>2 DEF Complete, CacheTypeOK
  <2>3. inFlight' \in [Keys -> Calls \cup {None}]
    BY <1>6 DEF Complete, CacheTypeOK
  <2>4. call' \in [Calls -> CallState]
    <3>1. [call[c] EXCEPT !.state = "done", !.ok = ok] \in CallState
      BY DEF CacheTypeOK, CallState
    <3>2. call' = [call EXCEPT ![c] = [call[c] EXCEPT !.state = "done", !.ok = ok]]
      BY <1>6 DEF Complete, Finished, CacheTypeOK
    <3> QED BY <3>1, <3>2 DEF CacheTypeOK
  <2> QED BY <1>6, <2>2, <2>3, <2>4 DEF Complete, CacheTypeOK, WaitsForCall, VoidsBounded
<1>7. ASSUME NEW c \in Calls, Collect(c)
      PROVE  CacheTypeOK' /\ WaitsForCall' /\ VoidsBounded'
  BY <1>7, EmptyRows DEF Collect, cache, CacheTypeOK, WaitsForCall, VoidsBounded
<1>8. ASSUME NEW K \in SUBSET Keys, Evict(K)
      PROVE  CacheTypeOK' /\ WaitsForCall' /\ VoidsBounded'
  <2>1. \A k \in Keys : voided'[k] \in Nat /\ voided'[k] <= MaxClears + generation
    BY <1>8 DEF Evict, CacheTypeOK, VoidsBounded, Voids
  <2>2. voided' \in [Keys -> Voids]
    BY <1>8, <2>1 DEF Evict, CacheTypeOK, Voids
  <2> QED BY <1>8, <2>1, <2>2, EmptyRows
          DEF Evict, InFlightWithout, CacheTypeOK, WaitsForCall, VoidsBounded
<1>9. ASSUME NEW o \in Owners, NEW k \in Keys, MarkHandoff(o, k)
      PROVE  CacheTypeOK' /\ WaitsForCall' /\ VoidsBounded'
  <2>1. [key |-> k, life |-> HandoffLife(k)] \in Handoff
    BY DEF HandoffLife, Shortest, Handoff, CacheTypeOK, Entry
  <2> QED BY <1>9, <2>1, LiveRows, EmptyRows
          DEF MarkHandoff, CacheTypeOK, WaitsForCall, VoidsBounded
<1>10. ASSUME NEW o \in Owners, ConsumeHandoff(o)
       PROVE  CacheTypeOK' /\ WaitsForCall' /\ VoidsBounded'
  BY <1>10, LiveRows, EmptyRows DEF ConsumeHandoff, CacheTypeOK, WaitsForCall, VoidsBounded
<1>11. CASE Clear
  <2>1. generation' \in 0..MaxClears
    BY <1>11 DEF Clear, CacheTypeOK
  <2>2. \A k \in Keys : voided'[k] \in Nat /\ voided'[k] <= MaxClears + generation'
    BY <1>11 DEF Clear, CacheTypeOK, VoidsBounded, Voids
  <2>3. voided' \in [Keys -> Voids]
    BY <1>11, <2>1, <2>2 DEF Clear, Voids
  <2> QED BY <1>11, <2>1, <2>2, <2>3, EmptyRows DEF Clear, CacheTypeOK, WaitsForCall, VoidsBounded
<1>12. CASE CacheTick
  <2>1. \A k \in Keys : [entries[k] EXCEPT !.life = Less(@)] \in Entry
    BY DEF Less, CacheTypeOK, Entry
  <2>2. \A o \in Owners : [handoffs[o] EXCEPT !.life = Less(@)] \in Handoff
    BY DEF Less, CacheTypeOK, Handoff
  <2> QED BY <1>12, <2>1, <2>2 DEF CacheTick, CacheTypeOK, WaitsForCall, VoidsBounded
<1>13. CASE UNCHANGED cacheVars
  BY <1>13 DEF cacheVars, cache, CacheTypeOK, WaitsForCall, VoidsBounded
<1> QED
  BY <1>0, <1>1, <1>2, <1>3, <1>4, <1>5, <1>6, <1>7, <1>8, <1>9, <1>10, <1>11, <1>12, <1>13
  DEF CacheNext, EndCall

\* Entries, calls and hand-offs keep their types through all operations of the cache, and nobody
\* is answered from a call that does not exist.
THEOREM PreparationTypeCorrect == CacheSpec => []CacheTypeOK
<1>1. TypeInv => CacheTypeOK
  BY DEF TypeInv
<1> QED BY <1>1, TypeInit, TypeStep, PTL DEF CacheSpec

-----------------------------------------------------------------------------
(* Coherence, and one build per key.  Both rest on what inFlight means: the *)
(* call it names is running for that key, nothing has invalidated the key   *)
(* since the call began, and the key has no entry; and a running call that  *)
(* nothing has overtaken is the one inFlight names.                         *)

InFlightCurrent ==
  \A k \in Keys : inFlight[k] # None =>
    /\ call[inFlight[k]].state = "running" /\ call[inFlight[k]].key = k
    /\ call[inFlight[k]].born = voided[k]
    /\ ~entries[k].present

RunningKnown ==
  \A c \in Calls : call[c].state = "running" =>
    /\ call[c].key \in Keys /\ call[c].born <= voided[call[c].key]
    /\ call[c].born = voided[call[c].key] => inFlight[call[c].key] = c

\* The call a caller waits on is not collected, and began no earlier than the caller may accept.
WaitersCurrent ==
  \A w \in Callers : caller[w].state = "waiting" =>
    /\ call[caller[w].call].state # "free"
    /\ caller[w].since <= call[caller[w].call].born

HandoffNamesKey == \A o \in Owners : handoffs[o].life > 0 => handoffs[o].key \in Keys

CacheInv ==
  /\ InFlightCurrent /\ RunningKnown /\ WaitersCurrent
  /\ NothingStale /\ HandoffNamesKey /\ HandoffFindsEntry

\* removeExpiredLocked takes nothing away that is not expired.
LEMMA RemovalKeeps ==
  ASSUME CacheTypeOK, NothingStale, HandoffNamesKey, HandoffFindsEntry, InFlightCurrent
  PROVE  /\ \A k \in Keys : /\ LiveEntries[k].present => LiveEntries[k].born = voided[k]
                            /\ inFlight[k] # None => ~LiveEntries[k].present
         /\ \A o \in Owners : LiveHandoffs[o].life > 0 =>
              /\ LiveHandoffs[o].key \in Keys
              /\ LiveEntries[LiveHandoffs[o].key].present
              /\ LiveEntries[LiveHandoffs[o].key].life >= LiveHandoffs[o].life
<1>1. ASSUME NEW k \in Keys
      PROVE  /\ LiveEntries[k].present => LiveEntries[k].born = voided[k]
             /\ inFlight[k] # None => ~LiveEntries[k].present
  BY DEF LiveEntries, LiveEntry, NoEntry, NothingStale, InFlightCurrent
<1>2. ASSUME NEW o \in Owners, LiveHandoffs[o].life > 0
      PROVE  /\ LiveHandoffs[o].key \in Keys
             /\ LiveEntries[LiveHandoffs[o].key].present
             /\ LiveEntries[LiveHandoffs[o].key].life >= LiveHandoffs[o].life
  <2>1. LiveHandoffs[o] = handoffs[o] /\ handoffs[o].life > 0 /\ handoffs[o] \in Handoff
    BY <1>2 DEF LiveHandoffs, LiveHandoff, NoHandoff, CacheTypeOK
  <2>2. /\ entries[handoffs[o].key].present
        /\ entries[handoffs[o].key].life >= handoffs[o].life
    BY <2>1 DEF HandoffFindsEntry
  <2>3. handoffs[o].key \in Keys
    BY <2>1 DEF HandoffNamesKey
  <2> QED BY <2>1, <2>2, <2>3, PreparationCacheAssumption DEF LiveEntries, LiveEntry, CacheTypeOK, Entry, Handoff
<1> QED BY <1>1, <1>2

\* Map, order list and calls agree to begin with.
LEMMA CoherenceInit == CacheInit => CacheInv
BY PreparationCacheAssumption
DEF CacheInit, CacheInv, InFlightCurrent, RunningKnown, WaitersCurrent, NothingStale,
    HandoffNamesKey, HandoffFindsEntry, NoEntry, NoHandoff, FreeCall, IdleCaller

\* The lookups, which change nothing but what is expired.
LEMMA LookupStep ==
  ASSUME TypeInv, CacheInv, entries' = LiveEntries, UNCHANGED <<inFlight, call, caller, voided>>,
         NEW o \in Owners,
         \/ handoffs' = [LiveHandoffs EXCEPT ![o] = NoHandoff]
         \/ \E k \in Keys : LiveEntry(k).present
              /\ handoffs' = [LiveHandoffs EXCEPT ![o] = [key |-> k, life |-> HandoffLife(k)]]
  PROVE  CacheInv'
<1> USE DEF TypeInv, CacheInv
<1>1. InFlightCurrent'
  BY RemovalKeeps DEF InFlightCurrent
<1>2. RunningKnown' /\ WaitersCurrent'
  BY DEF RunningKnown, WaitersCurrent
<1>3. NothingStale'
  BY RemovalKeeps DEF NothingStale
<1>4. HandoffNamesKey' /\ HandoffFindsEntry'
  <2>1. CASE handoffs' = [LiveHandoffs EXCEPT ![o] = NoHandoff]
    BY <2>1, RemovalKeeps, LiveRows DEF HandoffNamesKey, HandoffFindsEntry, NoHandoff
  <2>2. ASSUME NEW k \in Keys, LiveEntry(k).present,
               handoffs' = [LiveHandoffs EXCEPT ![o] = [key |-> k, life |-> HandoffLife(k)]]
        PROVE  HandoffNamesKey' /\ HandoffFindsEntry'
    <3>1. LiveEntries[k] = entries[k] /\ LiveEntries[k].present /\ entries[k] \in Entry
      BY <2>2 DEF LiveEntries, LiveEntry, NoEntry, CacheTypeOK
    <3>2. entries[k].life >= HandoffLife(k)
      BY <3>1, PreparationCacheAssumption DEF HandoffLife, Shortest, Entry
    <3> QED BY <2>2, <3>1, <3>2, RemovalKeeps, LiveRows DEF HandoffNamesKey, HandoffFindsEntry
  <2> QED BY <2>1, <2>2
<1> QED BY <1>1, <1>2, <1>3, <1>4

\* Every critical section of the cache leaves map, order list and calls in agreement.
LEMMA CoherenceStep == TypeInv /\ CacheInv /\ [CacheNext]_cacheVars => CacheInv'
<1> SUFFICES ASSUME TypeInv, CacheInv, [CacheNext]_cacheVars PROVE CacheInv'
  OBVIOUS
<1> USE PreparationCacheAssumption
<1>0. CacheTypeOK /\ \A w \in Callers : workload[w] \subseteq Keys
  BY DEF TypeInv, CacheTypeOK
<1>1. ASSUME NEW w \in Callers, NEW k \in Keys, Hit(w, k) PROVE CacheInv'
  <2>1. InFlightCurrent' /\ \A j \in Keys : entries'[j].present => entries'[j].born = voided'[j]
    BY <1>0, <1>1, RemovalKeeps DEF Hit, CacheInv, InFlightCurrent, NothingStale
  <2>2. RunningKnown' /\ WaitersCurrent'
    BY <1>0, <1>1 DEF Hit, CacheInv, RunningKnown, WaitersCurrent, CacheTypeOK
  <2>3. \A v \in Callers : caller'[v].state = "served" => caller'[v].born >= caller'[v].since
    <3>1. entries[k].born = voided[k] /\ voided[k] \in Nat
      BY <1>0, <1>1 DEF Hit, LiveEntry, NoEntry, CacheInv, NothingStale, CacheTypeOK, Voids
    <3> QED BY <1>0, <1>1, <3>1 DEF Hit, CacheInv, NothingStale, CacheTypeOK
  <2>4. HandoffNamesKey' /\ HandoffFindsEntry'
    BY <1>0, <1>1, RemovalKeeps DEF Hit, CacheInv, HandoffNamesKey, HandoffFindsEntry
  <2> QED BY <2>1, <2>2, <2>3, <2>4 DEF CacheInv, NothingStale
<1>2. ASSUME NEW w \in Callers, NEW k \in Keys, Join(w, k) PROVE CacheInv'
  <2>1. InFlightCurrent' /\ \A j \in Keys : entries'[j].present => entries'[j].born = voided'[j]
    BY <1>0, <1>2, RemovalKeeps DEF Join, CacheInv, InFlightCurrent
  <2>2. RunningKnown'
    BY <1>2 DEF Join, CacheInv, RunningKnown
  <2>3. WaitersCurrent'
    <3>1. call[inFlight[k]].state = "running" /\ call[inFlight[k]].born = voided[k]
          /\ voided[k] \in Nat
      BY <1>0, <1>2 DEF Join, CacheInv, InFlightCurrent, CacheTypeOK, Voids
    <3> QED BY <1>0, <1>2, <3>1 DEF Join, Waiting, CacheInv, WaitersCurrent, CacheTypeOK
  <2>4. \A v \in Callers : caller'[v].state = "served" => caller'[v].born >= caller'[v].since
    BY <1>0, <1>2 DEF Join, Waiting, CacheInv, NothingStale, CacheTypeOK
  <2>5. HandoffNamesKey' /\ HandoffFindsEntry'
    BY <1>0, <1>2, RemovalKeeps DEF Join, CacheInv, HandoffNamesKey, HandoffFindsEntry
  <2> QED BY <2>1, <2>2, <2>3, <2>4, <2>5 DEF CacheInv, NothingStale
<1>3. ASSUME NEW w \in Callers, NEW k \in Keys, NEW c \in Calls, Start(w, k, c) PROVE CacheInv'
  <2> DEFINE started == [state |-> "running", key |-> k, generation |-> generation,
                         born |-> voided[k], ok |-> FALSE]
  <2>0. /\ call' = [call EXCEPT ![c] = started] /\ inFlight' = [inFlight EXCEPT ![k] = c]
        /\ call[c].state = "free" /\ inFlight[k] = None /\ ~LiveEntries[k].present
        /\ entries' = LiveEntries /\ voided' = voided
        /\ caller' = [caller EXCEPT ![w] = Waiting(k, c)]
    BY <1>3 DEF Start, Registered, LiveEntries
  <2>1. InFlightCurrent'
    BY <1>0, <2>0, RemovalKeeps DEF CacheInv, InFlightCurrent, CacheTypeOK
  <2>2. \A j \in Keys : entries'[j].present => entries'[j].born = voided'[j]
    BY <1>0, <2>0, RemovalKeeps DEF CacheInv
  <2>3. RunningKnown'
    BY <1>0, <2>0 DEF CacheInv, RunningKnown, CacheTypeOK, Voids
  <2>4. WaitersCurrent'
    BY <1>0, <2>0 DEF CacheInv, WaitersCurrent, Waiting, TypeInv, WaitsForCall, CacheTypeOK, Voids
  <2>5. \A v \in Callers : caller'[v].state = "served" => caller'[v].born >= caller'[v].since
    BY <1>0, <2>0 DEF Waiting, CacheInv, NothingStale, CacheTypeOK
  <2>6. HandoffNamesKey' /\ HandoffFindsEntry'
    BY <1>0, <1>3, RemovalKeeps DEF Start, CacheInv, HandoffNamesKey, HandoffFindsEntry
  <2> QED BY <2>1, <2>2, <2>3, <2>4, <2>5, <2>6 DEF CacheInv, NothingStale
<1>4. ASSUME NEW w \in Callers, GiveUp(w) \/ Leave(w) PROVE CacheInv'
  BY <1>0, <1>4
  DEF GiveUp, Leave, cache, IdleCaller, CacheInv, InFlightCurrent, RunningKnown, WaitersCurrent,
      NothingStale, HandoffNamesKey, HandoffFindsEntry, CacheTypeOK
<1>5. ASSUME NEW w \in Callers, Receive(w) PROVE CacheInv'
  <2> DEFINE c == caller[w].call
             got == [caller[w] EXCEPT !.state = IF call[c].ok THEN "served" ELSE "failed",
                                      !.call = None, !.born = call[c].born]
  <2>1. caller[w] \in CallerState /\ caller[w].since <= call[c].born
    BY <1>0, <1>5 DEF Receive, CacheInv, WaitersCurrent, CacheTypeOK
  <2>2. got.state # "waiting" /\ got.born = call[c].born /\ got.since = caller[w].since
    BY <2>1 DEF CallerState
  <2>3. caller' = [caller EXCEPT ![w] = got] /\ UNCHANGED <<entries, inFlight, handoffs, call, voided>>
    BY <1>5 DEF Receive, cache
  <2> HIDE DEF got
  <2>4. WaitersCurrent'
    BY <1>0, <2>2, <2>3 DEF CacheInv, WaitersCurrent, CacheTypeOK
  <2>5. NothingStale'
    BY <1>0, <2>1, <2>2, <2>3 DEF CacheInv, NothingStale, CacheTypeOK
  <2> QED BY <2>3, <2>4, <2>5
          DEF CacheInv, InFlightCurrent, RunningKnown, HandoffNamesKey, HandoffFindsEntry
<1>6. ASSUME NEW c \in Calls, NEW ok \in BOOLEAN, NEW life \in 0..EntryTTL, Complete(c, ok, life)
      PROVE  CacheInv'
  <2> DEFINE k == call[c].key
             built == [present |-> TRUE, born |-> call[c].born, life |-> life]
             ended == [call[c] EXCEPT !.state = "done", !.ok = ok]
  <2>1. k \in Keys /\ call[c].state = "running"
    BY <1>6 DEF Complete, CacheInv, RunningKnown
  <2>2. /\ call' = [call EXCEPT ![c] = ended]
        /\ inFlight' = IF inFlight[k] = c THEN [inFlight EXCEPT ![k] = None] ELSE inFlight
        /\ UNCHANGED <<caller, voided>>
    BY <1>6 DEF Complete, Finished
  <2>3. ended.state = "done" /\ ended.born = call[c].born
    BY <1>0 DEF CacheTypeOK, CallState
  <2>4. /\ \A j \in Keys :
             /\ entries'[j].present => entries'[j].born = voided[j]
             /\ entries'[j].present => entries[j].present \/ (j = k /\ inFlight[k] = c)
        /\ \A o \in Owners : handoffs'[o].life > 0 =>
             /\ handoffs'[o].key \in Keys
             /\ entries'[handoffs'[o].key].present
             /\ entries'[handoffs'[o].key].life >= handoffs'[o].life
    <3>1. CASE ok /\ Storable(c)
      <4>1. PICK drop \in Keys \cup {None} :
             /\ entries' = [j \in Keys |->
                  IF j = k THEN built ELSE IF j = drop THEN NoEntry ELSE entries[j]]
             /\ handoffs' = IF drop = None THEN handoffs ELSE HandoffsWithout(drop)
        BY <1>6, <3>1 DEF Complete
      <4>2. inFlight[k] = c /\ ~entries[k].present /\ call[c].born = voided[k]
        BY <2>1, <3>1 DEF Storable, CacheInv, InFlightCurrent
      <4>3. \A j \in Keys : /\ entries'[j].present => entries'[j].born = voided[j]
                            /\ entries'[j].present => entries[j].present \/ (j = k /\ inFlight[k] = c)
        BY <4>1, <4>2 DEF CacheInv, NothingStale, NoEntry
      <4>4. ASSUME NEW o \in Owners, handoffs'[o].life > 0
            PROVE  /\ handoffs'[o].key \in Keys
                   /\ entries'[handoffs'[o].key].present
                   /\ entries'[handoffs'[o].key].life >= handoffs'[o].life
        <5>1. handoffs'[o] = handoffs[o] /\ handoffs[o].key # drop
          <6>1. CASE drop = None
            BY <4>1, <4>4, <6>1 DEF CacheInv, HandoffNamesKey
          <6>2. CASE drop # None
            BY <4>1, <4>4, <6>2 DEF HandoffsWithout, NoHandoff
          <6> QED BY <6>1, <6>2
        <5>2. /\ handoffs[o].key \in Keys /\ entries[handoffs[o].key].present
              /\ entries[handoffs[o].key].life >= handoffs[o].life
          BY <4>4, <5>1 DEF CacheInv, HandoffNamesKey, HandoffFindsEntry
        <5>3. entries'[handoffs[o].key] = entries[handoffs[o].key]
          BY <4>1, <4>2, <5>1, <5>2
        <5> QED BY <5>1, <5>2, <5>3
      <4> QED BY <4>3, <4>4
    <3>2. CASE ~(ok /\ Storable(c))
      <4>1. UNCHANGED <<entries, handoffs>>
        BY <1>6, <3>2 DEF Complete
      <4> QED BY <4>1 DEF CacheInv, NothingStale, HandoffNamesKey, HandoffFindsEntry
    <3> QED BY <3>1, <3>2
  <2> HIDE DEF ended
  <2>5. InFlightCurrent'
    <3>1. ASSUME NEW j \in Keys, inFlight'[j] # None
          PROVE  inFlight'[j] = inFlight[j] /\ inFlight[j] # c /\ inFlight[j] \in Calls
      <4>1. inFlight'[j] = inFlight[j] /\ inFlight[j] \in Calls
        BY <1>0, <2>1, <2>2, <3>1 DEF CacheTypeOK
      <4>2. inFlight[j] = c => j = k
        BY <3>1, <4>1 DEF CacheInv, InFlightCurrent
      <4>3. inFlight[k] = c => inFlight'[k] = None
        BY <1>0, <2>1, <2>2 DEF CacheTypeOK
      <4> QED BY <3>1, <4>1, <4>2, <4>3
    <3>2. ASSUME NEW j \in Keys, inFlight'[j] # None
          PROVE  call'[inFlight'[j]] = call[inFlight[j]] /\ (entries'[j].present => entries[j].present)
      BY <1>0, <2>2, <2>4, <3>1, <3>2 DEF CacheTypeOK
    <3> QED BY <2>2, <3>1, <3>2 DEF CacheInv, InFlightCurrent
  <2>6. RunningKnown'
    <3>1. ASSUME NEW d \in Calls, call'[d].state = "running"
          PROVE  d # c /\ call'[d] = call[d] /\ call[d].state = "running"
      BY <1>0, <2>2, <2>3, <3>1 DEF CacheTypeOK
    <3>2. ASSUME NEW d \in Calls, d # c, inFlight[call[d].key] = d, call[d].key \in Keys
          PROVE  inFlight'[call[d].key] = d
      BY <1>0, <2>1, <2>2, <3>2 DEF CacheTypeOK
    <3> QED BY <2>2, <3>1, <3>2 DEF CacheInv, RunningKnown
  <2>7. WaitersCurrent'
    <3>1. \A d \in Calls : call'[d].born = call[d].born /\ (call'[d].state = "free" => call[d].state = "free")
      BY <1>0, <2>2, <2>3 DEF CacheTypeOK
    <3> QED BY <2>2, <3>1 DEF CacheInv, WaitersCurrent, TypeInv, WaitsForCall
  <2>8. NothingStale' /\ HandoffNamesKey' /\ HandoffFindsEntry'
    BY <2>2, <2>4 DEF CacheInv, NothingStale, HandoffNamesKey, HandoffFindsEntry
  <2> QED BY <2>5, <2>6, <2>7, <2>8 DEF CacheInv
<1>7. ASSUME NEW c \in Calls, Collect(c) PROVE CacheInv'
  <2>1. /\ call' = [call EXCEPT ![c] = FreeCall]
        /\ call[c].state = "done" /\ \A w \in Callers : caller[w].call # c
        /\ UNCHANGED <<entries, inFlight, handoffs, caller, voided>>
    BY <1>7 DEF Collect, Released, cache
  <2>2. InFlightCurrent' /\ RunningKnown' /\ WaitersCurrent'
    BY <1>0, <2>1 DEF CacheInv, InFlightCurrent, RunningKnown, WaitersCurrent, FreeCall, CacheTypeOK
  <2> QED BY <2>1, <2>2 DEF CacheInv, NothingStale, HandoffNamesKey, HandoffFindsEntry
<1>8. ASSUME NEW K \in SUBSET Keys, Evict(K) PROVE CacheInv'
  <2>1. InFlightCurrent'
    BY <1>0, <1>8 DEF Evict, InFlightWithout, CacheInv, InFlightCurrent, CacheTypeOK
  <2>2. RunningKnown'
    BY <1>0, <1>8 DEF Evict, InFlightWithout, CacheInv, RunningKnown, CacheTypeOK, CallState, Voids
  <2>3. WaitersCurrent'
    BY <1>8 DEF Evict, CacheInv, WaitersCurrent
  <2>4. NothingStale'
    BY <1>8 DEF Evict, CacheInv, NothingStale, NoEntry
  <2>5. HandoffNamesKey' /\ HandoffFindsEntry'
    BY <1>0, <1>8 DEF Evict, CacheInv, HandoffNamesKey, HandoffFindsEntry, NoHandoff
  <2> QED BY <2>1, <2>2, <2>3, <2>4, <2>5 DEF CacheInv
<1>9. ASSUME NEW o \in Owners, NEW k \in Keys, MarkHandoff(o, k) PROVE CacheInv'
  BY <1>9, LookupStep DEF MarkHandoff
<1>10. ASSUME NEW o \in Owners, ConsumeHandoff(o) PROVE CacheInv'
  BY <1>10, LookupStep DEF ConsumeHandoff
<1>11. CASE Clear
  <2>1. RunningKnown'
    BY <1>0, <1>11 DEF Clear, CacheInv, RunningKnown, CacheTypeOK, CallState, Voids
  <2> QED BY <1>11, <2>1
          DEF Clear, CacheInv, InFlightCurrent, WaitersCurrent, NothingStale, HandoffNamesKey,
              HandoffFindsEntry, NoEntry, NoHandoff
<1>12. CASE CacheTick
  <2>1. \A k \in Keys : /\ entries'[k].present = entries[k].present
                        /\ entries'[k].born = entries[k].born
                        /\ entries'[k].life = Less(entries[k].life)
    BY <1>0, <1>12 DEF CacheTick, CacheTypeOK, Entry
  <2>2. \A o \in Owners : /\ handoffs'[o].key = handoffs[o].key
                          /\ handoffs'[o].life = Less(handoffs[o].life)
    BY <1>0, <1>12 DEF CacheTick, CacheTypeOK, Handoff
  <2>3. /\ \A k \in Keys : entries[k].life \in Nat
        /\ \A o \in Owners : handoffs[o].life \in Nat
    BY <1>0 DEF CacheTypeOK, Entry, Handoff
  <2>4. HandoffNamesKey' /\ HandoffFindsEntry'
    BY <2>1, <2>2, <2>3 DEF Less, CacheInv, HandoffNamesKey, HandoffFindsEntry
  <2>5. UNCHANGED <<inFlight, call, caller, voided>>
    BY <1>12 DEF CacheTick
  <2>6. InFlightCurrent'
    BY <2>1, <2>5 DEF CacheInv, InFlightCurrent
  <2>7. NothingStale'
    BY <2>1, <2>5 DEF CacheInv, NothingStale
  <2> QED BY <2>4, <2>5, <2>6, <2>7 DEF CacheInv, RunningKnown, WaitersCurrent
<1>13. CASE UNCHANGED cacheVars
  BY <1>13 DEF cacheVars, cache, CacheInv, InFlightCurrent, RunningKnown, WaitersCurrent, NothingStale,
               HandoffNamesKey, HandoffFindsEntry
<1> QED
  BY <1>0, <1>1, <1>2, <1>3, <1>4, <1>5, <1>6, <1>7, <1>8, <1>9, <1>10, <1>11, <1>12, <1>13
  DEF CacheNext, EndCall

\* Neither an entry, nor an answer to a caller, nor a hand-off is older than the last clear or
\* eviction of its key as its user may rely on it, whatever clears, evictions, completions and
\* expiries of any number of builds interleave under cache.mu.
THEOREM PreparationCoherent == CacheSpec => []CacheCoherent
<1>1. CacheInv => CacheCoherent
  BY DEF CacheInv, CacheCoherent
<1> QED BY <1>1, TypeInit, TypeStep, CoherenceInit, CoherenceStep, PTL DEF CacheSpec

\* For any number of callers, two builds of one key run at the same time only if a clear or an
\* eviction has overtaken one of them: the lookup and the registration are one critical section.
THEOREM PreparationOneBuildPerKey == CacheSpec => []OneBuildPerKey
<1>1. CacheInv => OneBuildPerKey
  BY DEF CacheInv, RunningKnown, OneBuildPerKey
<1> QED BY <1>1, TypeInit, TypeStep, CoherenceInit, CoherenceStep, PTL DEF CacheSpec
=============================================================================
