------------------------------- MODULE Rooms -------------------------------
(***************************************************************************)
(* Shared playback rooms: server/internal/coordination/service.go over the *)
(* tables of migration 000076_playback_coordination.sql.                   *)
(*                                                                         *)
(* A session opens a room on a title and becomes its host, other sessions  *)
(* join with a code, every member polls, the host publishes the playback   *)
(* state under a version number, and a maintenance pass deletes rooms that *)
(* expired or whose host went silent.                                      *)
(*                                                                         *)
(* Every operation on a room is one PostgreSQL transaction of two steps.   *)
(* LockRoom finds the room live and locks its row; later, after the row of *)
(* the room's title was locked, for which it may have had to wait, the     *)
(* transaction checks the rest, writes and commits.  Time passes between   *)
(* the two, and each statement reads the clock anew.  CreateRoom counts    *)
(* first and inserts later under an advisory lock.  The rooms are on       *)
(* titles of one add-on, each on a title of its own, so that the locks on  *)
(* titles exclude nothing.  Timestamps are kept as ages: a member's time   *)
(* since last_seen_at, a room's time left to expires_at.                   *)
(***************************************************************************)
EXTENDS Naturals, FiniteSets, Sequences

CONSTANTS
  Sessions,      \* auth_sessions rows that may call the service
  Profiles,      \* profiles a session may select
  Rooms,         \* room ids; a random UUID names one room for ever
  NoProfile,     \* a session without a usable active profile
  NoSession,     \* the host of a room that is not open, the holder of a free lock
  PresenceTTL,   \* presenceTTL: a member unseen for this long is stale
  RoomTTL,       \* roomTTL: what a join or an update sets the life to
  MaxRooms,      \* maximumRoomsPerSession
  MaxMembers,    \* maximumRoomMembers
  MaxVersion     \* bound of the model: updates of one room stop here

ASSUME RoomsAssumption ==
  /\ NoProfile \notin Profiles
  /\ NoSession \notin Sessions
  /\ IsFiniteSet(Sessions) /\ IsFiniteSet(Rooms)
  /\ PresenceTTL \in Nat \ {0}
  /\ RoomTTL \in Nat \ {0}
  /\ MaxRooms \in Nat \ {0}
  /\ MaxMembers \in Nat \ {0}
  /\ MaxVersion \in Nat \ {0}

VARIABLES
  profile,   \* session -> its active profile
  access,    \* profile -> may it see the rooms' title?
  creating,  \* session -> CreateRoom transactions between count and insert
  holder,    \* room id -> session whose request holds the lock of the row
  room,      \* room id -> the playback_rooms row
  member     \* room id -> session -> the playback_room_members row

vars == <<profile, access, creating, holder, room, member>>

-----------------------------------------------------------------------------
\* The row, with the expectedVersion of each update that was applied and whether
\* the room had expired and was renewed all the same (histories, not columns).
Room == [status : {"unused", "open", "closed"},
         host : Sessions \cup {NoSession},
         hostProfile : Profiles \cup {NoProfile},
         version : 0..MaxVersion,
         life : 0..RoomTTL,
         applied : Seq(1..MaxVersion),
         revived : BOOLEAN]

Member == [role : {"none", "host", "participant"},
           profile : Profiles \cup {NoProfile},
           age : 0..PresenceTTL]

UnusedRoom == [status |-> "unused", host |-> NoSession,
               hostProfile |-> NoProfile, version |-> 0, life |-> 0,
               applied |-> <<>>, revived |-> FALSE]
ClosedRoom == [UnusedRoom EXCEPT !.status = "closed"]
NotMember == [role |-> "none", profile |-> NoProfile, age |-> 0]

Open(r) == room[r].status = "open"
Held(r) == holder[r] # NoSession

\* The type invariant; a row that is locked is there.
TypeOK ==
  /\ profile \in [Sessions -> Profiles \cup {NoProfile}]
  /\ access \in [Profiles -> {"granted", "revoked", "deleted"}]
  /\ creating \in [Sessions -> 0..1]
  /\ holder \in [Rooms -> Sessions \cup {NoSession}]
  /\ room \in [Rooms -> Room]
  /\ member \in [Rooms -> [Sessions -> Member]]
  /\ \A r \in Rooms : Held(r) => Open(r)

IsMember(r, s) == member[r][s].role # "none"
Members(r) == {s \in Sessions : IsMember(r, s)}
Fresh(m) == m.age < PresenceTTL

\* liveRoomHostPredicateSQL: some host row was seen within presenceTTL.
HostLive(r) ==
  \E s \in Sessions : member[r][s].role = "host" /\ Fresh(member[r][s])

\* The rows lockLiveRoom selects.
Live(r) == Open(r) /\ room[r].life > 0 /\ HostLive(r)

\* Slip: lockLiveRoom without its live-host condition.
LockIgnoringHost(r) == Open(r) /\ room[r].life > 0

lockLiveRoom(r) == Live(r)

\* beginAuthorizedProfileTx: the session has an active profile it may use.
beginAuthorizedProfileTx(s) == profile[s] # NoProfile

\* Slip: the title is not checked again.
TitleUnchecked(s) == TRUE

\* canonicalItemTx: the active profile may see the title of the room.
canonicalItemTx(s) == access[profile[s]] = "granted"

\* A transaction of the session is under way; its session and profile rows stay
\* locked FOR SHARE until it ends.
InProgress(s) == creating[s] > 0 \/ \E r \in Rooms : holder[r] = s

\* A profile's access to the add-on is locked FOR SHARE from the check of the
\* title on, which CreateRoom makes first and the other operations late.
AccessLocked(p) == \E s \in Sessions : creating[s] > 0 /\ profile[s] = p

Seen(p, role) == [role |-> role, profile |-> p, age |-> 0]
Refreshed(m) == [m EXCEPT !.age = 0]
Renewed(row) ==
  [row EXCEPT !.life = RoomTTL, !.revived = IF row.life = 0 THEN TRUE ELSE @]
Updated(row, expected) ==
  [Renewed(row) EXCEPT !.version = @ + 1, !.applied = Append(@, expected)]

\* A member row's owner and profile as UpdateRoom, Room and LeaveRoom match it.
OwnMember(s, r) == IsMember(r, s) /\ member[r][s].profile = profile[s]

-----------------------------------------------------------------------------
\* Deleting playback_rooms rows cascades to their members.  Whoever deletes a row
\* that a request holds waits for it.
DeleteRooms(R) ==
  /\ room' = [r \in Rooms |-> IF r \in R THEN ClosedRoom ELSE room[r]]
  /\ member' = [r \in Rooms |->
                  IF r \in R THEN [s \in Sessions |-> NotMember] ELSE member[r]]

HostedRooms(s) == {r \in Rooms : Open(r) /\ room[r].host = s /\ room[r].life > 0}

-----------------------------------------------------------------------------
(***************************************************************************)
(* CreateRoom: the advisory lock of the session, the count and, later in   *)
(* the same transaction, the two inserts.                                  *)
(***************************************************************************)
\* Slip: two creations of a session are counted side by side.
CountUnlocked(s) == creating[s] < 2

\* pg_advisory_xact_lock on the session.
AdmissionLock(s) == creating[s] = 0

CountRooms(s) ==
  /\ beginAuthorizedProfileTx(s)
  /\ canonicalItemTx(s)
  /\ AdmissionLock(s)
  /\ Cardinality(HostedRooms(s)) < MaxRooms
  /\ creating' = [creating EXCEPT ![s] = @ + 1]
  /\ UNCHANGED <<profile, access, holder, room, member>>

InsertRoom(s, r) ==
  /\ creating[s] > 0
  /\ room[r].status = "unused"
  /\ creating' = [creating EXCEPT ![s] = @ - 1]
  /\ room' = [room EXCEPT ![r] =
                [status |-> "open", host |-> s, hostProfile |-> profile[s],
                 version |-> 1, life |-> RoomTTL,
                 applied |-> <<>>, revived |-> FALSE]]
  /\ member' = [member EXCEPT ![r][s] = Seen(profile[s], "host")]
  /\ UNCHANGED <<profile, access, holder>>

\* The transaction rolls back: the request was cancelled or a statement failed.
AbandonCreate(s) ==
  /\ creating[s] > 0
  /\ creating' = [creating EXCEPT ![s] = @ - 1]
  /\ UNCHANGED <<profile, access, holder, room, member>>

(***************************************************************************)
(* JoinRoom, Room, UpdateRoom and LeaveRoom: lock the room while it is     *)
(* live; what each of them is shows in how it goes on.                     *)
(***************************************************************************)
LockRoom(s, r) ==
  /\ beginAuthorizedProfileTx(s)
  /\ ~Held(r)
  /\ lockLiveRoom(r)
  /\ holder' = [holder EXCEPT ![r] = s]
  /\ UNCHANGED <<profile, access, creating, room, member>>

Release(r) == holder' = [holder EXCEPT ![r] = NoSession]

\* The transaction ends without effect: a check fails, the request was
\* cancelled or a statement failed.
AbandonRequest(r) ==
  /\ Held(r)
  /\ Release(r)
  /\ UNCHANGED <<profile, access, creating, room, member>>

(***************************************************************************)
(* JoinRoom: stale participants go first, a member that is already in the  *)
(* room passes a full room, an existing row keeps its role, and the room's *)
(* life starts again.                                                      *)
(***************************************************************************)
AfterPurge(r) ==
  [s \in Sessions |->
     IF member[r][s].role = "participant" /\ ~Fresh(member[r][s])
     THEN NotMember ELSE member[r][s]]

\* Slip: a role the table does not know.
JoinedAsMember(m) == IF m.role = "none" THEN "member" ELSE m.role

JoinedRole(m) == IF m.role = "none" THEN "participant" ELSE m.role

Joinable(rows, s) ==
  \/ Cardinality({t \in Sessions : rows[t].role # "none"}) < MaxMembers
  \/ rows[s].role # "none"

JoinRoom(s, r) ==
  /\ holder[r] = s
  /\ canonicalItemTx(s)
  /\ LET rows == AfterPurge(r) IN
       /\ Joinable(rows, s)
       /\ member' = [member EXCEPT ![r] =
            [rows EXCEPT ![s] = Seen(profile[s], JoinedRole(rows[s]))]]
  /\ room' = [room EXCEPT ![r] = Renewed(@)]
  /\ Release(r)
  /\ UNCHANGED <<profile, access, creating>>

\* Room: a poll refreshes the caller's row, never the room's life.
ReadRoom(s, r) ==
  /\ holder[r] = s
  /\ canonicalItemTx(s)
  /\ OwnMember(s, r)
  /\ member' = [member EXCEPT ![r][s] = Refreshed(@)]
  /\ Release(r)
  /\ UNCHANGED <<profile, access, creating, room>>

(***************************************************************************)
(* UpdateRoom with the client's expectedVersion.  The requests of one      *)
(* session may be retried, delayed or overtake each other, so any version  *)
(* that was ever current may arrive.                                       *)
(***************************************************************************)
\* Slip: an update made against an older version is accepted.
VersionNotAhead(r, expected) == expected <= room[r].version

VersionMatches(r, expected) == room[r].version = expected

UpdateRoom(s, r, expected) ==
  /\ holder[r] = s
  /\ canonicalItemTx(s)
  /\ OwnMember(s, r) /\ member[r][s].role = "host"
  /\ room[r].version < MaxVersion
  /\ VersionMatches(r, expected)
  /\ room' = [room EXCEPT ![r] = Updated(@, expected)]
  /\ member' = [member EXCEPT ![r][s] = Refreshed(@)]
  /\ Release(r)
  /\ UNCHANGED <<profile, access, creating>>

\* LeaveRoom: a leaving host closes the room; the title is not checked.
LeaveRoom(s, r) ==
  /\ holder[r] = s
  /\ OwnMember(s, r)
  /\ IF member[r][s].role = "host"
     THEN DeleteRooms({r})
     ELSE /\ member' = [member EXCEPT ![r][s] = NotMember]
          /\ UNCHANGED room
  /\ Release(r)
  /\ UNCHANGED <<profile, access, creating>>

\* Cleanup of rooms in the maintenance pass, once no row it deletes is held.
Cleanup ==
  LET dead == {r \in Rooms : Open(r) /\ (room[r].life = 0 \/ ~HostLive(r))} IN
  /\ dead # {}
  /\ \A r \in dead : ~Held(r)
  /\ DeleteRooms(dead)
  /\ UNCHANGED <<profile, access, creating, holder>>

-----------------------------------------------------------------------------
(***************************************************************************)
(* What other services do to the rows a room depends on.  Each of them     *)
(* needs an exclusive lock on a row a room transaction holds FOR SHARE.    *)
(***************************************************************************)
\* auth: profile selection, its clearing or expiry, logout or revocation.
SelectProfile(s, p) ==
  /\ ~InProgress(s)
  /\ p # NoProfile => access[p] # "deleted"
  /\ p # profile[s]
  /\ profile' = [profile EXCEPT ![s] = p]
  /\ UNCHANGED <<access, creating, holder, room, member>>

\* add-on administration: the title's add-on is granted or taken away.
SetAccess(p, a) ==
  /\ ~AccessLocked(p)
  /\ access[p] # "deleted" /\ a # access[p]
  /\ access' = [access EXCEPT ![p] = a]
  /\ UNCHANGED <<profile, creating, holder, room, member>>

\* profile: deletion cascades to hosted rooms and to memberships.
DeleteProfile(p) ==
  /\ ~\E s \in Sessions : InProgress(s) /\ profile[s] = p
  /\ access[p] # "deleted"
  /\ access' = [access EXCEPT ![p] = "deleted"]
  /\ profile' = [s \in Sessions |-> IF profile[s] = p THEN NoProfile ELSE profile[s]]
  /\ LET gone == {r \in Rooms : Open(r) /\ room[r].hostProfile = p} IN
       /\ \A r \in gone : ~Held(r)
       /\ room' = [r \in Rooms |-> IF r \in gone THEN ClosedRoom ELSE room[r]]
       /\ member' = [r \in Rooms |-> [s \in Sessions |->
            IF r \in gone \/ member[r][s].profile = p
            THEN NotMember ELSE member[r][s]]]
  /\ UNCHANGED <<creating, holder>>

\* auth cleanup deletes a revoked or expired session row; the slot is then
\* free for another session, which starts without any of these rows.
DeleteSession(s) ==
  /\ ~InProgress(s)
  /\ profile[s] = NoProfile
  /\ LET gone == {r \in Rooms : Open(r) /\ room[r].host = s} IN
       /\ gone # {} \/ \E r \in Rooms : IsMember(r, s)
       /\ \A r \in gone : ~Held(r)
       /\ room' = [r \in Rooms |-> IF r \in gone THEN ClosedRoom ELSE room[r]]
       /\ member' = [r \in Rooms |-> [t \in Sessions |->
            IF r \in gone \/ t = s THEN NotMember ELSE member[r][t]]]
  /\ UNCHANGED <<profile, access, creating, holder>>

Older(m) == IF m.role = "none" \/ m.age = PresenceTTL THEN m
            ELSE [m EXCEPT !.age = @ + 1]
Shorter(row) == IF row.life = 0 THEN row ELSE [row EXCEPT !.life = @ - 1]

\* Time passes.
Tick ==
  /\ member' = [r \in Rooms |-> [s \in Sessions |-> Older(member[r][s])]]
  /\ room' = [r \in Rooms |-> Shorter(room[r])]
  /\ UNCHANGED <<profile, access, creating, holder>>

-----------------------------------------------------------------------------
Init ==
  /\ profile \in [Sessions -> Profiles \cup {NoProfile}]
  /\ access = [p \in Profiles |-> "granted"]
  /\ creating = [s \in Sessions |-> 0]
  /\ holder = [r \in Rooms |-> NoSession]
  /\ room = [r \in Rooms |-> UnusedRoom]
  /\ member = [r \in Rooms |-> [s \in Sessions |-> NotMember]]

Next ==
  \/ \E s \in Sessions : CountRooms(s) \/ AbandonCreate(s) \/ DeleteSession(s)
  \/ \E s \in Sessions, r \in Rooms :
       \/ InsertRoom(s, r)
       \/ LockRoom(s, r)
       \/ JoinRoom(s, r)
       \/ ReadRoom(s, r)
       \/ LeaveRoom(s, r)
       \/ \E expected \in 1..MaxVersion : UpdateRoom(s, r, expected)
  \/ \E s \in Sessions, p \in Profiles \cup {NoProfile} : SelectProfile(s, p)
  \/ \E p \in Profiles :
       DeleteProfile(p) \/ \E a \in {"granted", "revoked"} : SetAccess(p, a)
  \/ \E r \in Rooms : AbandonRequest(r)
  \/ Cleanup
  \/ Tick

\* Time passes, the maintenance ticker keeps firing, and transactions that hold
\* locks end.  Nothing is assumed of clients or administrators.
Fairness ==
  /\ WF_vars(Tick)
  /\ WF_vars(Cleanup)
  /\ WF_vars((\E s \in Sessions : AbandonCreate(s)) \/ (\E r \in Rooms : AbandonRequest(r)))

Spec == Init /\ [][Next]_vars /\ Fairness

-----------------------------------------------------------------------------
(***************************************************************************)
(* Properties.                                                             *)
(***************************************************************************)
\* No session hosts more than MaxRooms unexpired rooms, not counting those that
\* a join or an update found live and renewed after they had expired: concurrent
\* CreateRoom calls are counted under the session's advisory lock.  A room that
\* expired is not counted, and its renewal by a request under way is the one way
\* past the limit.
HostLimit ==
  \A s \in Sessions :
    Cardinality({r \in HostedRooms(s) : ~room[r].revived}) + creating[s] <= MaxRooms

\* The n-th update that took effect was made against version n: of the updates
\* sent against one version, retries included, one at most is applied, and
\* none is applied on top of a state its sender had not seen.
UpdatesInVersionOrder ==
  \A r \in Rooms :
    /\ \A i \in 1..Len(room[r].applied) : room[r].applied[i] = i
    /\ Open(r) => room[r].version = Len(room[r].applied) + 1

\* A room that expired or lost its host comes back to life only through a request
\* that had found it live and locked it; once no request holds it, polls, joins
\* and updates find nothing for ever.
DeadStaysDead ==
  [][\A r \in Rooms :
        Open(r) /\ ~Live(r) /\ ~Held(r) => ~Live(r)' /\ ~Held(r)']_vars

\* Once no profile may see the title any more, every room on it is gone in
\* the end, because no operation refreshes a member without checking access.
RevokedRoomsEnd ==
  <>[](\A p \in Profiles : access[p] # "granted")
     => <>[](\A r \in Rooms : ~Open(r))
=============================================================================
