------------------------ MODULE DeviceAuthorization ------------------------
(***************************************************************************)
(* Signing a device in with a code that another, signed-in device          *)
(* approves: server/internal/auth/device_authorization.go.                 *)
(*                                                                         *)
(* Two protocols share the table device_authorizations: the native one and *)
(* Jellyfin Quick Connect.  The device begins an authorization and gets a  *)
(* code; a user approves the code; the device exchanges it for a session.  *)
(*                                                                         *)
(* Every operation is one transaction of several statements.  It is cut    *)
(* into steps where it reads without a lock or has to wait for one, so     *)
(* that operations on one code, one user or one profile interleave as the  *)
(* row locks allow.  A transaction that ends in an error changes nothing.  *)
(***************************************************************************)
EXTENDS Integers, FiniteSetsExt

CONSTANTS
  Codes,           \* device codes; each is drawn at most once
  Sources,         \* network sources (source_hash)
  Clients,         \* installation ids and Jellyfin client device ids
  Purposes,        \* the protocols in use
  Users,
  Admins,          \* the users who are or may become administrators
  NoUser,
  Profiles,
  NoProfile,
  Categories,
  NoCategory,
  Households,      \* the accounts, categories and sources of an installation; the codes it draws
  Requests,        \* calls that may be in progress at once
  Capacity,        \* maximumOutstandingDeviceAuthorizations
  SourceCapacity,  \* maximumOutstandingDeviceAuthorizationsPerSource
  ReservePercent,  \* deviceAuthorizationProtectedReservePercent
  CodeTTL,         \* deviceAuthorizationTTL
  Interval,        \* deviceAuthorizationInterval
  MaxDevices       \* maximumDevicesPerUser

ASSUME DeviceAuthorizationAssumption ==
  /\ IsFiniteSet(Codes) /\ IsFiniteSet(Sources) /\ Sources # {} /\ Clients # {}
  /\ Purposes \subseteq {"native", "quick"}
  /\ Admins \subseteq Users
  /\ NoUser \notin Users /\ NoProfile \notin Profiles /\ NoCategory \notin Categories
  /\ Households \subseteq [users : SUBSET Users, categories : (SUBSET Categories) \ {{}},
                            sources : SUBSET Sources, draws : 0..Cardinality(Codes)]
  /\ Capacity \in Nat \ {0} /\ SourceCapacity \in Nat \ {0}
  /\ ReservePercent \in 0..100
  /\ CodeTTL \in Nat \ {0} /\ Interval \in Nat /\ MaxDevices \in Nat \ {0}

VARIABLES
  household, \* the member of Households this installation is
  row,       \* code -> the device_authorizations row
  users,     \* the users that exist
  admins,    \* those whose role is admin
  grant,     \* user -> profile -> the user_profile_access row
  category,  \* profile -> its category
  devices,   \* user -> number of devices signed in natively
  linked,    \* jellyfin_compat_devices, each with a device of its own
  request,   \* request -> the call in progress
  issued     \* code -> number of sessions issued for it (history)

vars == <<household, row, users, admins, grant, category, devices, linked, request, issued>>
account == <<household, users, admins, grant, category>>
device == <<devices, linked>>

-----------------------------------------------------------------------------
Row == [state : {"unused", "open", "consumed", "deleted"},
        purpose : {"native", "quick"},
        source : Sources,
        client : Clients,
        approver : Users \cup {NoUser},
        profile : Profiles \cup {NoProfile},
        category : Categories \cup {NoCategory},
        life : 0..CodeTTL,         \* time left to expires_at
        wait : 0..Interval]        \* time left of the polling interval

UnusedRow == [state |-> "unused", purpose |-> "native",
              source |-> CHOOSE s \in Sources : TRUE,
              client |-> CHOOSE i \in Clients : TRUE,
              approver |-> NoUser, profile |-> NoProfile,
              category |-> NoCategory, life |-> 0, wait |-> 0]
DeletedRow == [UnusedRow EXCEPT !.state = "deleted"]

\* The transactions in progress, after the rows they have read and locked.
Idle == [op |-> "idle"]
BeginCall ==
  [op : {"begin"}, stage : {"admitted"}, code : Codes, purpose : {"native", "quick"},
   source : Sources, client : Clients, doomed : SUBSET Codes]
ApproveCall ==
  [op : {"approve"}, stage : {"found", "authorised"}, code : Codes, purpose : {"native", "quick"},
   user : Users, profile : Profiles, locked : SUBSET Profiles,
   category : Categories \cup {NoCategory}]
ExchangeCall ==
  [op : {"exchange"}, stage : {"discovered", "owned", "checked"}, code : Codes,
   user : Users \cup {NoUser}]
QuickCall ==
  [op : {"quick"}, stage : {"read", "owned", "checked"}, code : Codes,
   user : Users, profile : Profiles, category : Categories]

\* The constraints on approvals of migrations 000004, 000041 and 000075.
Consistent(r) ==
  /\ r.approver = NoUser <=> r.category = NoCategory
  /\ r.profile # NoProfile <=> r.purpose = "quick" /\ r.approver # NoUser

\* The type invariant, with the table's constraints.
TypeOK ==
  /\ household \in Households
  /\ row \in [Codes -> Row]
  /\ \A c \in Codes : Consistent(row[c])
  /\ users \subseteq Users /\ admins \subseteq Users
  /\ grant \in [Users -> [Profiles -> {"none", "use", "manage"}]]
  /\ category \in [Profiles -> Categories]
  /\ devices \in [Users -> Nat]
  /\ linked \subseteq Users \X Profiles \X Clients
  /\ request \in [Requests -> {Idle} \cup BeginCall \cup ApproveCall \cup ExchangeCall \cup QuickCall]
  /\ issued \in [Codes -> Nat]

Stored(c) == row[c].state \in {"open", "consumed"}
Outstanding == {c \in Codes : row[c].state = "open" /\ row[c].life > 0}
Stale == {c \in Codes : row[c].state = "consumed" \/ (row[c].state = "open" /\ row[c].life = 0)}
DeviceCount(u) == devices[u] + Cardinality({l \in linked : l[1] = u})

At(q, op, stage) == request[q].op = op /\ request[q].stage = stage

\* Exchanges lock the approver FOR UPDATE, approvals FOR SHARE; approvals and
\* Quick Connect exchanges hold share locks on profiles and grants as well.
UserExclusive(u) ==
  \E q \in Requests : /\ At(q, "exchange", "owned") \/ At(q, "exchange", "checked")
                         \/ At(q, "quick", "owned") \/ At(q, "quick", "checked")
                      /\ request[q].user = u
UserShared(u) == \E q \in Requests : At(q, "approve", "authorised") /\ request[q].user = u
UserLocked(u) == UserExclusive(u) \/ UserShared(u)

ProfileLocked(p) ==
  \E q \in Requests :
    \/ At(q, "approve", "authorised") /\ p \in request[q].locked
    \/ (At(q, "quick", "owned") \/ At(q, "quick", "checked")) /\ request[q].profile = p
GrantLocked(u, p) ==
  \E q \in Requests :
    /\ request[q].op \in {"approve", "quick"} /\ request[q].user = u
    /\ \/ At(q, "approve", "authorised") /\ p \in request[q].locked
       \/ (At(q, "quick", "owned") \/ At(q, "quick", "checked")) /\ request[q].profile = p

RowLocked(c) ==
  \E q \in Requests :
    \/ request[q].op = "begin" /\ c \in request[q].doomed
    \/ (At(q, "exchange", "checked") \/ At(q, "quick", "checked")) /\ request[q].code = c

Goes(q, r) == request' = [request EXCEPT ![q] = r]
Ends(q) == Goes(q, Idle)
GoesTo(q, stage) == Goes(q, [request[q] EXCEPT !.stage = stage])

-----------------------------------------------------------------------------
(***************************************************************************)
(* BeginDeviceAuthorization and BeginJellyfinQuickConnect.                 *)
(***************************************************************************)
\* deviceAuthorizationGeneralCapacity
GeneralCapacity ==
  LET reserve == (Capacity * ReservePercent + 99) \div 100 IN
    Capacity - (IF reserve < 1 THEN 1 ELSE reserve)

Admitted(outstanding, ofSource) ==
  /\ outstanding < Capacity
  /\ ofSource < SourceCapacity
  /\ outstanding < GeneralCapacity \/ ofSource = 0

\* The n-th expiry, counted from 0, of the codes C; none past the last.
NthExpiry(C, n) ==
  {t \in {row[c].life : c \in C} :
     /\ Cardinality({c \in C : row[c].life < t}) <= n
     /\ n < Cardinality({c \in C : row[c].life <= t})}

\* Slip: the source is told to wait for a free general slot only.
ReserveWaitGeneral(active, ofSource) ==
  NthExpiry(active, Cardinality(active) - GeneralCapacity)

\* Until the general capacity or the last code of the source is free again.
ReserveWait(active, ofSource) ==
  LET general == NthExpiry(active, Cardinality(active) - GeneralCapacity)
      inactive == {Max({row[c].life : c \in ofSource})} IN
    IF general = {} THEN inactive ELSE {Min(general \cup inactive)}

\* deviceAuthorizationCapacityRetryAfter: the last of the times at which the
\* limits that refused the request are free again.
RetryAfter(active, ofSource) ==
  LET n == Cardinality(active)
      m == Cardinality(ofSource) IN
    Max((IF n >= Capacity THEN NthExpiry(active, n - Capacity) ELSE {}) \cup
        (IF m >= SourceCapacity THEN NthExpiry(ofSource, m - SourceCapacity) ELSE {}) \cup
        (IF n >= GeneralCapacity /\ m > 0 THEN ReserveWait(active, ofSource) ELSE {}))

\* The codes that have not been drawn.
Undrawn ==
  {c \in Codes : row[c].state = "unused"} \ {request[q].code : q \in {r \in Requests : request[r].op = "begin"}}

\* Slip: admission is not serialised.
NoAdmissionLock == TRUE

\* pg_advisory_xact_lock(deviceAuthorizationAdmissionLockID)
AdmissionLock == \A q \in Requests : request[q].op # "begin"

\* A native begin deletes the code its installation had before.
Replaced(purpose, client) ==
  {c \in Codes : /\ row[c].state = "open" /\ row[c].purpose = "native"
                 /\ purpose = "native" /\ row[c].client = client}

\* Up to the count: the rows the transaction deletes are locked by it, and
\* are back if it ends without a commit.
AdmitCode(q, purpose, source, client) ==
  LET replaced == Replaced(purpose, client)
      rest == Outstanding \ replaced IN
  /\ request[q] = Idle
  /\ Cardinality(Codes \ Undrawn) < household.draws
  /\ AdmissionLock
  /\ \A c \in Stale \cup replaced : ~RowLocked(c)
  /\ Admitted(Cardinality(rest), Cardinality({c \in rest : row[c].source = source}))
  /\ Goes(q, [op |-> "begin", stage |-> "admitted", code |-> CHOOSE c \in Undrawn : TRUE, purpose |-> purpose,
              source |-> source, client |-> client, doomed |-> Stale \cup replaced])
  /\ UNCHANGED <<row, account, device, issued>>

\* The insert and the commit.
InsertCode(q) ==
  LET r == request[q] IN
  /\ r.op = "begin"
  /\ row' = [c \in Codes |->
       IF c = r.code
       THEN [UnusedRow EXCEPT !.state = "open", !.purpose = r.purpose, !.source = r.source,
                              !.client = r.client, !.life = CodeTTL]
       ELSE IF c \in r.doomed THEN DeletedRow ELSE row[c]]
  /\ Ends(q)
  /\ UNCHANGED <<account, device, issued>>

(***************************************************************************)
(* ApproveDeviceAuthorization.                                             *)
(***************************************************************************)
\* The purpose is read before the transaction.
FindCode(q, c, u, p, k) ==
  /\ request[q] = Idle
  /\ u \in users
  /\ c \in Outstanding
  /\ Goes(q, [op |-> "approve", stage |-> "found", code |-> c, purpose |-> row[c].purpose,
              user |-> u, profile |-> p, locked |-> {},
              category |-> IF row[c].purpose = "quick" THEN NoCategory ELSE k])
  /\ UNCHANGED <<row, account, device, issued>>

\* The profiles of category k that user u manages.
Managed(u, k) == {p \in Profiles : category[p] = k /\ grant[u][p] = "manage"}

\* ReloadAndLockPrincipal, then the authority over the chosen category: a
\* native code may go to any category of a global administrator and to the
\* approver's own, where they manage a profile, otherwise; a Quick Connect
\* code is bound to the approver's active profile, which must be assigned to
\* them.
MayApproveNative(u, p, k) ==
  u \in admins \/ (grant[u][p] # "none" /\ k = category[p] /\ Managed(u, k) # {})
MayApproveQuick(u, p) ==
  IF u \in admins THEN grant[u][p] # "none" ELSE grant[u][p] = "manage"

AuthorizeApprover(q) ==
  LET r == request[q] IN
  /\ At(q, "approve", "found")
  /\ ~UserExclusive(r.user)
  /\ IF r.user \notin users
     THEN Ends(q)
     ELSE IF r.purpose = "quick"
     THEN IF MayApproveQuick(r.user, r.profile)
          THEN Goes(q, [r EXCEPT !.stage = "authorised", !.locked = {r.profile},
                                 !.category = category[r.profile]])
          ELSE Ends(q)
     ELSE IF MayApproveNative(r.user, r.profile, r.category)
          THEN Goes(q, [r EXCEPT !.stage = "authorised", !.locked = {r.profile} \cup
                 (IF r.user \in admins THEN {} ELSE {CHOOSE p \in Managed(r.user, r.category) : TRUE})])
          ELSE Ends(q)
  /\ UNCHANGED <<row, account, device, issued>>

Approvable(r, purpose) ==
  r.state = "open" /\ r.purpose = purpose /\ r.life > 0 /\ r.approver = NoUser

\* Slip: a native approval stores the active profile as well.
ActiveProfileAlways(r) == r.profile

\* Only Quick Connect binds the code to a profile.
ApprovedProfile(r) == IF r.purpose = "quick" THEN r.profile ELSE NoProfile

\* FOR UPDATE on the code and the UPDATE.  An approved code is left as it is,
\* whether the repetition succeeds or is refused as already claimed.
ApproveCode(q) ==
  LET r == request[q] IN
  /\ At(q, "approve", "authorised")
  /\ ~RowLocked(r.code)
  /\ row' = IF Approvable(row[r.code], r.purpose)
            THEN [row EXCEPT ![r.code] =
                   [@ EXCEPT !.approver = r.user, !.category = r.category,
                             !.profile = ApprovedProfile(r)]]
            ELSE row
  /\ Ends(q)
  /\ UNCHANGED <<account, device, issued>>

(***************************************************************************)
(* exchangeDeviceAuthorization.                                            *)
(***************************************************************************)
\* The approver is read without a lock; NoUser means there is no owner to lock.
Discover(q, c) ==
  /\ request[q] = Idle
  /\ Stored(c) /\ row[c].purpose = "native"
  /\ Goes(q, [op |-> "exchange", code |-> c, user |-> row[c].approver,
              stage |-> IF row[c].approver = NoUser THEN "owned" ELSE "discovered"])
  /\ UNCHANGED <<row, account, device, issued>>

OwnerLock(u) == ~UserLocked(u)

\* lockDeviceOwner
LockOwner(q) ==
  /\ At(q, "exchange", "discovered")
  /\ OwnerLock(request[q].user)
  /\ IF request[q].user \in users THEN GoesTo(q, "owned") ELSE Ends(q)
  /\ UNCHANGED <<row, account, device, issued>>

\* A code that can still be exchanged or polled.
Usable(r) == r.state = "open" /\ r.life > 0

\* requireAvailableDeviceSlot
SlotAvailable(u) == DeviceCount(u) < MaxDevices

\* FOR UPDATE on the code.  Without an approval the poll is recorded, unless
\* it came too soon; with an approval seen now but not before, the device is
\* told to poll again.
CheckCode(q) ==
  LET r == row[request[q].code]
      u == request[q].user IN
  /\ At(q, "exchange", "owned")
  /\ ~RowLocked(request[q].code)
  /\ IF Usable(r) /\ u # NoUser /\ r.approver = u /\ SlotAvailable(u)
     THEN GoesTo(q, "checked") /\ UNCHANGED row
     ELSE /\ Ends(q)
          /\ row' = IF Usable(r) /\ r.approver = NoUser /\ u = NoUser /\ r.wait = 0
                    THEN [row EXCEPT ![request[q].code].wait = Interval]
                    ELSE row
  /\ UNCHANGED <<account, device, issued>>

\* The device, its session, the consumption of the code and the commit.
IssueNative(q) ==
  LET r == request[q] IN
  /\ At(q, "exchange", "checked")
  /\ devices' = [devices EXCEPT ![r.user] = @ + 1]
  /\ issued' = [issued EXCEPT ![r.code] = @ + 1]
  /\ row' = [row EXCEPT ![r.code].state = "consumed"]
  /\ Ends(q)
  /\ UNCHANGED <<account, linked>>

(***************************************************************************)
(* ExchangeJellyfinQuickConnect.                                           *)
(***************************************************************************)
\* The unlocked read.
ReadApproval(q, c) ==
  /\ request[q] = Idle
  /\ c \in Outstanding /\ row[c].purpose = "quick" /\ row[c].approver # NoUser
  /\ Goes(q, [op |-> "quick", stage |-> "read", code |-> c, user |-> row[c].approver,
              profile |-> row[c].profile, category |-> row[c].category])
  /\ UNCHANGED <<row, account, device, issued>>

\* Slip: the grant of the approver is not looked at again.
StillAssigned(r) == r.user \in users

\* The approver still exists and manages the profile, which has not moved.
StillAuthorised(r) ==
  /\ r.user \in users
  /\ category[r.profile] = r.category
  /\ IF r.user \in admins THEN grant[r.user][r.profile] # "none"
     ELSE grant[r.user][r.profile] = "manage"

\* users FOR UPDATE, profile, category and grant FOR SHARE.
LockApproval(q) ==
  /\ At(q, "quick", "read")
  /\ ~UserLocked(request[q].user)
  /\ IF StillAuthorised(request[q]) THEN GoesTo(q, "owned") ELSE Ends(q)
  /\ UNCHANGED <<row, account, device, issued>>

\* upsertJellyfinProfileDevice takes the linked device or a new one in a free slot.
HasDevice(u, p, i) == <<u, p, i>> \in linked \/ SlotAvailable(u)

\* FOR UPDATE on the code, with the approval that was read.
CheckApproval(q) ==
  LET r == request[q]
      a == row[r.code] IN
  /\ At(q, "quick", "owned")
  /\ ~RowLocked(r.code)
  /\ IF /\ Usable(a)
        /\ a.approver = r.user /\ a.profile = r.profile /\ a.category = r.category
        /\ HasDevice(r.user, r.profile, a.client)
     THEN GoesTo(q, "checked")
     ELSE Ends(q)
  /\ UNCHANGED <<row, account, device, issued>>

\* ... AND consumed_at IS NULL AND expires_at > clock_timestamp()
Consumable(r) == r.life > 0

\* The session, the consumption of the code and the commit.
IssueQuick(q) ==
  LET r == request[q] IN
  /\ At(q, "quick", "checked")
  /\ IF Consumable(row[r.code])
     THEN /\ linked' = linked \cup {<<r.user, r.profile, row[r.code].client>>}
          /\ issued' = [issued EXCEPT ![r.code] = @ + 1]
          /\ row' = [row EXCEPT ![r.code].state = "consumed"]
     ELSE UNCHANGED <<linked, issued, row>>
  /\ Ends(q)
  /\ UNCHANGED <<account, devices>>

-----------------------------------------------------------------------------
\* A call is cancelled or the server stops: its transaction rolls back.
Abandon(q) ==
  /\ request[q] # Idle
  /\ Ends(q)
  /\ UNCHANGED <<row, account, device, issued>>

\* cleanupStaleDeviceAuthorizationsSQL; its batch holds all rows of the model.
Collectable == Stale

Cleanup ==
  /\ Collectable # {}
  /\ \A c \in Collectable : ~RowLocked(c)
  /\ row' = [c \in Codes |-> IF c \in Collectable THEN DeletedRow ELSE row[c]]
  /\ UNCHANGED <<account, device, request, issued>>

(***************************************************************************)
(* What other services do.                                                 *)
(***************************************************************************)
GrantLock(u, p) == ~GrantLocked(u, p)

\* user: profile access is given, changed or taken away.
SetGrant(u, p, g) ==
  /\ u \in users /\ g # grant[u][p]
  /\ GrantLock(u, p)
  /\ grant' = [grant EXCEPT ![u][p] = g]
  /\ UNCHANGED <<household, row, users, admins, category, device, request, issued>>

\* user: a user becomes an administrator or is one no more.  Their sessions are
\* revoked as well; an approval under way may go on here, with the new role.
SetRole(u) ==
  /\ u \in users \cap Admins
  /\ ~UserLocked(u)
  /\ admins' = IF u \in admins THEN admins \ {u} ELSE admins \cup {u}
  /\ UNCHANGED <<household, row, users, grant, category, device, request, issued>>

\* profile, category: a profile moves to another category.
MoveProfile(p, k) ==
  /\ k # category[p]
  /\ ~ProfileLocked(p)
  /\ category' = [category EXCEPT ![p] = k]
  /\ UNCHANGED <<household, row, users, admins, grant, device, request, issued>>

\* user: the account goes, with its devices and the codes it approved.
DeleteUser(u) ==
  /\ u \in users
  /\ ~UserLocked(u)
  /\ \A c \in Codes : row[c].approver = u => ~RowLocked(c)
  /\ users' = users \ {u}
  /\ grant' = [grant EXCEPT ![u] = [p \in Profiles |-> "none"]]
  /\ row' = [c \in Codes |-> IF row[c].approver = u THEN DeletedRow ELSE row[c]]
  /\ devices' = [devices EXCEPT ![u] = 0]
  /\ linked' = {l \in linked : l[1] # u}
  /\ UNCHANGED <<household, admins, category, request, issued>>

\* category: a device is removed, and with it the link to it.
RemoveDevice(u) ==
  /\ \/ /\ devices[u] > 0
        /\ devices' = [devices EXCEPT ![u] = @ - 1]
        /\ UNCHANGED linked
     \/ /\ \E l \in linked : l[1] = u /\ linked' = linked \ {l}
        /\ UNCHANGED devices
  /\ UNCHANGED <<row, account, request, issued>>

Lower(n) == IF n = 0 THEN 0 ELSE n - 1

\* Time passes.
Tick ==
  /\ row' = [c \in Codes |-> [row[c] EXCEPT !.life = Lower(@), !.wait = Lower(@)]]
  /\ UNCHANGED <<account, device, request, issued>>

-----------------------------------------------------------------------------
Init ==
  /\ row = [c \in Codes |-> UnusedRow]
  /\ household \in Households
  /\ users = household.users
  /\ admins \in SUBSET (users \cap Admins)
  /\ grant \in [Users -> [Profiles -> {"none", "use", "manage"}]]
  /\ \A u \in Users \ users, p \in Profiles : grant[u][p] = "none"
  /\ category \in [Profiles -> household.categories]
  /\ devices = [u \in Users |-> 0]
  /\ linked = {}
  /\ request = [q \in Requests |-> Idle]
  /\ issued = [c \in Codes |-> 0]

Begin(q) ==
  \/ \E purpose \in Purposes, source \in household.sources, client \in Clients :
       AdmitCode(q, purpose, source, client)
  \/ InsertCode(q)

Approve(q) ==
  \/ \E c \in Codes, u \in Users, p \in Profiles, k \in household.categories : FindCode(q, c, u, p, k)
  \/ AuthorizeApprover(q)
  \/ ApproveCode(q)

Exchange(q) ==
  \/ \E c \in Codes : Discover(q, c) \/ ReadApproval(q, c)
  \/ LockOwner(q) \/ CheckCode(q) \/ IssueNative(q)
  \/ LockApproval(q) \/ CheckApproval(q) \/ IssueQuick(q)

Next ==
  \/ \E q \in Requests : Begin(q) \/ Approve(q) \/ Exchange(q) \/ Abandon(q)
  \/ Cleanup
  \/ \E u \in Users, p \in Profiles, g \in {"none", "use", "manage"} : SetGrant(u, p, g)
  \/ \E p \in Profiles, k \in household.categories : MoveProfile(p, k)
  \/ \E u \in Users : SetRole(u) \/ DeleteUser(u) \/ RemoveDevice(u)
  \/ Tick

Spec == Init /\ [][Next]_vars

-----------------------------------------------------------------------------
(***************************************************************************)
(* Properties.                                                             *)
(***************************************************************************)
\* However many exchanges of a code run at once, and however often one is
\* repeated, the code yields one session at most; and exchanges of several
\* codes for one approver never exceed the devices a user may have.
IssueLimits ==
  /\ \A c \in Codes : issued[c] <= 1
  /\ \A u \in Users : DeviceCount(u) <= MaxDevices

\* Whether u may approve a code for profile p, or NoProfile, and category k now.
HasAuthority(u, p, k) ==
  /\ u \in users
  /\ IF p = NoProfile
     THEN u \in admins \/ Managed(u, k) # {}
     ELSE /\ category[p] = k
          /\ grant[u][p] = "manage" \/ (u \in admins /\ grant[u][p] = "use")

\* A code is approved once, and only while the approver has authority over what
\* they approve, though that is checked before the code is locked; and a Quick
\* Connect session is issued only while its approver still has it and the code
\* is unexpired, however long ago it was approved and the exchange started.
AuthorityWhenUsed ==
  [][\A c \in Codes :
       /\ row'[c].approver \notin {row[c].approver, NoUser} =>
            /\ row[c].approver = NoUser
            /\ HasAuthority(row'[c].approver, row'[c].profile, row'[c].category)
       /\ issued'[c] > issued[c] /\ row[c].purpose = "quick" =>
            /\ HasAuthority(row[c].approver, row[c].profile, row[c].category)
            /\ row[c].life > 0]_vars

\* Concurrent begins keep the limit on outstanding codes, the limit of each
\* source, and the protected reserve: when n codes more than the general
\* capacity are outstanding, n sources have no more than the one code.
CodeLimits ==
  LET Of(s) == {c \in Outstanding : row[c].source = s} IN
    /\ Cardinality(Outstanding) <= Capacity
    /\ \A s \in Sources : Cardinality(Of(s)) <= SourceCapacity
    /\ Cardinality(Outstanding) - GeneralCapacity <=
         Cardinality({s \in Sources : Cardinality(Of(s)) = 1})

\* What is handed out stays within its limits from the code to the session, whatever begins and
\* exchanges count at the same time.
DeviceLimits == IssueLimits /\ CodeLimits

\* The delay a refused device is told is the right one: if nothing else
\* happens it is admitted when the delay is over, and at no earlier time.
RetryAfterExact ==
  \A source \in Sources, client \in Clients, purpose \in Purposes :
    LET active == Outstanding \ Replaced(purpose, client)
        Later(t) == {c \in active : row[c].life > t}
        Open(t) == Admitted(Cardinality(Later(t)),
                            Cardinality({c \in Later(t) : row[c].source = source}))
        delay == RetryAfter(active, {c \in active : row[c].source = source}) IN
      ~Open(0) => Open(delay) /\ \A t \in 0..(delay - 1) : ~Open(t)
=============================================================================
