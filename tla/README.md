# Rivune: verification project

TLA+ models of the stateful, concurrent parts of the Rivune server
(`server/internal`), the TLC runs that check them on small instances, and TLAPS
proofs about each of them for instances of any size. `PROJECT.json` maps every
definition to the lines it models, lists the runs, the mutated form that each
property detects, the hazards of the code and the theorems.

Rivune is a self-hosted media server written in Go. HTTP handlers call services;
the services keep their state in PostgreSQL, where each operation is one
transaction or a few, and a few caches and job tables in memory behind mutexes.
Several clients of one household use it at a time: they play, watch together,
control each other's players, sign devices in, and administer who may see what.
The interesting behaviour is what operations do to each other: transactions that
count before they insert, checks on rows another transaction is changing,
requests that are repeated or arrive late, grants that are withdrawn in the
middle, codes and leases that expire, encoders and background builds that
outlive the request that started them, deliveries to a provider that fail half
way.

## Inventory

| Component | State | Operations | What is hard | What makes it correct | Module |
|---|---|---|---|---|---|
| Shared rooms (`coordination/service.go`) | `playback_rooms`, `playback_room_members` | CreateRoom, JoinRoom, Room, UpdateRoom, LeaveRoom, Cleanup | count before insert; presence and room expire independently; late updates; access withdrawn | host limit, updates in version order, a dead room that nobody holds stays dead, a revoked room ends | `Rooms` |
| Device presence and commands (same file) | `playback_device_presence`, `playback_commands` | Heartbeat, SendCommand, IncomingCommands, CompleteCommand, OutgoingCommand, Cleanup | copies of one request race; target moves on; results race with expiry | one command per operation id, pending limit, a result once observed is final | `Commands` |
| Preparation cache (`playback/preparation_cache.go`) | entries, calls in flight, hand-offs, generation | preparedPlayback, complete, evict, evictRevision, clear, mark/consumeResolveHandoff | build finishes after its key was invalidated; waiters; limit with displacement | nothing stale stored or served, one build per key, waiters woken | `PreparationCache` |
| Device authorization, Quick Connect (`auth/device_authorization.go`) | `device_authorizations`, devices, linked Jellyfin devices | Begin..., ApproveDeviceAuthorization, both exchanges, Cleanup | unlocked read first, lock order, expiry and loss of authority in between | one session per code, authority when it counts, limits, exact retry delay | `DeviceAuthorization` |
| Authentication sessions (`auth/service.go`, `linked_session.go`, `jellyfin/store.go`) | `auth_sessions`, refresh tokens, `jellyfin_compat_sessions` | sign-in, refresh, Authenticate, logout, revocations, profile selection, compatibility credentials | token reuse around a grace period; unlocked read then clear; share lock then update; callers that share one authentication | one working refresh token, lifetimes nested, work under the selection it began with, no caller cancelled by another | `AuthSessions` |
| HLS jobs (`playback/hls.go`) | jobs, bindings, encoders, workspaces, storage limit | start, adopt, seek, playlist, prewarm, detach, reclaim, change of limit | lock released around waits and reclaims; exit races with reuse and removal | no response loses its workspace, no binding to a stopping job, no leak, storage attended | `HLSJobs` |
| Categories, profiles, users, assignments (`category`, `profile`, `user`, `addon`, `collection`) | their tables and the assignment tables | create, change, move, delete, install, assign, import | READ COMMITTED checks across tables; locks chosen from an unlocked read | limits and uniqueness over assignments and moves, an administrator remains, roles current | `Household` |
| Tracking outbox (`tracking/service.go`) | accounts, heads, outbox rows with leases | connect, disconnect, preferences, enqueue, claim, deliver, complete, retry | crash, lost answer, lease expiry, superseding, capacity | newest intent delivered, in order, bounded | `TrackingOutbox`, `IntentFeed` |
| Watch state (`watchstate/service.go`) | progress, library, favourites, dismissals | progress writes, marks, batches, library, dismissal | optimistic versions, events in the transaction of the change, seeding | the provider mirrors the profile | `WatchState` |
| Probe cache (`playback/probe_cache.go`) | results, probes in flight | probe, clear | as the preparation cache, but `clear` keeps the probes in flight | single flight, bounded | planned |
| Source references, playback sessions (`playback/source_store.go`, `service.go`, `failover.go`) | references with pins, `playback_sessions` | put, pin, resolve, open, close, reset | pins against eviction and withdrawal; opening fails half way | references held exactly while used, every delivery closed | `SourceReferences`, `PlaySessions` (partly) |
| Play-session registry (`jellyfin/registry.go`, `playback.go`) | play sessions, owned deliveries, pending cleanups | playback info, open, events, encoding stop, logout | rebinding while deliveries open; revocation; retried cleanup; change of generation | every delivery has one owner, bindings and deliveries agree, nothing outlives a logout | `PlaySessions` |
| Operations scheduler (`operations`, `httpapi/maintenance.go`) | task rows with lease and token | RunScheduled, finish, cancel | two servers, lost lease | one runner per task | planned |
| Media notifications, reading queue, add-on verification | their tables | scheduling, ordering, background checks | concurrent edits | at most once, dense order | not modelled |
| Metadata, artwork, catalogue, search, settings, HTTP API, Jellyfin translation, web UI | caches and rows written once | fetching, ranking, translating, encoding | — | — | out of scope, see the end |

Components interact through the database and by direct calls. Administration
(`Household`) changes rows that other operations hold `FOR SHARE` and ends
sessions and selections (`AuthSessions`); profile selection decides what a
session may do in rooms and commands; an approved device authorization creates a
session; auth's cleanup deletes sessions and cascades into rooms, members,
presence and commands; `RunMaintenance` (`httpapi/maintenance.go`) runs the
cleanups from a ticker; a playback that starts goes through the preparation cache
and then to an HLS job; a Jellyfin client's playback goes through the registry of
play sessions, which pins references in the store and opens and closes playback
sessions, and which `AuthSessions`' revocation of a login reaches from outside
(`PlaySessions` extends `SourceReferences`); a change of the watch state queues tracking events in
its own transaction, which is why `WatchState` extends `TrackingOutbox` and the
two are checked as one system.

## Modules

| Module | Models |
|---|---|
| `Rooms` | rooms |
| `Commands` | presence and remote commands |
| `PreparationCache` | the preparation cache |
| `DeviceAuthorization` | device codes of both protocols |
| `AuthSessions` | native and compatibility sessions, tokens, selections |
| `HLSJobs` | the registry of HLS generations |
| `Household` | categories, profiles, users, add-ons and collections as transactions |
| `IntentFeed` | what the tracking outbox promises (abstract) |
| `TrackingOutbox` | connection, outbox and worker |
| `WatchState` | the watch state over the outbox; refines `IntentFeed` |
| `SourceReferences` | the store of source references |
| `PlaySessions` | play sessions, their deliveries and clean-up, over the store |
| `MC...` | instances for TLC: model values, sets of calls, symmetry |
| `...Proofs` | theorems about the module they are named after, with their lemmas; `RoomsAndCacheProofs` is about `Rooms` and `PreparationCache` |

Conventions. A definition has the source's name where there is one. An
operation is one action where it is one transaction whose first statement locks
the rows it goes on to use; it is several actions where it reads before it
locks, or counts before it inserts, because that is where others get in
between. Locks of PostgreSQL appear as guards ("nobody else is in a step that
holds it"), mutexes as the extent of a step. A transaction that ends with an
error changes nothing, and is left out where it leaves no trace (`Abandon...`
and `Rollback` release the locks of one that had some). Timestamps are kept as
ages or as time left, so that states stay finite and `Tick` is the only thing
that moves them; there is one clock. A random id is drawn once. A definition
introduced by "Slip" is the form a plausible mistake would give to the
definition after it; `PROJECT.json` says which property finds it. Variables and
fields marked "history" exist for the properties only. Constants called
`Plans`, `Workloads` or `Households` are sets from which `Init` chooses: which
calls are made, or what the database holds to begin with. One run then covers
several small situations instead of one large one.

### Rooms

`room` and `member` are the two tables, `profile` the active profile of each
session (no profile stands for logged out, revoked or no usable selection),
`access` whether a profile may see the title (`canonicalItemTx`), `creating` the
CreateRoom transactions between count and insert, `holder` who has the lock of a
room's row. JoinRoom, Room, UpdateRoom and LeaveRoom are one transaction each and
two steps: `LockRoom` finds the room live and locks it (`lockLiveRoom`), and
later the operation checks access, writes and commits, or `AbandonRequest` ends
it. Between the two `canonicalItemTx` may wait for the row of the title, so time
passes there, and each statement reads the clock anew: a room that was live when
it was locked can have expired when it is renewed. `revived` (history) marks such
rooms. CreateRoom is `CountRooms`, then `InsertRoom` or `AbandonCreate`, under the
advisory lock on the session. A repeated or delayed UpdateRoom is any
`expected` version. `Cleanup` deletes every dead room and waits while one of them
is held. Profile selection, deletion of profiles and sessions with their cascades,
and withdrawal of access are the environment, each kept out by the row locks that
transactions hold. The content of the playback state, the room code and the
answer's layout are left out.

### Commands

`presence` and `command` are the tables; `sending` holds the SendCommand
transactions in progress. SendCommand is `ReplayCommand` (operation found), or
`LookUpCommand`, `LockTarget` (the presence row `FOR UPDATE`, the checks, the
count) and `StoreCommand` (insert, or the replay check when another copy won).
The item of a `load` command is canonicalised from `item`, which a metadata
refresh changes. `CompleteCommand` decides on the expiry and writes every row
with the operation id and target, as the UPDATE does. IncomingCommands reads
only and has no action. Commands other than `load` behave like `pause`.
`accepted` and `observed` record what callers were told.

### PreparationCache

Every step is one critical section of `cache.mu`. A caller hits, joins or starts
a call (`preparedPlayback`), waits, gives up or receives; the goroutine of a call
ends with `Complete`. What a build returns is reduced to `born`: how many
invalidations of its key preceded its start. `Evict` takes any set of keys and so
covers `evict` and `evictRevision`. The time an entry lives is any value up to
`EntryTTL`, as the source reference dictates. The order in which equal expiries
are displaced is arbitrary, where the code compares keys. `CacheInit`,
`CacheNext`, `CacheSpec` and `CacheTypeOK` have their prefix so that one module of
theorems can extend `Rooms` as well.

### DeviceAuthorization

`row` is `device_authorizations`, `request` the calls in progress with the stage
they have reached; stages are where a call reads without a lock or may have to
wait. A begin is `AdmitCode` (advisory lock, deletion of stale codes and of the
installation's earlier code, count) and `InsertCode`. An approval is `FindCode`
(unlocked), `AuthorizeApprover` (user, profile and grant locked) and
`ApproveCode`. A native exchange is `Discover` (unlocked), `LockOwner`,
`CheckCode`, `IssueNative`; a Quick Connect exchange is `ReadApproval`
(unlocked), `LockApproval`, `CheckApproval`, `IssueQuick`. Grants, changes of
role (`SetRole`), profile moves, device removals and deletion of users are the
environment, each excluded by the row locks the calls hold. `RetryAfter` is `deviceAuthorizationCapacityRetryAfter`
over times left. Not modelled: a profile's schedule (`ProfileAccessibleAt`), the
platform check, and the kind of client device.

### AuthSessions

`session` and `token` are `auth_sessions` and its refresh tokens, numbered as
they are drawn; `compat` the Jellyfin compatibility sessions; `assigned` and
`open` what the user's profiles are granted and when. `context` is
`profile_context_id`, which tells two selections of one profile apart. Refresh is
one transaction (`Rotate` or `RefreshRevokes`): the next token is current before
the old one is consumed, and a consumed one is reused with effect only after the
grace period. `Authenticate` is an unlocked read (`AuthRead`) and then, in a
transaction of its own, a revocation, a clearing of the selection or the work of
the request, which revalidates the selection under locks
(`LockActiveProfileSelection`). A compatibility token takes four statements or
transactions: the row (`CompatRead`), the native session `FOR SHARE`
(`ReloadLinked`), its update (`UpdateLinked`, which must wait for other shares), and
the touch or the removal of the credential. Callers with the same token or session
id share one such authentication (`authenticationFlights`): the first starts it
(`CompatRead`), others join it (`JoinFlight`), each may leave (`LeaveFlight`), and
the last one to leave cancels it, after which it may still run beside a new one.
`FailFlight` is an authentication that ends with an error that says nothing of the
credential: cancelled, past `compatAuthenticationOperationTimeout`, or failed by
the database, which also ends one of two that wait for each other's share. The trigger
`auth_sessions_revoke_jellyfin_compat` is `CompatsRevoked`. What `profile`,
`category` and `user` do to sessions is here, what they do to their own rows in
`Household`.

### HLSJobs

A step is one critical section of `hlsMu`. `hlsJobs` binds keys (session and
start) to generations; `job` carries what a generation has written (nothing, the
join window, beyond it), its encoder, its requests and preparations, and how far
its stop has come. Calls go through the gate of the session, selection of a
generation, `hlsJob` (stop the other generations, find or share, wait for
storage, look again and publish), retention, and the response. `storage` is the
holder of `hlsStorageMu` with the reclaim it performs, `read` the limits that were
read before that lock was taken, as the monitor and the end of a response do,
`reset` the writer of `hlsResetMu`. A call that publishes a job keeps the lock of storage after
its reclaim (`Admitted`) and compares the size with the limit once more
(`PublishJob`). An encoder that was cancelled may write on until its workspace is removed.
A start that found no capacity takes its own generation down, then the prewarmed
ones, and is tried again (`RetryStart`, `EvictPrewarmed`, `StopPrewarmed`). Bytes are two units per finished encoder. Segments inside a
generation are abstracted to "may hold it"; the order of last access is left
open; `waitForMediaFile` is a wait for the first unit. The two calls of an
instance are chosen by `Plans`.

### Household

The database is a function from rows to values. A transaction is
`New -> held -> done`: it takes its locks, evaluates its checks on what is
committed and on its own writes, and `Commit` publishes the writes; conflicting
locks keep two of them apart, and whatever no lock excludes may commit in
between. Table locks in SHARE ROW EXCLUSIVE are exclusive locks of the table,
and writers take a share of it. The add-on and the collection service lock a
profile in key spaces of their own (`AddonLock`, `CollectionLock`). Each call has an
actor, the administrator by whose role it goes, or nobody for one who manages a
profile (`UpdateProfile`, `DeleteProfile`, `CreateProfile` with `None`). Some calls
read the role again under a lock; making a category or the default one, everything
about users, and the schedule and the deletion of a profile go by the role the
request began with, and `ActorIsAdministrator` says which is which. Add-on changes read first which categories to
lock and compare again when they have them (`Unchanged`); a new transport is
fetched between two transactions (`AuthorizeTransport`, `FetchedManifest`).
Deletions cascade into assignments and then delete what nobody has any more
(`Orphans`). A refused call changes nothing and is not a step.

### TrackingOutbox, WatchState, IntentFeed

`db` is the outbox: heads (the newest event of each title and type), rows, and
the clock that orders both. All transactions on the outbox take one advisory lock
before they read, so each is one step; the changes of a title that queue events
take its lock first, so a change and its events are one step of `WatchState`
(`DismissContinue` is one statement and takes none). The worker is
the one goroutine the process starts (`main.go`), with its steps between
transactions apart: `Claim`, `CheckLatest`, `AccessToken`, `Send`, then
`Complete` or `Retry`. `remote` is the last event of each title and type that the
provider applied, `held` what its history and its list hold of the title in
consequence: `RemovedWith` says what a removal takes along. Trakt removes what it
is told to; Simkl is told of both removals by `/sync/history/remove`
(`tracking/client.go:298`), so that a movie leaves both. Faults are a failed
request, a request whose answer is lost after the provider applied it, a refused
poll, and a crash that leaves the lease behind; `RowTimer` ends leases and
retry delays.

`IntentFeed` states the promise: per title and type a newest intent (`due`) and the
newest one the provider has seen (`seen`), all in one order of admission. An intent
is withdrawn by a newer one of its type, by a newer one of a type that overrides it
(`Overrides`: watched and progress both say whether a title was watched), or by a
change of subscription. A delivery is never older than anything the provider has
seen of the title, of whatever type, and leaves nothing older of the title due; and
each type catches up for ever. The refinement maps `subscription` to the connection,
the chosen types and whether an authorization of a gone connection is still being
delivered; `due` to the newest row of the title and type that is still current, or
what was seen; `seen` to the newest event of them the provider applied. A row that
the worker is about to delete does not count as due (`Completing`). Between the
worker's check, or its delivery, and `Complete`, a newer event of another type may be
queued and lifted again, so that the row is current once more when it is deleted;
whoever wrote those events has overtaken it all the same. Without the exception the
mapping is wrong from three changes on (the proof found the case, TLC its shortest
run).

`Mirrored` compares the two sides. With nothing queued a title is in the provider's
list and history when it is here, and, as far as the code tells the provider, not
there when it is not here: out of the history after SetWatched took it back, out of
the list in the first connection with unchanged preferences, since a seeding tells
of what is in the library and not of what has left it. What was taken along with
something else is excepted, because nothing queues it again.

### SourceReferences, PlaySessions

`refs` is the store of `source_store.go`: references in the order they were drawn,
with their pins; a step is one critical section of its mutex. `play` and
`entries` are the registry (`entries` gives each play session its place among
those in the map, the least recently seen being first), `row` the playback sessions, `cleanup` the closes the
registry owes, with `owned` and `reserved`, which bound them. A request of a
client is a `call` that goes from one critical section of `registry.mu` to the
next: playback info fetches or reuses options, pins, registers and prefers; a
stream looks its binding up and, if it has no delivery for the revision it has,
resolves a candidate, opens a playback session (`CreateSession`, `StartSession`;
`Admits` is the three limits, per login, per profile and of all),
binds and installs it, looking again at each lock; progress and Stopped events
claim the lease of the play session, look again, write and end it. Whatever a
step removes from the registry stays with the call (`stale`, `unpin`, `drop`,
`old`), which detaches, releases and closes it in the steps `Detach`, `Release`,
`Close` and `Finish` before it goes on. Closes are queued, claimed by workers and
retried (`CloseDelivery`, `RetryDue`; `Lapse` gives up those past their deadline,
claimed or not). A commit of fetched options that fails leaves the references it
stored without pins and may have evicted others (`FetchOptions`). Logout revokes the login and then
removes what it finds; a change of configuration retires the registry and drains
it; an administrator's reset empties the rows and later the store. Stable
identities of streams are `Keys`, what a client can play is one of
`Capabilities`, the preferences of audio and subtitles are a number. `Programs`
gives the two clients their requests and says what else may happen: other
offers, a provider that fails or withdraws a stream, failing closes, expiry.

Left out: how device profiles become capabilities, stream credentials and their
authorization, pings, static and download streams, the retry of an opening
without subtitles, how long a revocation is remembered, and the wait of a caller
for closes. `closeCompatibilitySessions` does to a session what `closeSession`
does; closing an encoding drops deliveries as a Stopped event does. A cancelled
opening and a cleanup slot that is not free are among the failures any opening
and close may have.

## Runs

| Run | States | Shows |
| --- | ---: | --- |
| `rooms` | 320,766 | two sessions of a host and a guest create, lock, join, update and delete rooms while time, access withdrawal and the cleanup interleave, between check and renewal too: `TypeOK`, `HostLimit` (creations in progress included, rooms renewed after they expired left out), `UpdatesInVersionOrder`, `DeadStaysDead`, `RevokedRoomsEnd` |
| `commands` | 230,996 | senders and targets across disconnection, lost answers and clean-up: `TypeOK`, `SendsSerialised`, `ObservedResultStable` |
| `commands_send_retry` | violation | finding 1: a retry after the catalogue changed is refused |
| `preparation` | 159,194 | callers, builds, clears and hand-offs of the preparation cache: `CacheTypeOK`, `CacheCoherent`, `OneBuildPerKey`, `WaitersAnswered` |
| `device` | 442,046 | two issuers and two approvers or pollers at a time, in three households: `TypeOK`, `DeviceLimits`, `RetryAfterExact`, `AuthorityWhenUsed` |
| `auth_sessions` | 724,642 | rotation with its grace period, selections, revocation, Authenticate's lock-free reads and authentications that callers share and leave: `TypeOK`, `OneWorkingToken`, `LifetimesNested`, `WorkUnderItsSelection`, `FlightsShared` |
| `hls_jobs` | 2,484,835 | calls that start, adopt, share, move and stop encoders under a changing limit: `TypeOK`, `BoundNotStopped`, `OneShareable`, `WorkspaceLifetime`, `OverLimitAttended` |
| `household` | 174,972 | triples of profile, category, collection and user services, lock by lock: `TypeOK`, `AssignmentLimits`, `AdministratorRemains`, `ActorIsAdministrator` |
| `household_unrestricted` | violation | finding 2: a category loses its last unrestricted profile |
| `watch_state` | 386,633 | one title whose removal from list or history takes the other along, every fault, a crash and a reconnection: `TypeOK`, `OutboxBounded`, `Mirrored`, and `ImplementsFeed`, the refinement of `IntentFeed` with its liveness |
| `watch_dismissal` | violation | finding 3: a dismissed episode stays dismissed after it is watched again |
| `play_sessions` | 197,082 | Jellyfin clients in fifteen mixes: `TypeOK`, `PinsExact`, `DeliveriesOwned`, `CurrentDelivery`, `StopIsFinal`, `RevokedSettles` |

Properties that combine several limits or several sides of one agreement
(`DeviceLimits`, `AssignmentLimits`, `SendsSerialised`, `CacheCoherent`,
`WorkspaceLifetime`) are conjunctions of named parts.

Why the bounds are enough for what is asked. Every limit (rooms, pending
commands, cache entries, codes, devices, collections, outbox rows, storage) is set one
below the number of competitors, so that both the last admission and the refusal
happen. Two concurrent transactions suffice for each check-then-act pair, since
each pair involves one lock; `household` has three, so that a lock may be
released by one and be wanted by two. Times-to-live are the smallest with which
"fresh", "about to expire" and "expired" differ, and with which the two clocks
that a property relates (room and presence, entry and hand-off, token age and
grace, session and credential) run out in either order. Bounds the program does
not have: `MaxVersion` (Rooms), `MaxRevision` (Commands), `MaxClears`
(PreparationCache), `MaxTokens`, `MaxSelections` and `MaxWaiters` (AuthSessions), `MaxChanges`,
`MaxFaults` and `MaxWrites` (tracking), `MaxRefs`,
`MaxPlays` and `MaxRows` (play sessions); each leaves a step of the counter
beyond the point where two actors meet. `watch_state` has one title, since heads,
rows and the provider's copy of two titles share only the capacity, which one
title with its three types fills; `watch_dismissal` needs an episode beside a
movie. `hls_jobs` makes two calls after one of five plans (a prewarmed generation
adopted or shared while the limit falls, or rises, two prewarms, a session that changes
its start, a seek beside a playlist); `household` runs six mixes of services over
four households. Ids are never used again after deletion, except operation ids,
which a client may send again. `device` runs three households: one code that
a member and an administrator both want, two codes of a member whose profile moves
meanwhile, and five codes from three sources; symmetry is used there only, over the
requests, since the run checks safety alone and no definition singles out a
request. `play_sessions` runs fifteen mixes, most of two clients, one for each pair of
operations that meet in the registry: renegotiation of one play session, a seek
and a renegotiation during one opening, streams without an identity, failover to
another candidate, a stream withdrawn while it is opened, progress against
Stopped, a source retired under an event, logout, a change of generation with and
without an end of its retries, a reset, idling, eviction, and the limits of play sessions and
of playback sessions, the latter per login, per profile and of all.
`MaxChanges` is 2 where the code allows 4 changes of a binding during one opening,
so that the retry and the refusal both happen.

Deadlock is checked except in `auth_sessions`, `hls_jobs`, `household`,
`play_sessions` and the watch runs, where a bounded number of ids, calls or changes
is used up and the system rightly rests.

### Fairness

* `Tick` (Rooms): time passes.
* `Cleanup` (Rooms): `RunMaintenance` fires from a ticker for as
  long as the server runs.
* `AbandonCreate` or `AbandonRequest` (Rooms), one weak fairness for both:
  transactions that hold locks end; request contexts and the connection bound their
  life. `AuthSessions` assumes no fairness.
* `EndCall`, `Collect`, `Receive` (PreparationCache): a build has a context with a
  timeout (`playbackPreparationTimeout`), and a goroutine woken by a closed
  channel runs.
* `WorkerStep`, `RowTimer` (WatchState): the worker is called every few seconds and
  its requests have timeouts; leases end and attempts come due with time.
* `Progress` (PlaySessions): requests that have begun, clean-up workers, their
  retry timers and the registry's goroutine. Their work is finite once no more
  requests begin, so that one weak fairness for all of them suffices.

Nothing is assumed of clients, devices, approvers or administrators.
`RevokedRoomsEnd` has the withdrawal as its premise; the number of faults in
`watch_state` is bounded, as any promise of delivery supposes.

## Proofs

Each `...Proofs` module extends what it is about. Its theorems hold for all
values of the constants that satisfy the module's assumption: any sets of
sessions, codes, jobs or titles, any limits, any of the bounds. The assumptions
say that limits are numbers and that "nobody" values are no members; that sets
whose members are counted are finite; and that what `Init` chooses from
(`Plans`, `Workloads`, `Households`, `Programs`) is made of those sets. Three of
them say more. `CommandsAssumption` gives an operation id to one sender, since
the rows are unique per sender. `HouseholdsAssumption` requires a sound database
to begin with: the setup creates the first category, profile and administrator
in one transaction (`instance/service.go:312`). `PlaySessionsAssumption` bounds
the options of one play session by two, the number of media sources the model
gives it.

Each proof has one lemma per operation, and row lemmas beneath them that keep
record reasoning out of the steps. What a property needs beyond itself:

**`RoomsAndCacheProofs`.** `RoomsTypeCorrect`: `TypeOK` is inductive.
`RoomsDeadStayDead` follows from it action by action: a dead room can be locked by
nobody (`lockLiveRoom`), what is not locked is not renewed, deletions only remove
rows, time only makes members older. `RoomsHostLimit`: the limit on rooms alone is not inductive, because a
transaction that has counted inserts without counting again. `HostLimit` counts
the creation in progress with the rooms; the advisory lock keeps it to one, and
`InsertRoom` gives it up for the room it adds; a renewal adds no room but one that had
expired, which is marked. `RoomsUpdatesInVersionOrder` needs
that nothing was applied to a room that does not exist yet.

Of the cache: `PreparationTypeCorrect`, with a bound on invalidations by way of
the clears. `CacheInv` adds to `CacheCoherent` what the
calls owe: the call registered for a key is running, born since the key's last
invalidation, and the key has no entry (`InFlightCurrent`); a running call that is
current is the registered one (`RunningKnown`); the call a caller waits for was
born no earlier than the caller may accept (`WaitersCurrent`). `CacheCoherent`
and `OneBuildPerKey` (`PreparationOneBuildPerKey`) follow.

**`CommandsProofs`.** `CommandsTypeCorrect`; `CommandsSendsSerialised` from
`StoredInv` (every row and every send comes from the workload) and `LimitInv`: of
the sends past `LockTarget` at most one is for a target (`LocksExclusive`), and
what it counted still leaves room for its command (`LockedHasPlace`), because
time, reports and clean-up only reduce what is pending.
`CommandsObservedStable` needs that operation ids are unique among the rows.

**`AuthSessionsProofs`.** `AuthTypeCorrect` needs that rows in use name rows that
exist (`RowsNamed`). Most of the thirty operations make nothing new; `Quiet` says
so once (sessions only end, compatibility sessions that stay are as they were and
keep their session, a captured selection is told when it ends), each operation is
shown quiet, and the invariants are preserved by whatever is quiet.
`AuthLifetimesNested`; `AuthWorkUnderItsSelection`, an action property, from
`SelectionInv`: the numbers of selections only grow, and a captured selection that
has gone stale differs in number from the present one or has no live session, which
is what `LockActiveProfileSelection` compares. `AuthOneWorkingToken` from
`TokenInv`, over the four operations that write refresh tokens. `AuthFlightsShared`
needs of the requests that their flights go on unchanged (`FlightsGoOn`), which every
operation but the starting, joining, leaving and ending of one is shown to give.

**`DeviceAuthorizationProofs`.** `DeviceTypeCorrect`, with the constraints of the
table. `DeviceLimitsKept` from three invariants, one per limit: `CodeInv`
(whoever has locked a code is the only one and finds it open, no begin is about
to delete it), `SlotInv` (who has locked an account is the only one and still has
the place it counted), `RoomInv` (a begin that was admitted still finds room for
the codes it does not delete: the protected reserve compares codes with sources
that have a single one, which is why the lemmas on fewer codes are needed).
`DeviceAuthorityWhenUsed`, an action property, from `AuthorityInv`: the locks of
an approval and of a Quick Connect exchange hold what they checked until they
commit. `DeviceRetryAfterExact` needs no more of a state than its types. `Expiry`
says that the n-th expiry of a set of codes is the moment from which fewer than
the others are left; so each of the three limits is free from one moment on, the
one the code computes for it (`LimitFree`, `ReserveFree`), and all three from the
last of those (`LastOfFirst`). A general capacity of zero, which a reserve of
everything or a capacity of one gives, is a case of its own: there the reserve is
free only when the source has no code left.

**`HouseholdProofs`.** `HouseholdInv` says that the committed database is sound,
that the locks of transactions that hold some do not conflict, and that the
commit of any of them would leave the database sound (`HeldGood`). The last has
to survive the commit of every other one, so `Good` also says what a transaction
keeps others from changing: the rows at both ends of an assignment it adds, the
category it sends a profile to, everyone who could show the same profile another
add-on or collection. Two that add to what one profile sees have conflicting
locks; if only one adds, the other can only take away. Of its actor a transaction keeps that
he is an administrator and his row is locked (`Rightful`), or else that nothing it
writes is reserved for one, however the database changes meanwhile (`Harmless`).
`HouseholdTypeCorrect`
(types and foreign keys), `HouseholdLimits`, `HouseholdAdministratorRemains` and
`HouseholdActorIsAdministrator` follow. `Household` defines the overriding of one
database by another (`@@`) itself, since the provers know the standard one by
name only.

**`HLSJobsProofs`.** The counters of a job are integers that the code raises and
lowers; that they equal the number of calls on the job (`Counted`) is part of the
inductive invariant, and gives `HLSTypeCorrect`. `RowsSound` relates a job to
whether a key leads to it: a bound job is not being taken down
(`HLSBoundNotStopped`), an unbound one has somebody who will take it down, and a
job that is gone has no requests (`HLSWorkspaceLifetime`). `ShareableOnce`
(`HLSOneShareable`) needs in addition that no step makes a job joinable again.
`HLSOverLimitAttended` needs of a reclaim what it aims at. One that begins in a call
that publishes aims at the limit in force, which the call keeps from changing; one
of the monitor or at the end of a response read its limit earlier and may aim too
high (`ReadSound`). A lower limit is published only when a reclaim to it has succeeded,
under the lock of storage (`StorageSound`), and the property counts only reclaims
that aim no higher than the limit of today (`ReclaimsToLimit`).

**`WatchStateProofs`.** `WatchInv` holds of the outbox that ids are unique, that a
row without a lease is current and the only one of its title and type, that it is
no younger than its head; of the worker, that the row it took is the oldest of its
title, that nobody but a deletion has touched it, and that the provider has seen
nothing newer of the title until it is sent (`WorkSound`); of the provider's copy,
that no row is older than what it has seen. The lemma `EnqueueKeeps` states what
admission may do to the rows there are (`Extends`): leased rows stay, a row that
was current stays or gives way to a newer current one of its title, and a new row
has an id nobody else has. Everything that queues events, a change, a connection
or preferences, is a chain of those. This gives `WatchTypeCorrect`,
`WatchOutboxBounded` and the refinement: `WatchImplementsFeed` proves
`Feed!Init /\ [][Feed!Next]_(Feed!feedVars)`, each operation being an admission
(nothing that was due is lost but to what overrides it, `NothingLost`), a delivery in
the order of the title (`MoreSeen`), or a change of subscription (`Resubscribed`).
`WatchMirrored` needs more than what is queued: `HeldInv` says what the provider holds
of a title by the events it has applied last, and `MirrorInv` says of every title that
the newest event of each kind says what the profile says now (`ToldInv`), and that
the provider has it (`Received`) or a row of it is queued that the worker is not about
to delete unsent (`Queued`, `Kept`). The row of the newest event is current, because the
rows of a title differ in their time and a row as new as its head has the head's key
(`RowsTrue`); neither the worker's row nor the provider's copy is newer than the
head or says otherwise than the event it stands for (`WorkTrue`, `RemoteTrue`). Each
change tells of what it changes, a seeding of everything there is to tell
(`SeedTold`), and each step of the worker carries every newest event on.

**`PlaySessionsProofs`.** Counters and sets that the code keeps by hand have to be
related to who relies on what, across requests that have left every lock. The
inductive invariant has parts that build on each other. `CoreInv` is `TypeInv`,
which says for each stage of a request which of its fields are in use;
`EntryInv` (a play session that somebody knows has been registered, and is pinned
as long as it is listed); `EventInv` (the lease belongs to one event, and a binding
whose Stopped event was stored is not bound to anything any more, or that very
event is about to end it); and `OwnerInv` (two that could close a delivery are
one). With `StoppedTyped`, on the Stopped events that were stored, it
gives `PlayTypeCorrect`, and `StopFinal`. Each of the more than thirty
actions is then shown to be `Calm` (no delivery, no reference and no capacity
changes hands) or one of the fourteen `Moves` of a request, and what remains is
proved once for what is calm and once for each move. `DeliveryCurrent` needs
`DeliveryInv`: an opening whose revision is still that of the play session asks for
what the play session now has, and what it opened was opened for that; revisions
only grow. `DeliveriesHaveOwners` needs `BudgetInv`: reservations are counted by the
openings that have not bound a delivery yet, and whatever is known to the registry is
among `owned`. `PinsAreExact` needs `PinInv`: a reference has at most one request
that fetched it and at most one other holder (`OneClaim`), and its pins are the number of
the two (`Counted`). The pinning of options, their registration and the transfer of
a rebound play session's references are where both change at once.

What stays with TLC. Liveness: `RevokedRoomsEnd`, `WaitersAnswered`,
`RevokedSettles` and the feed's `CatchesUp`, since the prover
knows no fairness. Of `ImplementsFeed` the safety part is proved and the liveness
checked. Every other property of a passing run is proved.

## Findings

1. `commands_send_retry`. SendCommand stores a `load` command with the item as the
   catalogue describes it at that moment, and compares a retry, canonicalised
   again, with what it stored. After a metadata refresh the retry of an accepted
   command is answered as a conflict, where `docs/operations.md:49` promises
   idempotent retries.
2. `household_unrestricted`. `profile.Update` and `profile.Delete` keep one enabled
   profile without a schedule in every category (`profile/service.go:26`;
   `profile/service_postgres_test.go:130` expects it of a move). `MoveProfiles`
   and `Delete` with a destination, in the category service, move profiles without
   that check.
3. `watch_dismissal`. A dismissal of an episode is stored under its series and
   lasts "until new watch activity restores it" (`protocol/openapi.yaml:5681`).
   `SetWatchedBatch` deletes only dismissals stored under the batch's own titles.

Observations, kept in the models as the code has them, without a run:

* A join or an update that found the room live can renew it after it has expired:
  `canonicalItemTx` may wait in between, `expires_at` is written without a condition,
  and the maintenance deletes nothing that is locked (`coordination/service.go:549`
  and `:582`, `:651` and `:681`). The expired room was not counted meanwhile, so its
  host can come to have one room more than `maximumRoomsPerSession`. A poll renews a
  host that was silent for too long in the same way.
* Making a category or the default one, creating, changing and deleting users, and
  the schedule and the deletion of a profile go by the role the request began with; a
  demotion that commits meanwhile does not stop them.
* With Simkl a movie removed from the library loses its history there, and one set
  unwatched leaves the list there (`tracking/client.go:298`); nothing is queued that
  would restore it.
* Operation ids are unique per sender, but CompleteCommand addresses rows by id
  and target, so a shared id lets one command's result overwrite another's.
* A repeated CompleteCommand after the two minutes is a conflict, where
  `protocol/openapi.yaml:4403` calls the operation idempotent.
* A category and a profile deleted side by side, each the last but one holder of a
  resource, leave it without any (`Household` reaches the state).
* `Authenticate` clears a selection by session and profile; a fresh selection of the
  same profile made since its read goes too.
* `probe_cache.clear` keeps the probes in flight: a caller after the clear may join
  one begun before it.
* A delivery checked before a disconnect reads the tokens of the account connected
  since, and sends it an event of the past.
* A connection queues the channels of the library for the provider
  (`seedProfileState`), although adding or removing one queues nothing
  (`watchstate/service.go:1403`, `:1456`); `Mirrored` leaves channels out.
* `deleteCreatedSession` runs under the request's context: when that is what
  failed, the row stays until the idle cleanup.
* A request in flight when the registry is retired may still register a play
  session after `closeAll`; nobody looks at it again, and its pins last until the
  references are withdrawn.
* A Stopped event whose media source was retired by a concurrent renegotiation does
  not end the play session, which is why `StopIsFinal` speaks of a binding.
* The check for a revoked session in `register` is a second defence: an opening that
  got past it would be refused when its playback session is created, and the
  registration dropped then.

## Plan

1. Done: `Rooms` with proofs, `Commands`, `PreparationCache`,
   `DeviceAuthorization`, `AuthSessions`, `HLSJobs`, `Household`,
   `TrackingOutbox` with `WatchState` and the refinement of `IntentFeed`,
   `SourceReferences` with `PlaySessions`.
2. Done: the proofs of the section above.
3. Modules that remain: the native `Prepare` and failover of a running stream over
   `SourceReferences`; `Lease`, the abstract claim/renew/finish protocol,
   for the operations scheduler; the reading queue; the probe cache.

## Not modelled, and why

The models stand for about a tenth of the server's lines: those that keep
state others can change. The rest is mostly data transformation and I/O.
Catalogue, metadata, artwork, discovery and calendar fetch, rank, cache and
present what providers send; the Jellyfin layer and the HTTP API translate
requests and answers; parsing, cryptography, configuration, ffmpeg's arguments
and the web client have no shared state of their own. What they ask of the
database is one statement, or a transaction of rows nobody else writes.

Inside the modelled components: PostgreSQL's snapshots inside one statement (the
subquery of Cleanup's DELETE is evaluated on a snapshot that a concurrent poll
may outdate); clock skew between servers; failures of the database, which abort a
transaction and so change nothing; batch sizes of cleanups, which exceed the rows
of the model; two server processes delivering from one outbox, a request
applied by the provider after it timed out, and a refresh of tokens that
overwrites those of a reconnection; titles without a mapping at the provider;
what Simkl does to the history of a title that is added to a list; a seeding that meets a
change half way, which the lock of the profile's user data excludes (an argument from the
order of locks, not a check); the advisory lock on credentials in `profile.Update`
(`profile/service.go:589`), without which more can interleave than in the code;
password, PIN and lockout checks of sign-in.
