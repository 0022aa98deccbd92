------------------------------ MODULE WatchState ------------------------------
(***************************************************************************)
(* The watch state of one profile (src/server/internal/watchstate/          *)
(* service.go): progress, library, favourites and continue-watching         *)
(* dismissals, composed with the tracking outbox every change feeds.        *)
(*                                                                         *)
(* A change holds the advisory lock of its titles from before its first     *)
(* read, and the outbox lock from the enqueuing on, until it commits; the   *)
(* seeding of a connection reads what changes wrote under the outbox lock.  *)
(* Each change is therefore one step, taken where it commits, and a change  *)
(* the outbox has no room for is rolled back.  DismissContinue takes        *)
(* neither lock: it is one statement on the dismissals, and queues nothing. *)
(***************************************************************************)
EXTENDS TrackingOutbox

CONSTANTS
    MediaType,       \* title -> "movie" | "episode" | "series" | "tv"
    Target,          \* title -> the title a dismissal of it is stored under
    Playback,        \* inputs of UpdateProgress: [position, completed]
    UserDataInputs,  \* inputs of UpdateUserDataForLinkedSession
    Preferences,     \* inputs of UpdatePreferences: [enabled, disabled]
    MaxWrites        \* bound: changes of the watch state

ASSUME WatchAssumption ==
    /\ MediaType \in [Titles -> {"movie", "episode", "series", "tv"}]
    /\ Preferences \subseteq [enabled : SUBSET Types, disabled : SUBSET Types]
    /\ MaxWrites \in Nat

VARIABLES
    progress,        \* title -> row of profile_progress, version 0: none
    library,         \* title -> updated_at of its row, 0: not in the library
    favorites,       \* titles marked favourite
    dismissed        \* titles dismissed from continue watching

watchVars == <<progress, library, favorites, dismissed>>
vars == <<trackingVars, watchVars>>

NoProgress == [version |-> 0, position |-> 0, duration |-> 0, completed |-> FALSE]

Playable(t) == MediaType[t] \in {"movie", "episode"}

\* An absent input is {}, a present one {value}.
Given(input, otherwise) ==
    IF input = {} THEN otherwise ELSE CHOOSE value \in input : TRUE

\* The scrobble action `send` derives from a progress event.
Scrobble(p) ==
    IF p.completed THEN "stop" ELSE IF p.position = 0 THEN "start" ELSE "pause"

ProgressEvent(t, p) == Event(t, "progress", <<"progress", p.version>>, Scrobble(p))

WatchedEvent(t, p) ==
    Event(t, "watched", <<"watched", p.version, p.completed>>,
          IF p.completed THEN "add" ELSE "remove")

LibraryEvent(t, key, value) == Event(t, "library", key, value)

\* The events are queued in the transaction of the change.
Record(events) ==
    LET queued == Enqueue(db, conn # 0, sync, events) IN
    /\ spent.writes < MaxWrites
    /\ queued.ok
    /\ db' = queued
    /\ spent' = [spent EXCEPT !.writes = @ + 1]
    /\ UNCHANGED <<authorization, polling, conn, sync, worker, remote, held>>

(***************************************************************************)
(* The state a new connection or a type turned on is brought up to: the     *)
(* library first, then for each title its watched state and its position.   *)
(***************************************************************************)
SeedProfileState(state, connected, types) ==
    LET started == {t \in Titles : progress[t].version > 0}
        libraryEvents ==
            {LibraryEvent(t, <<"connect library", library[t]>>, "add")
                : t \in {u \in Titles : library[u] > 0}}
        watchedEvents ==
            {[WatchedEvent(t, progress[t]) EXCEPT
                !.key = <<"connect watched", progress[t].version>>] : t \in started}
        progressEvents ==
            {[ProgressEvent(t, progress[t]) EXCEPT
                !.key = <<"connect progress", progress[t].version>>]
                : t \in {u \in started : ~progress[u].completed /\ progress[u].position > 0}}
    IN Enqueue(Enqueue(Enqueue(state, connected, types, libraryEvents),
                       connected, types, watchedEvents),
               connected, types, progressEvents)

Connect ==
    /\ CompleteDeviceAuthorization(SeedProfileState(db, TRUE, sync))
    /\ UNCHANGED watchVars

\* The types given are turned on or off; the others keep their setting.
ChangePreferences ==
    \E input \in Preferences :
        LET types == (sync \cup input.enabled) \ input.disabled IN
        /\ UpdatePreferences(types,
              IF input.enabled = {} THEN Cleared(input.disabled)
              ELSE SeedProfileState(Cleared(input.disabled), TRUE, types))
        /\ UNCHANGED watchVars

(***************************************************************************)
(* Changes by the clients of the profile.  A client whose expectedVersion   *)
(* is not the row's version gets a conflict and changes nothing.            *)
(***************************************************************************)
UpdateProgress(t, expectedVersion, input) ==
    LET p == [version |-> expectedVersion + 1, position |-> input.position,
              duration |-> 1, completed |-> input.completed] IN
    /\ Playable(t)
    /\ progress[t].version = expectedVersion
    /\ progress' = [progress EXCEPT ![t] = p]
    /\ dismissed' = dismissed \ {Target[t]}
    /\ Record({ProgressEvent(t, p)})
    /\ UNCHANGED <<library, favorites>>

Watched(p, completed) ==
    [p EXCEPT !.version = @ + 1, !.completed = completed,
              !.position = IF completed THEN p.duration ELSE 0]

SetWatched(t, expectedVersion, completed) ==
    LET p == Watched(progress[t], completed) IN
    /\ Playable(t)
    /\ progress[t].version = expectedVersion
    /\ progress' = [progress EXCEPT ![t] = p]
    /\ dismissed' = dismissed \ {Target[t]}
    /\ Record({WatchedEvent(t, p)})
    /\ UNCHANGED <<library, favorites>>

\* All of the batch or nothing; the dismissals removed are those stored under
\* the batch's own titles.
SetWatchedBatch(completed, expectedVersions) ==
    LET batch == DOMAIN completed
        changed == [t \in Titles |-> IF t \in batch THEN Watched(progress[t], completed[t])
                                     ELSE progress[t]] IN
    /\ \A t \in batch : Playable(t) /\ progress[t].version = expectedVersions[t]
    /\ progress' = changed
    /\ dismissed' = dismissed \ batch
    /\ Record({WatchedEvent(t, changed[t]) : t \in batch})
    /\ UNCHANGED <<library, favorites>>

\* Slip: the position of a cleared title stays behind.
SlipClear(t, expectedVersion) ==
    /\ progress[t].version = expectedVersion
    /\ progress' = [progress EXCEPT ![t].version = 0]
    /\ Record({Event(t, "progress", <<"clear", db.clock + 1>>, "clear")})
    /\ UNCHANGED <<library, favorites, dismissed>>

ClearProgress(t, expectedVersion) ==
    /\ progress[t].version = expectedVersion
    /\ progress' = [progress EXCEPT ![t] = NoProgress]
    /\ Record({Event(t, "progress", <<"clear", db.clock + 1>>, "clear")})
    /\ UNCHANGED <<library, favorites, dismissed>>

UpdateUserData(t, input) ==
    LET old == progress[t]
        position == Given(input.position, old.position)
        played == Given(input.played, old.completed)
        changed == IF old.version = 0
                   THEN (input.position # {} /\ position # 0) \/ (input.played # {} /\ played)
                   ELSE position # old.position \/ played # old.completed
        duration == IF old.duration = 0 THEN input.duration ELSE old.duration
        p == [version |-> old.version + 1, position |-> position,
              duration |-> duration, completed |-> played]
        favorite == Given(input.favorite, t \in favorites)
    IN
    /\ changed => Playable(t) /\ position <= duration
    /\ progress' = IF changed THEN [progress EXCEPT ![t] = p] ELSE progress
    /\ dismissed' = IF changed THEN dismissed \ {Target[t]} ELSE dismissed
    /\ favorites' = IF favorite THEN favorites \cup {t} ELSE favorites \ {t}
    /\ Record(IF changed THEN {ProgressEvent(t, p)} ELSE {})
    /\ UNCHANGED library

AddLibrary(t) ==
    /\ MediaType[t] \in {"movie", "series", "tv"}
    /\ library' = [library EXCEPT ![t] = db.clock + 1]
    /\ Record(IF MediaType[t] = "tv" THEN {}
              ELSE {LibraryEvent(t, <<"library add", db.clock + 1>>, "add")})
    /\ UNCHANGED <<progress, favorites, dismissed>>

RemoveLibrary(t) ==
    /\ library' = [library EXCEPT ![t] = 0]
    /\ Record(IF MediaType[t] = "tv" THEN {}
              ELSE {LibraryEvent(t, <<"library remove", db.clock + 1>>, "remove")})
    /\ UNCHANGED <<progress, favorites, dismissed>>

DismissContinue(t) ==
    /\ Playable(t)
    /\ dismissed' = dismissed \cup {Target[t]}
    /\ Record({})
    /\ UNCHANGED <<progress, library, favorites>>

(***************************************************************************)
(* The specification.                                                       *)
(***************************************************************************)

\* A profile nobody has used, or one whose titles were begun and collected
\* before any tracking account was connected.
Used(t) == [NoProgress EXCEPT !.version = 1, !.position = 1, !.duration = 1]

Init ==
    /\ TrackingInit
    /\ \/ /\ progress = [t \in Titles |-> NoProgress]
          /\ library = [t \in Titles |-> 0]
       \/ /\ progress = [t \in Titles |-> IF Playable(t) THEN Used(t) ELSE NoProgress]
          /\ library = [t \in Titles |-> IF MediaType[t] = "episode" THEN 0 ELSE db.clock]
    /\ favorites = {}
    /\ dismissed = {}

Versions == 0..MaxWrites + 1

Write ==
    \/ \E t \in Titles, v \in Versions, input \in Playback : UpdateProgress(t, v, input)
    \/ \E t \in Titles, v \in Versions, completed \in BOOLEAN : SetWatched(t, v, completed)
    \/ \E batch \in (SUBSET Titles) \ {{}} :
          \E completed \in [batch -> BOOLEAN], versions \in [batch -> Versions] :
             SetWatchedBatch(completed, versions)
    \/ \E t \in Titles, v \in Versions : ClearProgress(t, v)
    \/ \E t \in Titles, input \in UserDataInputs : UpdateUserData(t, input)
    \/ \E t \in Titles : AddLibrary(t) \/ RemoveLibrary(t) \/ DismissContinue(t)

TrackingStep ==
    /\ \/ BeginDeviceAuthorization \/ PollAuthorization \/ PollRefused \/ Disconnect
       \/ RowTimer \/ WorkerStep \/ SendFails \/ Crash
    /\ UNCHANGED watchVars

Next == Write \/ Connect \/ ChangePreferences \/ TrackingStep

\* The worker is called every few seconds and never blocks for good; leases end
\* and attempts come due with time.
Fairness ==
    /\ WF_vars(WorkerStep /\ UNCHANGED watchVars)
    /\ WF_vars(RowTimer /\ UNCHANGED watchVars)

Spec == Init /\ [][Next]_vars /\ Fairness

(***************************************************************************)
(* Properties.                                                              *)
(***************************************************************************)

\* The variables have their types; a title without a progress row has no
\* remains of one (ClearProgress), and every row has a head of its type.
TypeOK ==
    /\ authorization \in BOOLEAN /\ polling \in BOOLEAN
    /\ conn \in 0..MaxChanges /\ sync \subseteq Types
    /\ \A r \in db.rows :
          /\ r.title \in Titles /\ r.type \in sync /\ conn # 0
          /\ r.seq \in 1..db.clock /\ r.due \in BOOLEAN
          /\ r.lease \in {"none", "held", "expired"}
          /\ db.heads[r.title][r.type].at >= r.seq
    /\ worker.pc \in {"idle", "claimed", "latest", "sending", "done", "failed"}
    /\ \A t \in Titles : progress[t].version = 0 => progress[t] = NoProgress

\* The outbox never holds more rows than its limit, and a title and type have
\* one pending row at most, in whatever order rows are admitted, leased, retried
\* and replaced: a retry that gives its row back never meets the row admitted
\* while it was leased (enqueueBatchWithProviderTx,
\* profile_tracking_outbox_pending_event_idx).
OutboxBounded ==
    /\ Cardinality(db.rows) <= OutboxLimit
    /\ \A r, q \in db.rows :
          r.lease = "none" /\ q.lease = "none" /\ r.title = q.title /\ r.type = q.type
              => r = q

\* The newest of the title's progress and watched events is one of SetWatched or
\* of a seeding.
SetLast(t) ==
    /\ progress[t].version > 0
    /\ db.heads[t]["watched"].at > db.heads[t]["progress"].at

\* A title with nothing queued is at the provider what it is here, whatever
\* interleaving of changes, connections, leases, failures and crashes led there:
\* in the library, watched, set unwatched, or stopped half way; and, in the first
\* connection with its preferences unchanged, not in the library there when it is
\* not here.  What the provider removed along with something else is not told
\* again ("taken"): with Simkl, a movie that leaves the library loses its history,
\* and one set unwatched leaves the library.  A title begun again or reset without
\* SetWatched stays watched there, and channels are left out of the library: a
\* seeding queues them, and no change does.
Mirrored ==
    \A t \in Titles :
        conn # 0 /\ t \notin {r.title : r \in db.rows} =>
            /\ "library" \in sync /\ library[t] > 0 /\ MediaType[t] # "tv"
                  => held[t].list \in {"in", "taken"}
            /\ "library" \in sync /\ library[t] = 0 /\ MediaType[t] # "tv"
                  /\ spent.toggles = 0 /\ spent.connects = 1
                  => held[t].list # "in"
            /\ {"watched", "progress"} \subseteq sync /\ progress[t].completed
                  => held[t].history \in {"in", "taken"}
            /\ {"watched", "progress"} \subseteq sync /\ ~progress[t].completed /\ SetLast(t)
                  => held[t].history # "in"
            /\ "progress" \in sync /\ ~progress[t].completed /\ progress[t].position > 0
                  => remote[t]["progress"].value = "pause"

\* The outbox implements the feed: an event of a title, of whatever type, is never
\* delivered before an older one that is still due nor after a newer one of the
\* title, only a newer event of its type, one that overrides it, or a change of
\* connection or preferences withdraws one, and of each type the newest that is
\* due is always delivered in the end.
ImplementsFeed == Feed!Spec

\* New watch activity on a title ends its dismissal ("until new watch activity
\* restores it", protocol/openapi.yaml:5681).
ActivityRestores ==
    [][\A t \in Titles :
          progress'[t].version > progress[t].version => Target[t] \notin dismissed']_vars

================================================================================
