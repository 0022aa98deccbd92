---------------------------- MODULE TrackingOutbox ----------------------------
(***************************************************************************)
(* Synchronisation of one profile with one tracking provider               *)
(* (src/server/internal/tracking/service.go): the connection, the heads     *)
(* (newest event of each title and type), the outbox rows with their        *)
(* leases, and the worker that claims a row, sends it and completes or      *)
(* retries it.                                                              *)
(*                                                                         *)
(* Every transaction on the outbox takes one advisory lock before its first *)
(* read and keeps it until it commits, so each is one step here.  The       *)
(* worker's checks and its request to the provider run outside the lock,    *)
(* each a step of its own.  `clock` stands for the timestamps of the heads  *)
(* and for the identity column of the outbox, both assigned under the lock. *)
(***************************************************************************)
EXTENDS Naturals, FiniteSets, FiniteSetsExt

CONSTANTS
    Titles,          \* titles of the profile
    RemovedWith,     \* title -> what the provider removes along with it
    OutboxLimit,     \* rows the outbox may hold
    MaxChanges,      \* bound: connections made and preference changes together
    MaxFaults        \* bound: failed or unanswered requests and crashes

ASSUME OutboxAssumption ==
    /\ IsFiniteSet(Titles)
    /\ RemovedWith \in [Titles -> SUBSET (Titles \X {"history", "list"})]
    /\ OutboxLimit \in Nat \ {0}
    /\ MaxChanges \in Nat /\ MaxFaults \in Nat

VARIABLES
    authorization,   \* a device authorization is stored
    polling,         \* a completed authorization is being exchanged for tokens
    conn,            \* connection whose tokens the account row holds, 0: none
    sync,            \* event types the account synchronises
    db,              \* [heads, rows, clock] of the outbox
    worker,          \* what the worker is doing: [pc, row, token]
    remote,          \* title -> type -> last event the provider applied
    held,            \* title -> what the provider's history and list hold of it
    spent            \* how much of each bound is used

trackingVars ==
    <<authorization, polling, conn, sync, db, worker, remote, held, spent>>

Types == {"watched", "progress", "library"}

NoKey == <<"none">>
NoHead == [key |-> NoKey, affects |-> FALSE, at |-> 0]
Unknown == [value |-> "unknown", at |-> 0]
NothingKnown == [history |-> "unknown", list |-> "unknown"]
NoRow == [id |-> NoKey]
Idle == [pc |-> "idle", row |-> NoRow, token |-> 0]

Event(t, type, key, value) ==
    [title |-> t, type |-> type, key |-> key, value |-> value]

\* The events that change whether the title counts as watched.
AffectsWatched(e) ==
    e.type = "watched" \/ (e.type = "progress" /\ e.value = "stop")

(***************************************************************************)
(* The head of the event's type is still this event, and no newer head of   *)
(* the title overrides it.                                                  *)
(***************************************************************************)
Current(heads, e) ==
    LET head == heads[e.title][e.type] IN
    /\ head.key = e.key
    /\ \A type \in Types :
          LET newer == heads[e.title][type] IN
          newer.at > head.at => ~(head.affects /\ newer.affects)

Pending(rows, e) ==
    {r \in rows : r.title = e.title /\ r.type = e.type /\ r.lease = "none"}

\* The events that will need a row of their own.
Missing(rows, events) == {e \in events : Pending(rows, e) = {}}

(***************************************************************************)
(* enqueueBatchWithProviderTx: new heads, superseded pending rows removed,  *)
(* the capacity checked, the rows inserted or their pending row replaced.   *)
(* `ok` turns FALSE when the capacity is exceeded, and the caller's         *)
(* transaction rolls back.                                                  *)
(***************************************************************************)
Enqueue(state, connected, types, events) ==
    LET now == state.clock + 1
        enabled == {e \in events : connected /\ e.type \in types}
        heads == [t \in Titles |-> [type \in Types |->
                    IF \E e \in enabled : e.title = t /\ e.type = type
                    THEN LET e == CHOOSE e \in enabled : e.title = t /\ e.type = type
                         IN [key |-> e.key, affects |-> AffectsWatched(e), at |-> now]
                    ELSE state.heads[t][type]]]
        kept == {r \in state.rows : r.lease # "none" \/ Current(heads, r)}
        Inserted(e) ==
            [id |-> IF Pending(kept, e) = {} THEN <<e.title, now>>
                    ELSE (CHOOSE r \in Pending(kept, e) : TRUE).id,
             title |-> e.title, type |-> e.type, key |-> e.key, value |-> e.value,
             seq |-> now, lease |-> "none", due |-> TRUE]
    IN IF events = {} \/ ~state.ok THEN state
       ELSE IF Cardinality(kept) + Cardinality(Missing(kept, enabled)) > OutboxLimit
       THEN [state EXCEPT !.ok = FALSE]
       ELSE [heads |-> heads, clock |-> now, ok |-> TRUE,
             rows |-> (kept \ UNION {Pending(kept, e) : e \in enabled})
                        \cup {Inserted(e) : e \in enabled}]

(***************************************************************************)
(* Connecting: a device authorization is stored, polled, and exchanged for  *)
(* tokens.  The poll runs outside any transaction, so the authorization     *)
(* may be replaced or removed meanwhile.                                    *)
(***************************************************************************)
BeginDeviceAuthorization ==
    /\ spent.connects + spent.toggles < MaxChanges
    /\ authorization' = TRUE
    /\ UNCHANGED <<polling, conn, sync, db, worker, remote, held, spent>>

PollAuthorization ==
    /\ authorization /\ ~polling
    /\ polling' = TRUE
    /\ UNCHANGED <<authorization, conn, sync, db, worker, remote, held, spent>>

\* The provider refuses; the authorization stays for another poll, or expires.
PollRefused ==
    /\ polling
    /\ polling' = FALSE
    /\ authorization' \in {authorization, FALSE}
    /\ spent.faults < MaxFaults
    /\ spent' = [spent EXCEPT !.faults = @ + 1]
    /\ UNCHANGED <<conn, sync, db, worker, remote, held>>

(***************************************************************************)
(* The store transaction of CompleteDeviceAuthorization.  `seeded` is the   *)
(* outbox after seedProfileState.  The account may belong to another user   *)
(* of the provider than the previous one: nothing is known of its content.  *)
(***************************************************************************)
CompleteDeviceAuthorization(seeded) ==
    /\ polling
    /\ spent.connects + spent.toggles < MaxChanges
    /\ polling' = FALSE
    /\ IF seeded.ok
       THEN /\ authorization' = FALSE
            /\ conn' = spent.connects + 1
            /\ spent' = [spent EXCEPT !.connects = @ + 1]
            /\ db' = seeded
            /\ remote' = [t \in Titles |-> [type \in Types |-> Unknown]]
            /\ held' = [t \in Titles |-> NothingKnown]
       ELSE UNCHANGED <<authorization, conn, spent, db, remote, held>>
    /\ UNCHANGED <<sync, worker>>

\* The account's heads and rows go with it (ON DELETE CASCADE).
Disconnect ==
    /\ conn # 0 \/ authorization
    /\ conn' = 0
    /\ authorization' = FALSE
    /\ db' = [db EXCEPT !.heads = [t \in Titles |-> [type \in Types |-> NoHead]],
                        !.rows = {}]
    /\ remote' = [t \in Titles |-> [type \in Types |-> Unknown]]
    /\ held' = [t \in Titles |-> NothingKnown]
    /\ UNCHANGED <<polling, sync, worker, spent>>

\* What UpdatePreferences leaves of the outbox before it seeds.
Cleared(disabled) ==
    [db EXCEPT !.rows = {r \in @ : r.type \notin disabled}]

(***************************************************************************)
(* UpdatePreferences: the rows of the types turned off are deleted, leased  *)
(* or not; the profile's state is queued again if a type is turned on.      *)
(***************************************************************************)
UpdatePreferences(types, seeded) ==
    /\ conn # 0
    /\ spent.connects + spent.toggles < MaxChanges
    /\ seeded.ok
    /\ sync' = types
    /\ db' = seeded
    /\ spent' = [spent EXCEPT !.toggles = @ + 1]
    /\ UNCHANGED <<authorization, polling, conn, worker, remote, held>>

(***************************************************************************)
(* The worker: one goroutine of the server process, one row at a time.      *)
(***************************************************************************)
\* Slip: a row does not wait for the earlier rows of its title.
SlipClaimable(r) ==
    /\ r.due
    /\ r.lease # "held"

Claimable(r) ==
    /\ r.due
    /\ r.lease # "held"
    /\ ~\E earlier \in db.rows : earlier.title = r.title /\ earlier.seq < r.seq

Claim ==
    /\ worker.pc = "idle"
    /\ \E r \in db.rows :
          /\ Claimable(r)
          /\ db' = [db EXCEPT !.rows = (@ \ {r}) \cup {[r EXCEPT !.lease = "held"]}]
          /\ worker' = [pc |-> "claimed", row |-> r, token |-> 0]
    /\ UNCHANGED <<authorization, polling, conn, sync, remote, held, spent>>

\* process, first half: a superseded event needs no delivery.
CheckLatest ==
    /\ worker.pc = "claimed"
    /\ worker' = [worker EXCEPT !.pc =
                    IF Current(db.heads, worker.row) THEN "latest" ELSE "done"]
    /\ UNCHANGED <<authorization, polling, conn, sync, db, remote, held, spent>>

AccessToken ==
    /\ worker.pc = "latest"
    /\ worker' = [worker EXCEPT !.pc = IF conn = 0 THEN "failed" ELSE "sending",
                                !.token = conn]
    /\ UNCHANGED <<authorization, polling, conn, sync, db, remote, held, spent>>

Applied(row) ==
    [remote EXCEPT ![row.title][row.type] = [value |-> row.value, at |-> row.seq]]

(***************************************************************************)
(* What the provider's history and list hold of a title once the row is     *)
(* applied.  Trakt removes what it is told to.  Simkl is told of a removal  *)
(* from the library and of one from the history by the same request,        *)
(* /sync/history/remove: a movie leaves both, and a series takes the        *)
(* history of its episodes along.                                           *)
(***************************************************************************)
Kind(type) == IF type = "library" THEN "list" ELSE "history"

Puts(row, t, kind) ==
    t = row.title /\ kind = Kind(row.type) /\ row.value \in {"add", "stop"}

Removes(row, t, kind) ==
    t = row.title /\ kind = Kind(row.type) /\ row.value = "remove"

TakesAlong(row, t, kind) ==
    row.value = "remove" /\ <<t, kind>> \in RemovedWith[row.title]

HeldAfter(row, t, kind) ==
    CASE Puts(row, t, kind) -> "in"
      [] Removes(row, t, kind) -> "out"
      [] TakesAlong(row, t, kind) /\ ~Removes(row, t, kind) -> "taken"
      [] OTHER -> held[t][kind]

Holding(row) ==
    [t \in Titles |-> [history |-> HeldAfter(row, t, "history"),
                       list |-> HeldAfter(row, t, "list")]]

Deliver(row) ==
    /\ remote' = Applied(row)
    /\ held' = Holding(row)

Send ==
    LET row == worker.row IN
    /\ worker.pc = "sending"
    /\ worker.token = conn
    /\ Deliver(row)
    /\ worker' = [worker EXCEPT !.pc = "done"]
    /\ UNCHANGED <<authorization, polling, conn, sync, db, spent>>

\* The request fails, or its answer is lost after the provider applied it.
SendFails ==
    /\ worker.pc = "sending"
    /\ worker.token = conn
    /\ spent.faults < MaxFaults
    /\ spent' = [spent EXCEPT !.faults = @ + 1]
    /\ Deliver(worker.row) \/ UNCHANGED <<remote, held>>
    /\ worker' = [worker EXCEPT !.pc = "failed"]
    /\ UNCHANGED <<authorization, polling, conn, sync, db>>

(***************************************************************************)
(* The token belongs to an account that is gone: the old account takes the  *)
(* event, or refuses the token, and then the tokens of the present account, *)
(* if there is one, are refreshed and read.                                 *)
(***************************************************************************)
SendToOldAccount ==
    /\ worker.pc = "sending"
    /\ worker.token # conn
    /\ \E pc \in {"done", "failed"} \cup {p \in {"latest"} : conn # 0} :
          worker' = [worker EXCEPT !.pc = pc]
    /\ UNCHANGED <<authorization, polling, conn, sync, db, remote, held, spent>>

\* Slip: the rows of the title and type are deleted rather than the row's id.
SlipDone(row) ==
    {r \in db.rows : ~(r.title = row.title /\ r.type = row.type)}

\* What `complete` leaves: DELETE ... WHERE id = work.ID.
Done(row) == {r \in db.rows : r.id # row.id}

Complete ==
    /\ worker.pc = "done"
    /\ db' = [db EXCEPT !.rows = Done(worker.row)]
    /\ worker' = Idle
    /\ UNCHANGED <<authorization, polling, conn, sync, remote, held, spent>>

\* Slip: retry does not look for a pending successor.
SlipRetried(row) ==
    IF ~Current(db.heads, row) THEN Done(row)
    ELSE {IF r.id = row.id THEN [r EXCEPT !.lease = "none", !.due = FALSE]
          ELSE r : r \in db.rows}

\* What `retry` leaves: the row waits for its next attempt, or it is superseded.
Retried(row) ==
    LET superseded ==
            \/ ~Current(db.heads, row)
            \/ \E r \in Pending(db.rows, row) : r.id # row.id
    IN IF superseded THEN Done(row)
       ELSE {IF r.id = row.id THEN [r EXCEPT !.lease = "none", !.due = FALSE]
             ELSE r : r \in db.rows}

Retry ==
    /\ worker.pc = "failed"
    /\ db' = [db EXCEPT !.rows = Retried(worker.row)]
    /\ worker' = Idle
    /\ UNCHANGED <<authorization, polling, conn, sync, remote, held, spent>>

\* The process stops, or the transaction of complete or retry fails.
Crash ==
    /\ worker.pc # "idle"
    /\ spent.faults < MaxFaults
    /\ spent' = [spent EXCEPT !.faults = @ + 1]
    /\ worker' = Idle
    /\ UNCHANGED <<authorization, polling, conn, sync, db, remote, held>>

\* Time passes for a row: its lease ends, or its next attempt comes due.  Only
\* the worker, when it is idle, looks at either.
RowTimer ==
    /\ worker.pc = "idle"
    /\ \E r \in db.rows :
          \/ /\ r.lease = "held"
             /\ db' = [db EXCEPT !.rows = (@ \ {r}) \cup {[r EXCEPT !.lease = "expired"]}]
          \/ /\ ~r.due
             /\ db' = [db EXCEPT !.rows = (@ \ {r}) \cup {[r EXCEPT !.due = TRUE]}]
    /\ UNCHANGED <<authorization, polling, conn, sync, worker, remote, held, spent>>

WorkerStep ==
    \/ Claim \/ CheckLatest \/ AccessToken \/ Send
    \/ SendToOldAccount \/ Complete \/ Retry

TrackingInit ==
    /\ authorization = FALSE /\ polling = FALSE
    /\ conn = 0 /\ sync = Types
    /\ db = [heads |-> [t \in Titles |-> [type \in Types |-> NoHead]],
             rows |-> {}, clock |-> 1, ok |-> TRUE]
    /\ worker = Idle
    /\ remote = [t \in Titles |-> [type \in Types |-> Unknown]]
    /\ held = [t \in Titles |-> NothingKnown]
    /\ spent = [connects |-> 0, toggles |-> 0, faults |-> 0, writes |-> 0]

(***************************************************************************)
(* The feed this implements.                                                *)
(***************************************************************************)
Seen(t, type) == remote[t][type].at

\* A delivery to the account that was replaced is still under way: the change of
\* subscription is not over before it ends.
Leaving == worker.token \notin {0, conn}

\* The worker has found the row superseded, or has had it delivered, and is about
\* to delete it.  A newer event of the title may make the row current again; the
\* row is deleted all the same.
Completing(r) == worker.pc = "done" /\ ~Leaving /\ r.id = worker.row.id

\* A leased row that is superseded is no longer due, though it may yet be sent.
Due(t, type) ==
    Max({Seen(t, type)} \cup
        {r.seq : r \in {q \in db.rows : /\ q.title = t /\ q.type = type
                                        /\ Current(db.heads, q) /\ ~Completing(q)}})

\* Whether a title was watched is told by two types of event.
Overrides ==
    [type \in Types |-> {other \in {"watched", "progress"} \ {type} : type # "library"}]

Feed == INSTANCE IntentFeed WITH
    subscription <- <<conn, sync, Leaving>>,
    due <- [t \in Titles |-> [type \in Types |-> Due(t, type)]],
    seen <- [t \in Titles |-> [type \in Types |-> Seen(t, type)]]

================================================================================
