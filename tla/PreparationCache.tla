-------------------------- MODULE PreparationCache --------------------------
(***************************************************************************)
(* The cache of prepared playbacks: server/internal/playback/              *)
(* preparation_cache.go and its uses in service.go and activity.go.        *)
(*                                                                         *)
(* A caller takes a cached preparation, or waits for the one build of its  *)
(* key that is in flight, or starts that build in a goroutine of its own   *)
(* and waits.  Callers may give up; the build goes on.  A key is evicted   *)
(* when access is refused or its source has gone, a reset clears           *)
(* everything, and a Prepare leaves a one-time hand-off for the Resolve    *)
(* that follows it.                                                        *)
(*                                                                         *)
(* Every step is one critical section of cache.mu.  A key stands for       *)
(* playbackPreparationCacheKey(reference, revision, policy); what a build  *)
(* returns is reduced to the number of invalidations of its key that       *)
(* preceded its start, which is what makes it stale.                       *)
(***************************************************************************)
EXTENDS Naturals, FiniteSets

CONSTANTS
  Keys,        \* cache keys
  Callers,     \* requests in preparedPlayback
  Calls,       \* playbackPreparationCall objects with their goroutines
  Workloads,   \* functions from callers to the keys they ask for
  Owners,      \* owners of hand-offs (session and profile)
  None,        \* no call, no key
  MaxEntries,  \* maximumPlaybackPreparations
  EntryTTL,    \* the longest time left to a source reference
  HandoffTTL,  \* playbackPreparationHandoffTTL
  MaxClears    \* bound of the model on clears and on evictions of one key

ASSUME PreparationCacheAssumption ==
  /\ None \notin Keys /\ None \notin Calls
  /\ IsFiniteSet(Keys)
  /\ Workloads \subseteq [Callers -> SUBSET Keys]
  /\ MaxEntries \in Nat \ {0}
  /\ EntryTTL \in Nat \ {0}
  /\ HandoffTTL \in Nat \ {0}
  /\ MaxClears \in Nat

VARIABLES
  workload,    \* the member of Workloads the callers follow
  entries,     \* key -> cached preparation
  inFlight,    \* key -> the call new callers join
  handoffs,    \* owner -> hand-off
  generation,  \* number of clears
  call,        \* call -> its state
  caller,      \* caller -> what it waits for or received
  voided       \* key -> number of clears and evictions of it (history)

cache == <<entries, inFlight, handoffs, generation>>
cacheVars == <<workload, cache, call, caller, voided>>

-----------------------------------------------------------------------------
Voids == 0..(2 * MaxClears)

\* life: time left to expiresAt; 0 with present = TRUE is expired, not removed.
Entry == [present : BOOLEAN, born : Voids, life : 0..EntryTTL]
Handoff == [key : Keys \cup {None}, life : 0..HandoffTTL]
CallState == [state : {"free", "running", "done"}, key : Keys \cup {None},
              generation : 0..MaxClears, born : Voids, ok : BOOLEAN]
CallerState == [state : {"idle", "waiting", "served", "failed"}, call : Calls \cup {None},
                key : Keys \cup {None}, since : Voids, born : Voids]

NoEntry == [present |-> FALSE, born |-> 0, life |-> 0]
NoHandoff == [key |-> None, life |-> 0]
FreeCall == [state |-> "free", key |-> None, generation |-> 0, born |-> 0, ok |-> FALSE]
IdleCaller == [state |-> "idle", call |-> None, key |-> None, since |-> 0, born |-> 0]

\* The type invariant.
CacheTypeOK ==
  /\ workload \in Workloads
  /\ entries \in [Keys -> Entry]
  /\ inFlight \in [Keys -> Calls \cup {None}]
  /\ handoffs \in [Owners -> Handoff]
  /\ generation \in 0..MaxClears
  /\ call \in [Calls -> CallState]
  /\ caller \in [Callers -> CallerState]
  /\ voided \in [Keys -> Voids]

\* removeExpiredLocked, the first thing every lookup does.
LiveEntry(k) == IF entries[k].life > 0 THEN entries[k] ELSE NoEntry
LiveHandoff(o) == IF handoffs[o].life > 0 THEN handoffs[o] ELSE NoHandoff
LiveEntries == [k \in Keys |-> LiveEntry(k)]
LiveHandoffs == [o \in Owners |-> LiveHandoff(o)]

Present(E) == {k \in Keys : E[k].present}

\* Nobody waits on the call any more and its goroutine has ended.
Released(c) == call[c].state = "done" /\ \A w \in Callers : caller[w].call # c

-----------------------------------------------------------------------------
(***************************************************************************)
(* preparedPlayback: the lookup, and joining or starting a call.           *)
(***************************************************************************)
Hit(w, k) ==
  /\ caller[w].state = "idle"
  /\ LiveEntry(k).present
  /\ entries' = LiveEntries /\ handoffs' = LiveHandoffs
  /\ caller' = [caller EXCEPT ![w] = [state |-> "served", call |-> None, key |-> k,
                                      since |-> voided[k], born |-> entries[k].born]]
  /\ UNCHANGED <<workload, inFlight, generation, call, voided>>

Waiting(k, c) == [state |-> "waiting", call |-> c, key |-> k, since |-> voided[k], born |-> 0]

Join(w, k) ==
  /\ caller[w].state = "idle"
  /\ ~LiveEntry(k).present
  /\ inFlight[k] # None
  /\ entries' = LiveEntries /\ handoffs' = LiveHandoffs
  /\ caller' = [caller EXCEPT ![w] = Waiting(k, inFlight[k])]
  /\ UNCHANGED <<workload, inFlight, generation, call, voided>>

\* Slip: the call is not registered before the lock is released.
Unregistered(k, c) == inFlight

Registered(k, c) == [inFlight EXCEPT ![k] = c]

Start(w, k, c) ==
  /\ caller[w].state = "idle"
  /\ ~LiveEntry(k).present
  /\ inFlight[k] = None
  /\ call[c].state = "free"
  /\ entries' = LiveEntries /\ handoffs' = LiveHandoffs
  /\ inFlight' = Registered(k, c)
  /\ call' = [call EXCEPT ![c] = [state |-> "running", key |-> k, generation |-> generation,
                                  born |-> voided[k], ok |-> FALSE]]
  /\ caller' = [caller EXCEPT ![w] = Waiting(k, c)]
  /\ UNCHANGED <<workload, generation, voided>>

\* The caller's context ends first; the call goes on without it.
GiveUp(w) ==
  /\ caller[w].state = "waiting"
  /\ caller' = [caller EXCEPT ![w] = IdleCaller]
  /\ UNCHANGED <<workload, cache, call, voided>>

\* The caller sees call.done closed.
Receive(w) ==
  LET c == caller[w].call IN
  /\ caller[w].state = "waiting"
  /\ call[c].state = "done"
  /\ caller' = [caller EXCEPT ![w] =
        [@ EXCEPT !.state = IF call[c].ok THEN "served" ELSE "failed",
                  !.call = None, !.born = call[c].born]]
  /\ UNCHANGED <<workload, cache, call, voided>>

\* The request is over, and the caller may come back.
Leave(w) ==
  /\ caller[w].state \in {"served", "failed"}
  /\ caller' = [caller EXCEPT ![w] = IdleCaller]
  /\ UNCHANGED <<workload, cache, call, voided>>

(***************************************************************************)
(* complete: the result is published to the waiters in any case, and       *)
(* stored only if neither a clear nor an eviction took the call out of     *)
(* inFlight.  A full cache first loses the entries that expire earliest,   *)
(* with the hand-offs to them.                                             *)
(***************************************************************************)
Storable(c) == generation = call[c].generation /\ inFlight[call[c].key] = c

\* The key removeEarliestLocked deletes: the order of equal expiries is that
\* of the key strings, any of them here.
Earliest(k) == entries[k].present /\ \A j \in Present(entries) : entries[k].life <= entries[j].life

Full == Cardinality(Present(entries)) >= MaxEntries

HandoffsWithout(k) == [o \in Owners |-> IF handoffs[o].key = k THEN NoHandoff ELSE handoffs[o]]

\* Slip: only a call that is still registered announces its end.
FinishedIfRegistered(c) == IF inFlight[call[c].key] = c THEN "done" ELSE "running"

Finished(c) == "done"

Complete(c, ok, life) ==
  LET k == call[c].key IN
  /\ call[c].state = "running"
  /\ IF ok /\ Storable(c)
     THEN \E drop \in {x \in Keys : Earliest(x)} \cup {None} :
            /\ drop = None <=> ~Full
            /\ entries' = [j \in Keys |->
                 IF j = k THEN [present |-> TRUE, born |-> call[c].born, life |-> life]
                 ELSE IF j = drop THEN NoEntry ELSE entries[j]]
            /\ handoffs' = IF drop = None THEN handoffs ELSE HandoffsWithout(drop)
     ELSE UNCHANGED <<entries, handoffs>>
  /\ inFlight' = IF inFlight[k] = c THEN [inFlight EXCEPT ![k] = None] ELSE inFlight
  /\ call' = [call EXCEPT ![c].state = Finished(c), ![c].ok = ok]
  /\ UNCHANGED <<workload, generation, caller, voided>>

\* A finished call object that nobody holds is garbage.
Collect(c) ==
  /\ Released(c)
  /\ call' = [call EXCEPT ![c] = FreeCall]
  /\ UNCHANGED <<workload, cache, caller, voided>>

-----------------------------------------------------------------------------
\* clear, from ResetCache.
Clear ==
  /\ generation < MaxClears
  /\ generation' = generation + 1
  /\ entries' = [k \in Keys |-> NoEntry]
  /\ inFlight' = [k \in Keys |-> None]
  /\ handoffs' = [o \in Owners |-> NoHandoff]
  /\ voided' = [k \in Keys |-> voided[k] + 1]
  /\ UNCHANGED <<workload, call, caller>>

\* Slip: an eviction leaves the build in flight.
InFlightKept(K) == inFlight
InFlightWithout(K) == [k \in Keys |-> IF k \in K THEN None ELSE inFlight[k]]

\* evict takes one key, evictRevision all policies of one reference revision.
Evict(K) ==
  /\ \A k \in K : voided[k] < MaxClears + generation
  /\ entries' = [k \in Keys |-> IF k \in K THEN NoEntry ELSE entries[k]]
  /\ inFlight' = InFlightWithout(K)
  /\ handoffs' = [o \in Owners |-> IF handoffs[o].key \in K THEN NoHandoff ELSE handoffs[o]]
  /\ voided' = [k \in Keys |-> IF k \in K THEN voided[k] + 1 ELSE voided[k]]
  /\ UNCHANGED <<workload, generation, call, caller>>

Shortest(a, b) == IF a < b THEN a ELSE b

\* Slip: the hand-off may outlive the thirty seconds.
HandoffLifeOfEntry(k) == entries[k].life
HandoffLife(k) == Shortest(HandoffTTL, entries[k].life)

\* markResolveHandoff, at the end of Prepare.
MarkHandoff(o, k) ==
  /\ entries' = LiveEntries
  /\ handoffs' = [LiveHandoffs EXCEPT ![o] =
        IF LiveEntry(k).present THEN [key |-> k, life |-> HandoffLife(k)] ELSE NoHandoff]
  /\ UNCHANGED <<workload, inFlight, generation, call, caller, voided>>

\* consumeResolveHandoff, at the start of Resolve: whether it matches the
\* reference, the policy and the start or not, it is used up.
ConsumeHandoff(o) ==
  /\ entries' = LiveEntries
  /\ handoffs' = [LiveHandoffs EXCEPT ![o] = NoHandoff]
  /\ UNCHANGED <<workload, inFlight, generation, call, caller, voided>>

Less(n) == IF n = 0 THEN 0 ELSE n - 1

\* Time passes.
CacheTick ==
  /\ entries' = [k \in Keys |-> [entries[k] EXCEPT !.life = Less(@)]]
  /\ handoffs' = [o \in Owners |-> [handoffs[o] EXCEPT !.life = Less(@)]]
  /\ UNCHANGED <<workload, inFlight, generation, call, caller, voided>>

-----------------------------------------------------------------------------
CacheInit ==
  /\ workload \in Workloads
  /\ entries = [k \in Keys |-> NoEntry]
  /\ inFlight = [k \in Keys |-> None]
  /\ handoffs = [o \in Owners |-> NoHandoff]
  /\ generation = 0
  /\ call = [c \in Calls |-> FreeCall]
  /\ caller = [w \in Callers |-> IdleCaller]
  /\ voided = [k \in Keys |-> 0]

EndCall(c) == \E ok \in BOOLEAN, life \in 0..EntryTTL : Complete(c, ok, life)

CacheNext ==
  \/ \E w \in Callers : \E k \in workload[w] :
       Hit(w, k) \/ Join(w, k) \/ \E c \in Calls : Start(w, k, c)
  \/ \E w \in Callers : GiveUp(w) \/ Receive(w) \/ Leave(w)
  \/ \E c \in Calls : EndCall(c) \/ Collect(c)
  \/ \E K \in SUBSET Keys : K # {} /\ Evict(K)
  \/ \E o \in Owners, k \in Keys : MarkHandoff(o, k)
  \/ \E o \in Owners : ConsumeHandoff(o)
  \/ Clear
  \/ CacheTick

\* A build ends, at the latest when its context times out after
\* playbackPreparationTimeout, and a goroutine woken by a closed channel runs.
CacheFairness ==
  /\ \A c \in Calls : WF_cacheVars(EndCall(c)) /\ WF_cacheVars(Collect(c))
  /\ \A w \in Callers : WF_cacheVars(Receive(w))

CacheSpec == CacheInit /\ [][CacheNext]_cacheVars /\ CacheFairness

-----------------------------------------------------------------------------
(***************************************************************************)
(* Properties.                                                             *)
(***************************************************************************)
\* The cache never holds, and no caller is ever served, a preparation whose
\* build began before the key was last cleared or evicted as far as the caller
\* can tell: a build that a clear or an eviction overtook reaches only those
\* who were already waiting for it.
NothingStale ==
  /\ \A k \in Keys : entries[k].present => entries[k].born = voided[k]
  /\ \A w \in Callers : caller[w].state = "served" => caller[w].born >= caller[w].since

\* However many callers arrive, one build of a key runs at a time, apart from
\* builds a clear or an eviction has overtaken.
OneBuildPerKey ==
  \A c, d \in Calls :
    /\ call[c].state = "running" /\ call[d].state = "running"
    /\ call[c].key = call[d].key
    /\ call[c].born = voided[call[c].key] /\ call[d].born = voided[call[d].key]
    => c = d

\* A hand-off that has not expired finds its entry, and the entry will live at
\* least as long: no eviction, expiry or displacement separates them.
HandoffFindsEntry ==
  \A o \in Owners :
    handoffs[o].life > 0 =>
      /\ entries[handoffs[o].key].present
      /\ entries[handoffs[o].key].life >= handoffs[o].life

\* What the cache hands out is current, by a key or by a hand-off: invalidations and expiry
\* leave neither a stale entry nor a hand-off to nothing.
CacheCoherent == NothingStale /\ HandoffFindsEntry

\* Everyone who waits gets an answer or gives up, even on a build that was
\* cleared, evicted or replaced while they waited.
WaitersAnswered ==
  \A w \in Callers : caller[w].state = "waiting" ~> caller[w].state # "waiting"
=============================================================================
