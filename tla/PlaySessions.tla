---------------------------- MODULE PlaySessions ----------------------------
(***************************************************************************)
(* The play sessions of Jellyfin clients: jellyfin/registry.go, with the   *)
(* handlers of jellyfin/playback.go and state.go that drive it and the     *)
(* deliveries it opens in playback/service.go.                             *)
(*                                                                         *)
(* A play session binds media sources to source references and, once a     *)
(* source has been opened, to a delivery, which is a row of                *)
(* playback_sessions.  registry.mu covers one step; references are pinned  *)
(* and released, deliveries opened and closed, outside it.  What a request *)
(* removes from the registry it still has to detach, release and close.    *)
(***************************************************************************)
EXTENDS SourceReferences, Sequences

CONSTANTS
  Keys,         \* stable identities of streams
  NoKey,        \* the identity of a stream that has none
  Capabilities, \* what a client can play
  Calls,        \* requests in progress, and the goroutine of the registry
  Programs,     \* call -> the requests it makes one after the other, and what else may happen
  MaxPlays,     \* bound: play sessions
  MaxRows,      \* bound: deliveries
  OwnerLimit,   \* play sessions of one owner
  UserLimit,    \* play sessions of one user
  PlayLimit,    \* play sessions
  HandleLimit,  \* deliveries owned by the registry, with those being opened
  ProfileOf,    \* session -> profile
  SessionRows,  \* playback sessions of one login
  ProfileRows,  \* playback sessions of one profile
  RowLimit,     \* playback sessions
  MaxChanges    \* maxBindingChanges

\* What a client asks, or the server itself; media and plays are those it may name.
Request ==
  [kind : {"info", "stream", "progress", "stop", "logout", "reap", "reset", "retire"},
   session : Sessions, capabilities : Capabilities, preference : 0..2, start : 0..1,
   media : SUBSET (0..2), plays : SUBSET (0..MaxPlays)]

\* What the environment may do: the streams providers may offer, whether they may withdraw
\* them, how many steps may fail, and whether time may pass and retries take too long.
Chance == [offers : SUBSET Seq(Keys), withdraw : BOOLEAN, failures : Nat,
           expire : BOOLEAN, lapse : BOOLEAN]

ASSUME PlaySessionsAssumption ==
  /\ NoKey \in Keys /\ Sessions # {} /\ Capabilities # {}
  /\ IsFiniteSet(Calls) /\ "nobody" \notin Calls
  /\ \A program \in Programs :
       /\ \A c \in Calls : program.calls[c] \in Seq(Request)
       /\ program.may \in Chance
       /\ \A keys \in program.may.offers : Len(keys) <= 2
  /\ {MaxPlays, MaxRows, OwnerLimit, UserLimit, PlayLimit, HandleLimit, SessionRows, ProfileRows,
      RowLimit, MaxChanges} \subseteq Nat \ {0}

VARIABLES
  play,      \* play session -> the entry
  entries,   \* play session -> its place in registry.entries, the least recently seen being
             \* the first; 0 if it is not there
  call,      \* call -> where it is
  row,       \* delivery -> the playback session behind it, and what it was opened for
  cleanup,   \* the deliveries the registry owns and the closes it still owes
  revoked,   \* revokedSessions
  loggedOut, \* sessions whose login is revoked
  may,       \* what the environment may still do
  lost,      \* deliveries given up: retried for too long, or never undone
  stopped    \* play sessions whose Stopped event was stored

vars == <<refs, play, entries, call, row, cleanup, revoked, loggedOut, may, lost, stopped>>

-----------------------------------------------------------------------------
Media == 1..2   \* the first has the id of the item, in every play session of it
Plays == 1..MaxPlays
Handles == 1..MaxRows
Nobody == "nobody"

Source == [key : Keys, ref : 0..MaxRefs, handle : 0..MaxRows, revision : Nat,
           start : 0..1, opening : Calls \cup {Nobody}]
NoSource == [key |-> NoKey, ref |-> 0, handle |-> 0, revision |-> 0, start |-> 0, opening |-> Nobody]

Play == [session : Sessions, capabilities : Capabilities, preference : 0..2, revision : Nat,
         live : BOOLEAN, pinned : BOOLEAN, source : [Media -> Source], lease : Calls \cup {Nobody}]

Row == [at : {"none", "open", "closed"}, by : Sessions, ref : 0..MaxRefs,
        capabilities : Capabilities, preference : 0..2, start : 0..1]

NewPlay == [session |-> CHOOSE s \in Sessions : TRUE, capabilities |-> CHOOSE x \in Capabilities : TRUE,
            preference |-> 0, revision |-> 0, live |-> FALSE, pinned |-> FALSE,
            source |-> [m \in Media |-> NoSource], lease |-> Nobody]

NoRequest == [kind |-> "none", session |-> CHOOSE s \in Sessions : TRUE,
              capabilities |-> CHOOSE x \in Capabilities : TRUE, preference |-> 0, start |-> 0]

\* request: what the client asks.  play, media: the binding it works on.  options: the streams
\* found for it, their references pinned by the call.  left: the candidates not yet tried.
\* input: what Open was called with, its result in handle and error.  Of what the call removed:
\* stale play sessions to detach, references to unpin, deliveries to close, and the references
\* a binding had before.
Idle(todo) ==
  [stage |-> "idle", todo |-> todo, request |-> NoRequest, play |-> 0, media |-> 0,
   options |-> <<>>, registered |-> FALSE, left |-> {}, on |-> Nobody, input |-> NoSource,
   revision |-> 0, handle |-> 0, error |-> "", changes |-> 0,
   stale |-> {}, unpin |-> {}, drop |-> {}, old |-> {}, next |-> "idle"]

Init ==
  /\ InitRefs
  /\ play = [p \in Plays |-> NewPlay] /\ entries = [p \in Plays |-> 0]
  /\ row = [h \in Handles |-> [at |-> "none", by |-> NewPlay.session, ref |-> 0,
                               capabilities |-> NewPlay.capabilities, preference |-> 0, start |-> 0]]
  /\ cleanup = [pending |-> [h \in Handles |-> "none"], owned |-> {}, reserved |-> 0,
                retiring |-> FALSE, abandoned |-> FALSE, over |-> FALSE]
  /\ revoked = {} /\ loggedOut = {} /\ lost = {} /\ stopped = {}
  /\ \E program \in Programs :
       /\ call = [c \in Calls |-> Idle(program.calls[c])]
       /\ may = program.may

-----------------------------------------------------------------------------
(* The registry.                                                           *)

Listed == {p \in Plays : entries[p] # 0}
NewPlays == {p \in Plays : play[p].revision = 0}
ReferencesOf(p) == {play[p].source[m].ref : m \in Media} \ {0}
HandlesOf(p) == {play[p].source[m].handle : m \in Media} \ {0}
Has(p, m) == m \in Media /\ play[p].source[m].ref # 0
Bindings(p) == {m \in Media : Has(p, m)}
Owns(c, p) == play[p].session = call[c].request.session

\* removeExpiredLocked: the first thing under the lock, and what it leaves.
Expired == {p \in Listed : ~play[p].live}
Current == Listed \ Expired
Without(ps) ==
  LET left == Listed \ ps IN
  [p \in Plays |-> IF p \in left THEN Cardinality({q \in left : entries[q] <= entries[p]}) ELSE 0]
Touched(p, ps) ==
  [Without(ps \cup {p}) EXCEPT ![p] = Cardinality(Listed \ (ps \cup {p})) + 1]

\* After the lock: what was removed is detached, released and closed before the request goes on.
Onward(c, next, stale) ==
  call' = [call EXCEPT ![c] = [next EXCEPT
    !.next = next.stage, !.stale = stale,
    !.stage = IF stale # {} THEN "detach" ELSE IF next.unpin # {} THEN "release"
              ELSE IF next.drop \cup next.old # {} THEN "close" ELSE next.stage]]

At(c, stage) == [call[c] EXCEPT !.stage = stage]
Goes(c, next) == call' = [call EXCEPT ![c] = next]

\* detachEntries: what removed entries pin and hold passes to the call.
Detach(c) ==
  LET gone == call[c].stale IN
  /\ call[c].stage = "detach"
  /\ play' = [p \in Plays |-> IF p \notin gone THEN play[p] ELSE
       [play[p] EXCEPT !.pinned = FALSE, !.source = [m \in Media |-> [@[m] EXCEPT !.handle = 0]]]]
  /\ Goes(c, [At(c, "release") EXCEPT !.stale = {},
       !.unpin = @ \cup UNION {IF play[p].pinned THEN ReferencesOf(p) ELSE {} : p \in gone},
       !.drop = @ \cup UNION {HandlesOf(p) : p \in gone}])
  /\ UNCHANGED <<refs, entries, row, cleanup, revoked, loggedOut, may, lost, stopped>>

\* UnpinSourceReferences on them.
Release(c) ==
  /\ call[c].stage = "release"
  /\ refs' = Unpinned(call[c].unpin, refs)
  /\ Goes(c, [At(c, "close") EXCEPT !.unpin = {}])
  /\ UNCHANGED <<play, entries, row, cleanup, revoked, loggedOut, may, lost, stopped>>

\* claimCleanup with what the call has to close, and whatever else is due.
Claimed(drop, force) ==
  [cleanup EXCEPT !.owned = @ \cup drop,
     !.pending = [h \in Handles |-> IF h \in drop \/ @[h] = "due" \/ (force /\ @[h] = "wait")
                                    THEN "claimed" ELSE @[h]]]

Close(c) ==
  /\ call[c].stage = "close"
  /\ cleanup' = Claimed(call[c].drop, call[c].request.kind = "retire")
  /\ refs' = Unpinned(call[c].old, refs)
  /\ Goes(c, [At(c, call[c].next) EXCEPT !.drop = {}, !.old = {}])
  /\ UNCHANGED <<play, entries, row, revoked, loggedOut, may, lost, stopped>>

-----------------------------------------------------------------------------
(* A request begins; requests of a login that is revoked are refused, and  *)
(* new ones reach the registry that replaces a retiring one.               *)

Begin(c) ==
  /\ call[c].stage = "idle" /\ call[c].todo # <<>>
  /\ LET r == Head(call[c].todo) IN
     /\ r.session \notin loggedOut /\ ~cleanup.retiring
     /\ \E m \in r.media, p \in IF r.kind = "reap" THEN {0} ELSE r.plays :
          Goes(c, [Idle(Tail(call[c].todo)) EXCEPT
                    !.request = [kind |-> r.kind, session |-> r.session, capabilities |-> r.capabilities,
                                 preference |-> r.preference, start |-> r.start],
                    !.play = p, !.media = m,
                    !.stage = CASE r.kind = "info" -> IF m = 0 THEN "options" ELSE "cached"
                                [] r.kind = "stream" -> "lookup"
                                [] r.kind \in {"progress", "stop"} -> "claim"
                                [] OTHER -> r.kind])
  /\ UNCHANGED <<refs, play, entries, row, cleanup, revoked, loggedOut, may, lost, stopped>>

Ended(c) == Idle(call[c].todo)

-----------------------------------------------------------------------------
(* handlePlaybackInfo: reuse what a media source id is bound to, or        *)
(* register what the providers offer now, and open it.                     *)

Fresh(c) == {call[c].options[i].key : i \in DOMAIN call[c].options}
FreshReference(c, k) ==
  LET i == CHOOSE i \in DOMAIN call[c].options : call[c].options[i].key = k IN call[c].options[i].ref
OptionReferences(c) == {call[c].options[i].ref : i \in DOMAIN call[c].options}

\* The id of the first source is the item's; the others name one play session.
Bound(c) ==
  {p \in Current : Owns(c, p) /\ Has(p, call[c].media) /\ (call[c].media = 1 \/ p = call[c].play)}
Changed(c, p) == play[p].capabilities # call[c].request.capabilities

\* Who was registered last.
Newest(ps) == CHOOSE p \in ps : \A q \in ps : q <= p

\* reuseCandidate before any provider was asked: only with the capabilities of the entry.
ReuseCached(c) ==
  LET same == {p \in Bound(c) : ~Changed(c, p)} IN
  /\ call[c].stage = "cached"
  /\ IF same = {} THEN entries' = Without(Expired) /\ Onward(c, At(c, "options"), Expired)
     ELSE /\ entries' = Touched(Newest(same), Expired)
          /\ Onward(c, [At(c, "prefer") EXCEPT !.play = Newest(same), 
                                   !.left = Bindings(Newest(same)) \ {call[c].media}], Expired)
  /\ UNCHANGED <<refs, play, row, cleanup, revoked, loggedOut, may, lost, stopped>>

\* SourcesAndPin: a reference for every stream, all pinned by this call; if its transaction does
\* not commit they stay in the store without a pin.
FetchOptions(c) ==
  /\ call[c].stage = "options"
  /\ \/ \E keys \in may.offers :
          /\ PutAll(call[c].request.session, Len(keys), 1) /\ UNCHANGED may
          /\ Goes(c, [At(c, IF call[c].media = 0 THEN "pin" ELSE "reuse") EXCEPT
                       !.options = [i \in DOMAIN keys |-> [key |-> keys[i], ref |-> Drawn(i)]]])
     \/ \E keys \in may.offers :
          /\ may.failures > 0 /\ may' = [may EXCEPT !.failures = @ - 1]
          /\ PutAll(call[c].request.session, Len(keys), 0) /\ Goes(c, Ended(c))
     \/ UNCHANGED <<refs, may>> /\ Goes(c, Ended(c))
  /\ UNCHANGED <<play, entries, row, cleanup, revoked, loggedOut, lost, stopped>>

\* candidateSelectionMatches and singletonCandidateSelectionMatches.
Identified(c, p) ==
  /\ play[p].source[call[c].media].key \in Fresh(c)
  /\ \A m \in Bindings(p) : play[p].source[m].key # NoKey
  /\ \A m, n \in Bindings(p) : play[p].source[m].key = play[p].source[n].key => m = n
Singleton(c, p) ==
  /\ Bindings(p) = {call[c].media}
  /\ play[p].source[call[c].media].key = NoKey /\ Fresh(c) = {NoKey}

\* Every option can be told from the others; one without an identity only if it is alone.
UniqueFresh(c) ==
  /\ \A i, j \in DOMAIN call[c].options : call[c].options[i].key = call[c].options[j].key => i = j
  /\ NoKey \in Fresh(c) => Len(call[c].options) = 1

\* The entries whose binding may pass to the new options, and the one chosen.
Rebindable(c) ==
  {p \in Bound(c) : Changed(c, p) => UniqueFresh(c) /\ (Identified(c, p) \/ Singleton(c, p))}
Chosen(c) ==
  LET p == Newest(Rebindable(c))
      single == {q \in Rebindable(c) : Changed(c, q) /\ ~Identified(c, q)}
  IN IF Rebindable(c) = {} \/ (p \in single /\ Cardinality(single) > 1) THEN 0 ELSE p

\* A source passes to the fresh reference of the same stream, or is retired.
Transferred(c, source) ==
  IF source.ref # 0 /\ source.key \in Fresh(c)
  THEN [source EXCEPT !.ref = FreshReference(c, source.key)] ELSE NoSource

\* Slip: the revision stays, so that an opening under way is taken for current.
SlipRebound(c, p) ==
  [play[p] EXCEPT !.capabilities = call[c].request.capabilities,
     !.source = [m \in Media |-> Transferred(c, play[p].source[m])]]

\* The entry with the new references.
Rebound(c, p) ==
  [play[p] EXCEPT !.capabilities = call[c].request.capabilities, !.revision = @ + 1,
     !.source = [m \in Media |-> Transferred(c, play[p].source[m])]]
Matched(c, p) == {m \in Bindings(p) : play[p].source[m].key \in Fresh(c)}
Kept(c, p) == {FreshReference(c, play[p].source[m].key) : m \in Matched(c, p)}

\* Slip: the deliveries of retired sources are forgotten.
SlipRetired(c, p) == {}

\* The deliveries of the sources that were not matched.
Retired(c, p) == {play[p].source[m].handle : m \in Bindings(p) \ Matched(c, p)} \ {0}

\* reuseCandidate with the options.
Reuse(c) ==
  LET p == Chosen(c) IN
  /\ call[c].stage = "reuse"
  /\ \/ /\ p # 0 /\ ~Changed(c, p)
        /\ entries' = Touched(p, Expired) /\ UNCHANGED <<play, refs>>
        /\ Onward(c, [At(c, "prefer") EXCEPT !.play = p, !.left = Bindings(p) \ {call[c].media}], Expired)
     \/ /\ p # 0 /\ Changed(c, p) /\ CanPin(Kept(c, p))
        /\ play' = [play EXCEPT ![p] = Rebound(c, p)]
        /\ refs' = Pinned(Kept(c, p), refs)
        /\ entries' = Touched(p, Expired)
        /\ Onward(c, [At(c, "prefer") EXCEPT !.play = p, !.left = Matched(c, p) \ {call[c].media},
                        !.drop = Retired(c, p), !.old = ReferencesOf(p)], Expired)
     \/ /\ p # 0 => Changed(c, p) /\ ~CanPin(Kept(c, p))
        /\ entries' = Without(Expired) /\ UNCHANGED <<play, refs>>
        /\ Onward(c, At(c, "missed"), Expired)
  /\ UNCHANGED <<row, cleanup, revoked, loggedOut, may, lost, stopped>>

\* candidateExists: an id that is bound already, or names another play session, is not registered.
Missed(c) ==
  /\ call[c].stage = "missed"
  /\ entries' = Without(Expired)
  /\ Onward(c, At(c, IF call[c].media # 1 \/ Bound(c) # {} THEN "finish" ELSE "pin"), Expired)
  /\ UNCHANGED <<refs, play, row, cleanup, revoked, loggedOut, may, lost, stopped>>

\* register pins the references once more, for the entry; then, under the lock, evicts.
PinOptions(c) ==
  /\ call[c].stage = "pin"
  /\ IF CanPin(OptionReferences(c))
     THEN refs' = Pinned(OptionReferences(c), refs) /\ Goes(c, At(c, "register"))
     ELSE UNCHANGED refs /\ Goes(c, At(c, "finish"))
  /\ UNCHANGED <<play, entries, row, cleanup, revoked, loggedOut, may, lost, stopped>>

\* The least recently seen of those that have to go for n more to fit.
Evicted(ps, limit) ==
  {p \in ps : Cardinality({q \in ps : entries[q] < entries[p]}) < Over(Cardinality(ps) + 1, limit)}

\* The victims of the limit of the owner, and then of the user.
PlaysOfOwner(s) == {p \in Current : OwnerOf[play[p].session] = OwnerOf[s]}
PlaysOfUser(s) == {p \in Current : UserOf[play[p].session] = UserOf[s]}
EvictedFor(s) ==
  LET owner == Evicted(PlaysOfOwner(s), OwnerLimit) IN owner \cup Evicted(PlaysOfUser(s) \ owner, UserLimit)

\* At the limit of all play sessions one more of the same user goes, if there is one.
Crowded(s) == Cardinality(Current \ EvictedFor(s)) >= PlayLimit
Spare(s) == PlaysOfUser(s) \ EvictedFor(s)
EvictedAtLimit(s) ==
  EvictedFor(s) \cup (IF Crowded(s) THEN Evicted(Spare(s), Cardinality(Spare(s))) ELSE {})

NewEntry(c) ==
  [NewPlay EXCEPT !.session = call[c].request.session, !.capabilities = call[c].request.capabilities,
     !.revision = 1, !.live = TRUE, !.pinned = TRUE,
     !.source = [m \in Media |-> IF m \notin DOMAIN call[c].options THEN NoSource ELSE
       [NoSource EXCEPT !.key = call[c].options[m].key, !.ref = call[c].options[m].ref]]]

\* A session revoked since the request began is refused, and so is one too many.
Refused(c) ==
  LET s == call[c].request.session IN s \in revoked \/ (Crowded(s) /\ Spare(s) = {})

Register(c) ==
  LET s == call[c].request.session  p == CHOOSE p \in NewPlays : \A q \in NewPlays : p <= q IN
  /\ call[c].stage = "register" /\ NewPlays # {}
  /\ IF Refused(c)
     THEN LET out == Expired \cup (IF s \in revoked THEN {} ELSE EvictedFor(s)) IN
          /\ entries' = Without(out) /\ UNCHANGED play
          /\ Onward(c, [At(c, "finish") EXCEPT !.unpin = OptionReferences(c)], out)
     ELSE LET out == Expired \cup EvictedAtLimit(s) IN
          /\ play' = [play EXCEPT ![p] = NewEntry(c)]
          /\ entries' = Touched(p, out)
          /\ Onward(c, [At(c, "prefer") EXCEPT !.play = p, !.registered = TRUE, !.media = 1,
                          !.left = DOMAIN call[c].options \ {1}], out)
  /\ UNCHANGED <<refs, row, cleanup, revoked, loggedOut, may, lost, stopped>>

\* The entry is still there for this session.
Alive(c, p) == p \in Current /\ Owns(c, p)

\* setPlaybackPreferences: a change outdates what was opened before.
Prefer(c) ==
  LET p == call[c].play  preference == call[c].request.preference IN
  /\ call[c].stage = "prefer"
  /\ IF Alive(c, p)
     THEN /\ play' = IF play[p].preference = preference THEN play
                     ELSE [play EXCEPT ![p].preference = preference, ![p].revision = @ + 1]
          /\ entries' = Touched(p, Expired)
          /\ Onward(c, At(c, "lookup"), Expired)
     ELSE UNCHANGED play /\ entries' = Without(Expired) /\ Onward(c, At(c, "finish"), Expired)
  /\ UNCHANGED <<refs, row, cleanup, revoked, loggedOut, may, lost, stopped>>

\* The references that kept the options alive meanwhile are released; the request is over.
Finish(c) ==
  /\ call[c].stage = "finish"
  /\ refs' = Unpinned(OptionReferences(c), refs)
  /\ Goes(c, Ended(c))
  /\ UNCHANGED <<play, entries, row, cleanup, revoked, loggedOut, may, lost, stopped>>

-----------------------------------------------------------------------------
(* openAndTouch: the delivery of a binding, opened once for all who ask.   *)

SourceAt(c) == play[call[c].play].source[call[c].media]

\* An attempt failed: the next candidate, if the error allows it, or the end of the request.
Failed(c, error) ==
  LET next == [call[c] EXCEPT !.input = NoSource, !.handle = 0, !.error = "", !.on = Nobody] IN
  IF error = "retryable" /\ call[c].left # {}
  THEN LET m == CHOOSE m \in call[c].left : \A n \in call[c].left : m <= n IN
       [next EXCEPT !.stage = "lookup", !.media = m, !.left = @ \ {m}, !.changes = 0]
  ELSE [next EXCEPT !.stage = IF call[c].registered THEN "abandon" ELSE "finish"]

Opened(c) ==
  [call[c] EXCEPT !.stage = IF call[c].request.kind = "stream" THEN "serve" ELSE "finish",
     !.input = NoSource, !.on = Nobody, !.handle = SourceAt(c).handle]

\* lookupLocked with an id: pinned references keep a source usable that was not opened yet.
Finds(c, p, m) ==
  /\ p \in Plays /\ Alive(c, p)
  /\ Has(p, m) /\ (play[p].source[m].handle # 0 \/ play[p].pinned)

\* What was opened for this start and has not been outdated since.
Usable(c) ==
  /\ SourceAt(c).handle # 0
  /\ SourceAt(c).start = call[c].request.start /\ SourceAt(c).revision = play[call[c].play].revision

Reservable == ~cleanup.retiring /\ Cardinality(cleanup.owned) + cleanup.reserved < HandleLimit

Lookup(c) ==
  LET p == call[c].play  m == call[c].media IN
  /\ call[c].stage = "lookup"
  /\ \/ /\ ~Finds(c, p, m)
        /\ entries' = Without(Expired) /\ Onward(c, Failed(c, "final"), Expired)
        /\ UNCHANGED <<play, cleanup>>
     \/ /\ Finds(c, p, m) /\ Usable(c)
        /\ entries' = Touched(p, Expired) /\ Onward(c, Opened(c), Expired)
        /\ UNCHANGED <<play, cleanup>>
     \/ /\ Finds(c, p, m) /\ ~Usable(c) /\ SourceAt(c).opening # Nobody
        /\ entries' = Without(Expired)
        /\ Onward(c, [At(c, "wait") EXCEPT !.on = SourceAt(c).opening], Expired)
        /\ UNCHANGED <<play, cleanup>>
     \/ /\ Finds(c, p, m) /\ ~Usable(c) /\ SourceAt(c).opening = Nobody /\ ~Reservable
        /\ entries' = Without(Expired) /\ Onward(c, Failed(c, "final"), Expired)
        /\ UNCHANGED <<play, cleanup>>
     \/ /\ Finds(c, p, m) /\ ~Usable(c) /\ SourceAt(c).opening = Nobody /\ Reservable
        /\ play' = [play EXCEPT ![p].source[m].opening = c]
        /\ cleanup' = [cleanup EXCEPT !.reserved = @ + 1]
        /\ entries' = Without(Expired)
        /\ Onward(c, [At(c, "resolve") EXCEPT !.input = SourceAt(c), !.revision = play[p].revision,
                        !.on = c, !.request.capabilities = play[p].capabilities,
                        !.request.preference = play[p].preference], Expired)
  /\ UNCHANGED <<refs, row, revoked, loggedOut, may, lost, stopped>>

\* The request of somebody who waits for an opening, or for an event before its own, goes away.
GiveUp(c) ==
  /\ call[c].stage \in {"wait", "lease"}
  /\ Goes(c, IF call[c].stage = "wait" THEN Failed(c, "final") ELSE Ended(c))
  /\ UNCHANGED <<refs, play, entries, row, cleanup, revoked, loggedOut, may, lost, stopped>>

\* resolve: the reference must be there, and its provider answer and still offer it.
Resolve(c) ==
  LET r == call[c].input.ref
      Fails(error) == Goes(c, [At(c, "bind") EXCEPT !.error = error])
  IN
  /\ call[c].stage = "resolve"
  /\ \/ r \notin Stored /\ UNCHANGED refs /\ Fails("retryable")
     \/ r \in Stored /\ may.withdraw /\ Withdraw({r}) /\ Fails("retryable")
     \/ r \in Stored /\ may.withdraw /\ UNCHANGED refs /\ \E error \in {"retryable", "final"} : Fails(error)
     \/ r \in Stored /\ UNCHANGED refs /\ Goes(c, At(c, "create"))
  /\ UNCHANGED <<play, entries, row, cleanup, revoked, loggedOut, may, lost, stopped>>

OpenRows == {h \in Handles : row[h].at = "open"}

\* The limits of the login, of the profile and of all.
Admits(s) ==
  /\ Cardinality({h \in OpenRows : row[h].by = s}) < SessionRows
  /\ Cardinality({h \in OpenRows : ProfileOf[row[h].by] = ProfileOf[s]}) < ProfileRows
  /\ Cardinality(OpenRows) < RowLimit

\* createSession: counted and inserted under one advisory lock, for a login that is still good.
CreateSession(c) ==
  LET new == {h \in Handles : row[h].at = "none"}  h == CHOOSE h \in new : \A g \in new : h <= g
      s == call[c].request.session
  IN
  /\ call[c].stage = "create"
  /\ IF s \in loggedOut \/ ~Admits(s)
     THEN /\ UNCHANGED row
          /\ Goes(c, [At(c, "bind") EXCEPT !.error = IF s \in loggedOut THEN "retryable" ELSE "final"])
     ELSE /\ new # {}
          /\ row' = [row EXCEPT ![h] = [at |-> "open", by |-> s, ref |-> call[c].input.ref,
                       capabilities |-> call[c].request.capabilities,
                       preference |-> call[c].request.preference, start |-> call[c].request.start]]
          /\ Goes(c, [At(c, "start") EXCEPT !.handle = h])
  /\ UNCHANGED <<refs, play, entries, cleanup, revoked, loggedOut, may, lost, stopped>>

\* The encoder starts and the profile is authorised once more, or the row is deleted again,
\* which fails if the request is gone.
StartSession(c) ==
  LET h == call[c].handle IN
  /\ call[c].stage = "start"
  /\ \/ /\ Goes(c, At(c, "bind")) /\ UNCHANGED <<row, may, lost>>
     \/ /\ may.failures > 0 /\ may' = [may EXCEPT !.failures = @ - 1]
        /\ \/ row' = [row EXCEPT ![h].at = "closed"] /\ UNCHANGED lost
           \/ lost' = lost \cup {h} /\ UNCHANGED row
        /\ \E error \in {"retryable", "final"} : Goes(c, [At(c, "bind") EXCEPT !.handle = 0, !.error = error])
  /\ UNCHANGED <<refs, play, entries, cleanup, revoked, loggedOut, stopped>>

\* Slip: a reservation that was given up meanwhile is taken back once more.
SlipUnreserved == cleanup.reserved - 1

Unreserved == IF cleanup.reserved > 0 THEN cleanup.reserved - 1 ELSE 0

\* bindCleanupHandle: the reservation becomes a delivery the registry owns.
Bind(c) ==
  /\ call[c].stage = "bind"
  /\ cleanup' = [cleanup EXCEPT !.reserved = Unreserved,
                                !.owned = @ \cup ({call[c].handle} \ {0})]
  /\ Goes(c, At(c, "install"))
  /\ UNCHANGED <<refs, play, entries, row, revoked, loggedOut, may, lost, stopped>>

\* The opening the call made is still the one of the binding, and the binding what it opened: the
\* capabilities, the key, the descriptor and the expiry the code compares besides change with
\* the revision only.
OpeningCurrent(c) == call[c].play \in Listed /\ SourceAt(c).ref # 0 /\ SourceAt(c).opening = c
BindingCurrent(c) ==
  /\ OpeningCurrent(c)
  /\ play[call[c].play].revision = call[c].revision /\ SourceAt(c).ref = call[c].input.ref

\* Those who waited for the opening look again.
Woken(c, rows) ==
  [d \in Calls |-> IF rows[d].stage = "wait" /\ rows[d].on = c
                   THEN [rows[d] EXCEPT !.stage = "lookup", !.on = Nobody] ELSE rows[d]]

InstalledSource(c) ==
  [SourceAt(c) EXCEPT !.handle = call[c].handle, !.revision = call[c].revision,
                      !.start = call[c].request.start, !.opening = Nobody]

\* How the call goes on when the binding it opened has changed: it tries again, so many
\* times, unless the binding is gone.
Changes(c) ==
  LET error == call[c].error
      next == [call[c] EXCEPT !.changes = @ + 1, !.drop = {call[c].handle} \ {0}, !.error = "",
                              !.handle = 0, !.input = NoSource, !.on = Nobody]
      Fails(kind) == [Failed(c, kind) EXCEPT !.drop = next.drop]
  IN IF call[c].play \notin Listed \/ SourceAt(c).ref = 0
     THEN Fails(IF error = "" THEN "final" ELSE error)
     ELSE IF next.changes >= MaxChanges THEN Fails("final")
     ELSE [next EXCEPT !.stage = "lookup"]

Installs(c, next) ==
  call' = Woken(c, [call EXCEPT ![c] = [next EXCEPT !.next = next.stage,
                      !.stage = IF next.drop = {} THEN next.stage ELSE "close"]])

\* The lock after Open.
Install(c) ==
  LET p == call[c].play  m == call[c].media IN
  /\ call[c].stage = "install"
  /\ \/ /\ BindingCurrent(c) /\ call[c].error = ""
        /\ play' = [play EXCEPT ![p].source[m] = InstalledSource(c)]
        /\ entries' = Touched(p, {})
        /\ Installs(c, [Opened(c) EXCEPT !.handle = call[c].handle, !.drop = {SourceAt(c).handle} \ {0}])
     \/ /\ BindingCurrent(c) /\ call[c].error # ""
        /\ play' = [play EXCEPT ![p].source[m].opening = Nobody]
        /\ UNCHANGED entries /\ Installs(c, Failed(c, call[c].error))
     \/ /\ ~BindingCurrent(c)
        /\ play' = IF OpeningCurrent(c) THEN [play EXCEPT ![p].source[m].opening = Nobody] ELSE play
        /\ UNCHANGED entries /\ Installs(c, Changes(c))
  /\ UNCHANGED <<refs, row, cleanup, revoked, loggedOut, may, lost, stopped>>

\* Serve: a delivery whose playback session is gone takes its play session down.
Serve(c) ==
  /\ call[c].stage = "serve"
  /\ Goes(c, [At(c, IF call[c].handle \in OpenRows THEN "finish" ELSE "abandon") EXCEPT !.handle = 0])
  /\ UNCHANGED <<refs, play, entries, row, cleanup, revoked, loggedOut, may, lost, stopped>>

\* close: a play session that was found, expired ones not being removed here.
Removed(c, next, found) ==
  LET p == call[c].play IN
  IF found THEN entries' = Without({p}) /\ Onward(c, next, {p})
  ELSE UNCHANGED entries /\ Goes(c, next)

Abandon(c) ==
  /\ call[c].stage = "abandon"
  /\ Removed(c, At(c, "finish"),
             Finds(c, call[c].play, IF call[c].registered THEN 1 ELSE call[c].media))
  /\ UNCHANGED <<refs, play, row, cleanup, revoked, loggedOut, may, lost, stopped>>

-----------------------------------------------------------------------------
(* handlePlaybackEvent: one event of a play session at a time, from its    *)
(* resolution to the end of what it does.                                  *)

\* lookupLocked: without an id the source is the only one that was opened.
Delivered(p) == {m \in Media : play[p].source[m].handle # 0}
Resolved(c, p) ==
  IF call[c].media # 0 THEN IF Finds(c, p, call[c].media) THEN {call[c].media} ELSE {}
  ELSE IF p \in Plays /\ Alive(c, p) /\ Cardinality(Delivered(p)) = 1 THEN Delivered(p) ELSE {}

\* The play session the event names or, unless it is Stopped, the only one it can mean.
Meant(c) ==
  LET all == {p \in Current : Resolved(c, p) # {}} IN
  IF Resolved(c, call[c].play) # {} THEN {call[c].play}
  ELSE IF call[c].request.kind = "progress" /\ Cardinality(all) = 1 THEN all ELSE {}

ClaimEvent(c) ==
  /\ call[c].stage = "claim"
  /\ entries' = Without(Expired)
  /\ IF Meant(c) = {} THEN Onward(c, At(c, "finish"), Expired)
     ELSE \E p \in Meant(c) : \E m \in Resolved(c, p) :
            Onward(c, [At(c, "lease") EXCEPT !.play = p, !.media = m], Expired)
  /\ UNCHANGED <<refs, play, row, cleanup, revoked, loggedOut, may, lost, stopped>>

Lease(c) ==
  /\ call[c].stage = "lease" /\ play[call[c].play].lease = Nobody
  /\ play' = [play EXCEPT ![call[c].play].lease = c]
  /\ Goes(c, At(c, "recheck"))
  /\ UNCHANGED <<refs, entries, row, cleanup, revoked, loggedOut, may, lost, stopped>>

\* Slip: the resolution from before the wait is trusted.
SlipStillMeant(c) == Owns(c, call[c].play)

\* While it waited, the event before may have ended the play session.
StillMeant(c) == Finds(c, call[c].play, call[c].media)

Recheck(c) ==
  /\ call[c].stage = "recheck"
  /\ IF StillMeant(c)
     THEN entries' = Touched(call[c].play, Expired) /\ Onward(c, At(c, "apply"), Expired)
     ELSE entries' = Without(Expired) /\ Onward(c, At(c, "free"), Expired)
  /\ UNCHANGED <<refs, play, row, cleanup, revoked, loggedOut, may, lost, stopped>>

\* The progress is stored, or refused.
Apply(c) ==
  /\ call[c].stage = "apply"
  /\ \/ /\ call[c].request.kind = "stop"
        /\ stopped' = stopped \cup {<<call[c].play, call[c].media>>} /\ Goes(c, At(c, "end"))
     \/ UNCHANGED stopped /\ Goes(c, At(c, "free"))
  /\ UNCHANGED <<refs, play, entries, row, cleanup, revoked, loggedOut, may, lost>>

\* close: a Stopped event ends the play session.
EndStopped(c) ==
  /\ call[c].stage = "end"
  /\ Removed(c, At(c, "free"), StillMeant(c))
  /\ UNCHANGED <<refs, play, row, cleanup, revoked, loggedOut, may, lost, stopped>>

ReleaseLease(c) ==
  /\ call[c].stage = "free"
  /\ play' = [play EXCEPT ![call[c].play].lease = Nobody]
  /\ Goes(c, Ended(c))
  /\ UNCHANGED <<refs, entries, row, cleanup, revoked, loggedOut, may, lost, stopped>>

-----------------------------------------------------------------------------
(* What ends play sessions of others: logout, the reaper, a reset of the   *)
(* cache, and the end of this generation of the registry.                  *)

\* The login is revoked in the database first, and then the registry told.
Logout(c) ==
  /\ call[c].stage = "logout"
  /\ loggedOut' = loggedOut \cup {call[c].request.session}
  /\ Goes(c, At(c, "forget"))
  /\ UNCHANGED <<refs, play, entries, row, cleanup, revoked, may, lost, stopped>>

\* closeSession and closeCompatibilitySessions, which do not look for expired entries.
CloseSession(c) ==
  LET own == {p \in Listed : Owns(c, p)} IN
  /\ call[c].stage = "forget"
  /\ revoked' = revoked \cup {call[c].request.session}
  /\ entries' = Without(own) /\ Onward(c, At(c, "finish"), own)
  /\ UNCHANGED <<refs, play, row, cleanup, loggedOut, may, lost, stopped>>

Reap(c) ==
  /\ call[c].stage = "reap"
  /\ entries' = Without(Expired) /\ Onward(c, At(c, "finish"), Expired)
  /\ UNCHANGED <<refs, play, row, cleanup, revoked, loggedOut, may, lost, stopped>>

\* ResetCache: the playback sessions, and later the references.
ResetCache(c) ==
  /\ \/ /\ call[c].stage = "reset"
        /\ row' = [h \in Handles |-> [row[h] EXCEPT !.at = IF @ = "open" THEN "closed" ELSE @]]
        /\ UNCHANGED refs /\ Goes(c, At(c, "clear"))
     \/ /\ call[c].stage = "clear"
        /\ Withdraw(Stored) /\ UNCHANGED row /\ Goes(c, Ended(c))
  /\ UNCHANGED <<play, entries, cleanup, revoked, loggedOut, may, lost, stopped>>

\* run ends with closeAll: nothing is opened any more, and every delivery is to be closed.
Retire(c) ==
  /\ call[c].stage = "retire"
  /\ cleanup' = [cleanup EXCEPT !.retiring = TRUE] /\ Goes(c, At(c, "closeAll"))
  /\ UNCHANGED <<refs, play, entries, row, revoked, loggedOut, may, lost, stopped>>

CloseAll(c) ==
  /\ call[c].stage = "closeAll"
  /\ entries' = Without(Listed) /\ Goes(c, [At(c, "detach") EXCEPT !.stale = Listed, !.next = "drain"])
  /\ UNCHANGED <<refs, play, row, cleanup, revoked, loggedOut, may, lost, stopped>>

Waiting == {h \in Handles : cleanup.pending[h] \in {"wait", "due"}}
Outstanding ==
  (\E h \in Handles : cleanup.pending[h] # "none") \/ cleanup.owned # {} \/ cleanup.reserved > 0

\* drainCleanup: the generation stays until it owns nothing, or for as long as retries last.
\* Closes that are under way when it gives up go on by themselves.
Drain(c) ==
  /\ call[c].stage = "drain"
  /\ \/ ~Outstanding /\ cleanup' = [cleanup EXCEPT !.over = TRUE] /\ UNCHANGED lost
     \/ /\ Outstanding /\ may.lapse
        /\ cleanup' = [cleanup EXCEPT !.over = TRUE, !.abandoned = TRUE, !.owned = {}, !.reserved = 0,
             !.pending = [h \in Handles |-> IF h \in Waiting THEN "none" ELSE @[h]]]
        /\ lost' = lost \cup Waiting
  /\ Goes(c, Ended(c))
  /\ UNCHANGED <<refs, play, entries, row, revoked, loggedOut, may, stopped>>

-----------------------------------------------------------------------------
(* Deliveries are closed by workers that try again, later and later, until *)
(* a close succeeds or ten minutes have passed.                            *)

Settled(h) == [cleanup EXCEPT !.pending[h] = "none", !.owned = @ \ {h}]

\* Slip: a close is refused once the login is revoked.
SlipCloseDelivery(h) ==
  /\ cleanup.pending[h] = "claimed"
  /\ IF row[h].by \in loggedOut
     THEN cleanup' = [cleanup EXCEPT !.pending[h] = "wait"] /\ UNCHANGED row
     ELSE cleanup' = Settled(h) /\ row' = [row EXCEPT ![h].at = "closed"]
  /\ UNCHANGED <<refs, play, entries, call, revoked, loggedOut, may, lost, stopped>>

\* closeDeliverySession and finishCleanup, which ask for no login; a playback session
\* that is gone already is no error.
CloseDelivery(h) ==
  /\ cleanup.pending[h] = "claimed"
  /\ \/ row' = [row EXCEPT ![h].at = "closed"] /\ cleanup' = Settled(h) /\ UNCHANGED <<may, lost>>
     \/ /\ may.failures > 0 /\ may' = [may EXCEPT !.failures = @ - 1] /\ UNCHANGED row
        /\ IF cleanup.abandoned THEN cleanup' = Settled(h) /\ lost' = lost \cup {h}
           ELSE cleanup' = [cleanup EXCEPT !.pending[h] = "wait"] /\ UNCHANGED lost
  /\ UNCHANGED <<refs, play, entries, call, revoked, loggedOut, stopped>>

RetryDue(h) ==
  /\ cleanup.pending[h] = "wait" /\ cleanup' = [cleanup EXCEPT !.pending[h] = "due"]
  /\ UNCHANGED <<refs, play, entries, call, row, revoked, loggedOut, may, lost, stopped>>

\* After ten minutes nobody tries again; a close that is under way goes on by itself.
Lapse(h) ==
  /\ may.lapse /\ cleanup.pending[h] # "none"
  /\ cleanup' = Settled(h) /\ lost' = lost \cup {h}
  /\ UNCHANGED <<refs, play, entries, call, row, revoked, loggedOut, may, stopped>>

\* The goroutine of the registry, while it runs.
ClaimDue ==
  /\ \E h \in Handles : cleanup.pending[h] = "due"
  /\ ~cleanup.over /\ cleanup' = Claimed({}, FALSE)
  /\ UNCHANGED <<refs, play, entries, call, row, revoked, loggedOut, may, lost, stopped>>

-----------------------------------------------------------------------------
(* Time passes: the absolute and the idle limit of a play session, of an   *)
(* unpinned reference, and of a playback session nobody reads.  A playback *)
(* session past its limits is neither read nor counted any more, whenever  *)
(* cleanupInactiveSessions or the next createSession deletes it.           *)

Expire(p) ==
  /\ may.expire /\ p \in Current /\ play' = [play EXCEPT ![p].live = FALSE]
  /\ UNCHANGED <<refs, entries, call, row, cleanup, revoked, loggedOut, may, lost, stopped>>

ReferenceExpires(r) ==
  /\ may.expire /\ ExpireReference(r)
  /\ UNCHANGED <<play, entries, call, row, cleanup, revoked, loggedOut, may, lost, stopped>>

\* One that was given up ends so too, or by a close that was still under way.
RowIdle(h) ==
  /\ may.expire \/ h \in lost
  /\ h \in OpenRows /\ row' = [row EXCEPT ![h].at = "closed"]
  /\ UNCHANGED <<refs, play, entries, call, cleanup, revoked, loggedOut, may, lost, stopped>>

-----------------------------------------------------------------------------
Step(c) ==
  \/ Detach(c) \/ Release(c) \/ Close(c) \/ Finish(c)
  \/ ReuseCached(c) \/ FetchOptions(c) \/ Reuse(c) \/ Missed(c) \/ PinOptions(c) \/ Register(c) \/ Prefer(c)
  \/ Lookup(c) \/ Resolve(c) \/ CreateSession(c) \/ StartSession(c) \/ Bind(c) \/ Install(c)
  \/ Serve(c) \/ Abandon(c)
  \/ ClaimEvent(c) \/ Lease(c) \/ Recheck(c) \/ Apply(c) \/ EndStopped(c) \/ ReleaseLease(c)
  \/ Logout(c) \/ CloseSession(c) \/ Reap(c) \/ ResetCache(c) \/ Retire(c) \/ CloseAll(c) \/ Drain(c)

\* What the server does by itself: requests that have begun, workers, timers and the goroutine.
Progress ==
  \/ \E c \in Calls : Step(c)
  \/ \E h \in Handles : CloseDelivery(h) \/ RetryDue(h)
  \/ ClaimDue

Next ==
  \/ Progress
  \/ \E c \in Calls : Begin(c) \/ GiveUp(c)
  \/ \E h \in Handles : Lapse(h) \/ RowIdle(h)
  \/ \E p \in Plays : Expire(p)
  \/ \E r \in Refs : ReferenceExpires(r)

\* The server does not stop while it has something to do, and all it has to do is finite; clients
\* and time promise nothing.
Fairness == WF_vars(Progress)

Spec == Init /\ [][Next]_vars /\ Fairness

-----------------------------------------------------------------------------
(* Properties.                                                             *)

\* Where a request can be, and what it carries there.
Cleaning == {"detach", "release", "close"}
Fetched == {"reuse", "missed", "pin", "register", "prefer", "lookup", "wait", "resolve", "create",
            "start", "bind", "install", "serve", "abandon", "finish"}
Handling == {"lease", "recheck", "apply", "end", "free"}
Stages == Cleaning \cup Fetched \cup Handling \cup
  {"idle", "cached", "options", "claim", "logout", "forget", "reap", "reset", "clear",
   "retire", "closeAll", "drain"}

Asked == [kind : {"none", "info", "stream", "progress", "stop", "logout", "reap", "reset", "retire"},
          session : Sessions, capabilities : Capabilities, preference : 0..2, start : 0..1]
Option == [key : Keys, ref : Refs]
CallState ==
  [stage : Stages, todo : Seq(Request), request : Asked, play : 0..MaxPlays, media : 0..2,
   options : Seq(Option), registered : BOOLEAN, left : SUBSET Media, on : Calls \cup {Nobody},
   input : Source, revision : Nat, handle : 0..MaxRows, error : {"", "retryable", "final"},
   changes : Nat, stale : SUBSET Plays, unpin : SUBSET Refs, drop : SUBSET Handles,
   old : SUBSET Refs, next : Stages]

\* Every variable has its type, requests and stored events with them; the reservations of
\* deliveries that are being opened never become negative, not even when the registry gave
\* them up meanwhile.
TypeOK ==
  /\ call \in [Calls -> CallState] /\ may \in Chance /\ stopped \subseteq Plays \X Media
  /\ refs \in [Refs -> Reference] /\ play \in [Plays -> Play] /\ row \in [Handles -> Row]
  /\ entries \in [Plays -> 0..MaxPlays] /\ \A p, q \in Listed : entries[p] = entries[q] => p = q
  /\ cleanup.pending \in [Handles -> {"none", "wait", "due", "claimed"}]
  /\ cleanup.owned \subseteq Handles /\ cleanup.reserved \in Nat
  /\ {cleanup.retiring, cleanup.abandoned, cleanup.over} \subseteq BOOLEAN
  /\ revoked \cup loggedOut \subseteq Sessions /\ lost \subseteq Handles

\* Who relies on a reference: the request that fetched it, the registration that pinned it
\* again, the play session it went to, and those who have to release it.
Holders(r) ==
  {<<"options", c>> : c \in {c \in Calls : r \in OptionReferences(c)}}
  \cup {<<"register", c>> : c \in {c \in Calls : call[c].stage = "register" /\ r \in OptionReferences(c)}}
  \cup {<<"play", p>> : p \in {p \in Plays : play[p].pinned /\ r \in ReferencesOf(p)}}
  \cup {<<"unpin", c>> : c \in {c \in Calls : r \in call[c].unpin}}
  \cup {<<"old", c>> : c \in {c \in Calls : r \in call[c].old}}

\* A stored reference has a pin for each of those who rely on it and no other, and none of those
\* it has is expired or evicted (putAllReserved, pin, unpin against register, reuseCandidate and
\* detachEntries, which pin and release outside each other's locks).
PinsExact ==
  \A r \in Refs :
    LET holders == Holders(r) IN
    /\ refs[r].at = "stored" => refs[r].pins = Cardinality(holders)
    /\ holders # {} => refs[r].at \in {"stored", "withdrawn"}

\* Who will close a delivery: the request that opened it or has to close it, the binding it was
\* installed in, or the queue.
Owners(h) ==
  {<<"call", c>> : c \in {c \in Calls : call[c].handle = h /\ call[c].stage \in {"start", "bind", "install"}}}
  \cup {<<"drop", c>> : c \in {c \in Calls : h \in call[c].drop}}
  \cup {<<"play", p>> : p \in {p \in Plays : h \in HandlesOf(p)}}
  \cup (IF cleanup.pending[h] = "none" THEN {} ELSE {<<"queue", h>>})

\* An open delivery that was not given up has exactly one owner, there are no more of them than
\* the registry may own, and none is left when a generation has drained ("a replacement
\* generation cannot orphan pending work").
DeliveriesOwned ==
  /\ \A h \in OpenRows \ lost : Cardinality(Owners(h)) = 1
  /\ ~cleanup.abandoned =>
       /\ Cardinality(cleanup.owned) + cleanup.reserved <= HandleLimit
       /\ cleanup.over => OpenRows \subseteq lost

\* What a binding would serve was opened for the reference, the capabilities, the preferences and
\* the start it has now (the check of openAndTouch after Open, against reuseCandidate and
\* setPlaybackPreferences in between).
CurrentDelivery ==
  \A p \in Listed, m \in Media :
    LET s == play[p].source[m] IN
    s.handle # 0 /\ s.revision = play[p].revision =>
      /\ row[s.handle].ref = s.ref /\ row[s.handle].start = s.start
      /\ row[s.handle].capabilities = play[p].capabilities
      /\ row[s.handle].preference = play[p].preference

\* No progress is stored for a binding whose Stopped event was stored (claimPlaybackEvent holds
\* the lease of the play session "across resolution, persistence, and terminal close").
StopIsFinal == \A c \in Calls : call[c].stage = "apply" => <<call[c].play, call[c].media>> \notin stopped

\* Of a session that logged out nothing stays for good: no play session, no pin, no delivery
\* except those given up (closeSession against the requests of the session in progress).
RevokedSettles ==
  \A s \in Sessions : (s \in revoked) ~>
    [](/\ \A p \in Listed : play[p].session # s
       /\ \A r \in Stored : refs[r].by = s => refs[r].pins = 0
       /\ \A h \in OpenRows : row[h].by = s => h \in lost)
=============================================================================
