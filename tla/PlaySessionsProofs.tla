------------------------- MODULE PlaySessionsProofs -------------------------
(***************************************************************************)
(* Theorems about PlaySessions, for any sessions, streams and concurrent   *)
(* requests, any programs of theirs and any limits.                        *)
(***************************************************************************)
EXTENDS PlaySessions, FiniteSetTheorems, WellFoundedInduction, TLAPS

-----------------------------------------------------------------------------
(* What a request is in the middle of. *)

Opening == {"resolve", "create", "start", "bind", "install"}
Leaving == {"closeAll", "drain"}

\* Where a call goes on once it has dealt with what it removed.
Phase(r) == IF r.stage \in Cleaning THEN r.next ELSE r.stage

Cleanup == [pending : [Handles -> {"none", "wait", "due", "claimed"}], owned : SUBSET Handles,
            reserved : Nat, retiring : BOOLEAN, abandoned : BOOLEAN, over : BOOLEAN]

\* A call has something to detach, release or close only while it does so.
Cleans(r) ==
  /\ r.next \notin Cleaning
  /\ r.stage \in Cleaning => r.next \notin {"register", "start", "bind", "install"}
  /\ r.stage # "detach" => r.stale = {}
  /\ r.stage \notin {"detach", "release"} => r.unpin = {}
  /\ r.stage \notin Cleaning => r.drop = {} /\ r.old = {}

\* It has options from when they were fetched, a delivery from when it was created, an error
\* until it is dealt with, and a play session it may rely on from when it found it.
Fits(r, phase) ==
  /\ r.options # <<>> => phase \in Fetched
  /\ Len(r.options) <= 2
  /\ r.handle # 0 => phase \in {"start", "bind", "install", "serve", "finish"}
  /\ phase = "start" => r.handle # 0
  /\ r.error # "" => phase \in {"bind", "install"} /\ r.handle = 0
  /\ phase \in Opening => r.play \in Plays /\ r.media \in Media
  /\ phase \in Handling => r.play \in Plays

Tidy(r) == Cleans(r) /\ Fits(r, Phase(r))

\* Every entry has a place of its own.
Seated(seats) ==
  /\ seats \in [Plays -> 0..MaxPlays]
  /\ \A p, q \in Plays : seats[p] # 0 /\ seats[p] = seats[q] => p = q

Chances == may \in Chance /\ \A keys \in may.offers : Len(keys) <= 2

RestTyped ==
  /\ refs \in [Refs -> Reference] /\ row \in [Handles -> Row] /\ cleanup \in Cleanup /\ Chances
  /\ revoked \subseteq Sessions /\ loggedOut \subseteq Sessions /\ lost \subseteq Handles

TypeInv ==
  /\ RestTyped /\ play \in [Plays -> Play] /\ Seated(entries)
  /\ call \in [Calls -> CallState] /\ \A c \in Calls : Tidy(call[c])

-----------------------------------------------------------------------------
(* The entries of the registry. *)

EntryInv ==
  /\ \A p \in Listed : play[p].pinned /\ play[p].revision > 0
  /\ \A p \in Plays : play[p].revision = 0 => play[p] = NewPlay
  /\ \A c \in Calls : \A p \in call[c].stale : p \notin Listed /\ play[p].revision > 0
  /\ \A c \in Calls : Phase(call[c]) \in Opening \cup Handling => play[call[c].play].revision > 0
  /\ \A p \in Plays : \A m \in Media :
       /\ play[p].source[m].ref = 0 => play[p].source[m].handle = 0
       /\ play[p].source[m].revision <= play[p].revision

-----------------------------------------------------------------------------
(* References. *)

\* What a call has fetched and not passed to a play session yet.
Free(c, r) == Phase(call[c]) \in {"reuse", "missed", "pin", "register"} /\ r \in OptionReferences(c)
Pins(p, r) == play[p].pinned /\ r \in ReferencesOf(p)

Held(r) == \E c \in Calls : r \in OptionReferences(c)
Taken(r) ==
  \/ \E p \in Plays : Pins(p, r)
  \/ \E c \in Calls : \/ r \in call[c].unpin \/ r \in call[c].old
                      \/ call[c].stage = "register" /\ r \in OptionReferences(c)

\* References pass from a call to a play session, and from there to a call that releases them;
\* nobody else has them then.
OneClaim(r) ==
  /\ \A c, d \in Calls :
       /\ r \in OptionReferences(c) /\ r \in OptionReferences(d) => c = d
       /\ r \in call[c].unpin /\ r \in call[d].unpin => c = d
       /\ r \in call[c].old /\ r \in call[d].old => c = d
       /\ ~(Free(c, r) /\ r \in call[d].unpin)
       /\ ~(Free(c, r) /\ r \in call[d].old)
       /\ ~(r \in call[c].unpin /\ r \in call[d].old)
  /\ \A p \in Plays : Pins(p, r) =>
       /\ \A q \in Plays : Pins(q, r) => p = q
       /\ \A c \in Calls : ~Free(c, r) /\ r \notin call[c].unpin /\ r \notin call[c].old

Counted(r) ==
  /\ refs[r].at = "stored" =>
       refs[r].pins = (IF Held(r) THEN 1 ELSE 0) + (IF Taken(r) THEN 1 ELSE 0)
  /\ Held(r) \/ Taken(r) => refs[r].at \in {"stored", "withdrawn"}

PinInv ==
  /\ \A r \in Undrawn : \A s \in Refs : s >= r => s \in Undrawn
  /\ \A r \in Refs : OneClaim(r) /\ Counted(r)

-----------------------------------------------------------------------------
(* Deliveries. *)

Carries(c, h) == call[c].handle = h /\ call[c].stage \in {"start", "bind", "install"}
Serves(p, m, h) == play[p].source[m].handle = h
Queued(h) == cleanup.pending[h] # "none"

OneOwner(h) ==
  /\ \A c, d \in Calls :
       /\ Carries(c, h) /\ Carries(d, h) => c = d
       /\ h \in call[c].drop /\ h \in call[d].drop => c = d
       /\ ~(Carries(c, h) /\ h \in call[d].drop)
  /\ \A p \in Plays, m \in Media : Serves(p, m, h) =>
       /\ \A q \in Plays, n \in Media : Serves(q, n, h) => p = q /\ m = n
       /\ \A c \in Calls : ~Carries(c, h) /\ h \notin call[c].drop
       /\ ~Queued(h)
  /\ Queued(h) => \A c \in Calls : ~Carries(c, h) /\ h \notin call[c].drop

Attended(h) ==
  \/ \E c \in Calls : Carries(c, h) \/ h \in call[c].drop
  \/ \E p \in Plays, m \in Media : Serves(p, m, h)
  \/ Queued(h)

OwnerInv ==
  \A h \in Handles :
    /\ OneOwner(h)
    /\ row[h].at = "open" /\ h \notin lost => Attended(h)
    /\ row[h].at = "none" => ~Attended(h)

\* Of what the queue counts.
Reserving == {c \in Calls : Phase(call[c]) \in {"resolve", "create", "start", "bind"}}
Known(h) ==
  \/ \E c \in Calls : (Carries(c, h) /\ call[c].stage = "install") \/ h \in call[c].drop
  \/ \E p \in Plays, m \in Media : Serves(p, m, h)
  \/ Queued(h)

BudgetInv ==
  /\ cleanup.over => cleanup.retiring
  /\ \A c \in Calls : Phase(call[c]) \in Leaving => cleanup.retiring
  /\ ~cleanup.abandoned =>
       /\ cleanup.reserved = Cardinality(Reserving)
       /\ \A h \in Handles : Known(h) => h \in cleanup.owned
       /\ Cardinality(cleanup.owned) + cleanup.reserved <= HandleLimit
       /\ cleanup.over => cleanup.owned = {} /\ cleanup.reserved = 0

\* What was opened, and for what.
OpenedFor(h, ref, start, capabilities, preference) ==
  /\ row[h].ref = ref /\ row[h].start = start
  /\ row[h].capabilities = capabilities /\ row[h].preference = preference

DeliveryInv ==
  /\ \A p \in Plays, m \in Media :
       LET s == play[p].source[m] IN
       s.handle # 0 /\ s.revision = play[p].revision =>
         OpenedFor(s.handle, s.ref, s.start, play[p].capabilities, play[p].preference)
  /\ \A c \in Calls : Phase(call[c]) \in Opening =>
       LET p == call[c].play IN
       /\ call[c].revision <= play[p].revision
       /\ play[p].revision = call[c].revision =>
            /\ play[p].capabilities = call[c].request.capabilities
            /\ play[p].preference = call[c].request.preference
  /\ \A c \in Calls : call[c].stage \in {"start", "bind", "install"} /\ call[c].handle # 0 =>
       OpenedFor(call[c].handle, call[c].input.ref, call[c].request.start,
                 call[c].request.capabilities, call[c].request.preference)

-----------------------------------------------------------------------------
(* Events. *)

\* A binding that no event can mean any more.
Unbound(p, m) == p \notin Listed \/ ~play[p].live \/ play[p].source[m].ref = 0

EventInv ==
  /\ \A c \in Calls :
       /\ Phase(call[c]) \in Handling \ {"lease"} => play[call[c].play].lease = c
       /\ Phase(call[c]) \in {"apply", "end"} => Owns(c, call[c].play) /\ call[c].media \in Media
       /\ Phase(call[c]) = "apply" => <<call[c].play, call[c].media>> \notin stopped
  /\ \A p \in Plays, m \in Media : <<p, m>> \in stopped =>
       /\ play[p].revision > 0
       /\ \/ Unbound(p, m)
          \/ \E c \in Calls : call[c].stage = "end" /\ call[c].play = p /\ call[c].media = m

-----------------------------------------------------------------------------
(* Numbers and sets of them. *)

\* A nonempty set of numbers has a least member.
LEMMA Smallest ==
  ASSUME NEW S, S \subseteq Nat, S # {}
  PROVE  \E m \in S : \A y \in S : m <= y
<1>1. PICK m \in S : \A y \in S : <<y, m>> \notin OpToRel(<, Nat)
  BY WFMin, NatLessThanWellFounded, Zenon
<1>2. \A y \in S : ~(y < m)
  BY <1>1, Zenon DEF OpToRel
<1> QED BY <1>2

\* One with an upper bound has a largest.
LEMMA Largest ==
  ASSUME NEW S, S # {}, NEW n \in Nat, S \subseteq 0..n
  PROVE  \E m \in S : \A x \in S : x <= m
<1> DEFINE Bounds == {b \in Nat : \A x \in S : x <= b}
<1>1. PICK m \in Bounds : \A b \in Bounds : m <= b
  <2>1. n \in Bounds /\ Bounds \subseteq Nat
    OBVIOUS
  <2> QED BY <2>1, Smallest
<1>2. m \in S
  <2> SUFFICES ASSUME m \notin S PROVE FALSE
    OBVIOUS
  <2>1. \A x \in S : x \in Nat /\ x <= m /\ x # m
    BY <1>1
  <2>2. PICK x \in S : TRUE
    OBVIOUS
  <2>3. m - 1 \in Nat /\ \A y \in S : y <= m - 1
    BY <2>1, <2>2
  <2> QED BY <2>3, <1>1
<1> QED BY <1>1, <1>2

\* The bounds.
LEMMA Bounded ==
  /\ MaxRefs \in Nat \ {0} /\ OwnerRefs \in Nat /\ UserRefs \in Nat /\ StoredRefs \in Nat
  /\ MaxPlays \in Nat \ {0} /\ MaxRows \in Nat \ {0} /\ HandleLimit \in Nat \ {0}
  /\ IsFiniteSet(Refs) /\ IsFiniteSet(Plays) /\ IsFiniteSet(Handles)
  /\ Cardinality(Plays) = MaxPlays /\ Cardinality(Refs) = MaxRefs
<1>1. /\ MaxRefs \in Nat \ {0} /\ OwnerRefs \in Nat /\ UserRefs \in Nat /\ StoredRefs \in Nat
      /\ MaxPlays \in Nat \ {0} /\ MaxRows \in Nat \ {0} /\ HandleLimit \in Nat \ {0}
  BY SourceReferencesAssumption, PlaySessionsAssumption
<1> QED BY <1>1, FS_Interval DEF Refs, Plays, Handles

\* Handles and references are the numbers that mean one.
LEMMA Numbered ==
  /\ \A x \in 0..MaxRows : x # 0 => x \in Handles
  /\ \A x \in 0..MaxRefs : x # 0 => x \in Refs
  /\ \A x \in Handles : x \in 0..MaxRows /\ x # 0
  /\ \A x \in Refs : x \in 0..MaxRefs /\ x # 0
BY Bounded DEF Handles, Refs

-----------------------------------------------------------------------------
(* The places of the entries. *)

\* Who is left keeps his place before the others.
LEMMA WithoutSeats ==
  ASSUME Seated(entries), NEW gone
  PROVE  /\ Seated(Without(gone))
         /\ \A p \in Plays : Without(gone)[p] # 0 <=> p \in Listed \ gone
         /\ \A p \in Plays : Without(gone)[p] <= Cardinality(Listed \ gone)
<1> DEFINE left == Listed \ gone
           Upto(p) == {q \in left : entries[q] <= entries[p]}
           seats == Without(gone)
<1>1. left \subseteq Plays /\ IsFiniteSet(left)
  BY Bounded, FS_Subset DEF Listed
<1>2. \A p : /\ IsFiniteSet(Upto(p)) /\ Cardinality(Upto(p)) \in Nat
             /\ Cardinality(Upto(p)) <= Cardinality(left)
  <2>1. \A p : Upto(p) \in SUBSET left
    OBVIOUS
  <2> QED BY <1>1, <2>1, FS_Subset, FS_CardinalityType
<1>3. Cardinality(left) \in Nat /\ Cardinality(left) <= MaxPlays
  BY <1>1, Bounded, FS_Subset, FS_CardinalityType
<1>4. seats = [p \in Plays |-> IF p \in left THEN Cardinality(Upto(p)) ELSE 0]
  BY DEF Without
<1>5. \A p \in left : Cardinality(Upto(p)) # 0
  <2>1. \A p \in left : p \in Upto(p)
    BY <1>1 DEF Seated
  <2> QED BY <1>2, <2>1, FS_EmptySet
<1>6. ASSUME NEW p \in left, NEW q \in left, entries[p] < entries[q]
      PROVE  Cardinality(Upto(p)) # Cardinality(Upto(q))
  <2>1. Upto(p) \in SUBSET Upto(q) /\ q \in Upto(q) /\ q \notin Upto(p)
    BY <1>1, <1>6 DEF Seated
  <2> QED BY <1>2, <2>1, FS_Subset
<1>7. \A p, q \in left : Cardinality(Upto(p)) = Cardinality(Upto(q)) => p = q
  <2> SUFFICES ASSUME NEW p \in left, NEW q \in left, p # q
               PROVE  Cardinality(Upto(p)) # Cardinality(Upto(q))
    OBVIOUS
  <2>1. entries[p] \in Nat /\ entries[q] \in Nat /\ entries[p] # entries[q]
    BY <1>1 DEF Seated, Listed
  <2>2. entries[p] < entries[q] \/ entries[q] < entries[p]
    BY <2>1
  <2> QED BY <1>6, <2>2
<1> HIDE DEF left, seats, Upto
<1>8. seats \in [Plays -> 0..MaxPlays]
  BY <1>2, <1>3, <1>4, Bounded
<1>9. \A p \in Plays : (seats[p] # 0 <=> p \in left) /\ seats[p] <= Cardinality(left)
  BY <1>2, <1>3, <1>4, <1>5
<1>10. \A p, q \in Plays : seats[p] # 0 /\ seats[p] = seats[q] => p = q
  BY <1>4, <1>5, <1>7
<1> QED BY <1>8, <1>9, <1>10 DEF seats, left, Seated

\* What removal leaves.
LEMMA WithoutListed ==
  ASSUME Seated(entries), NEW gone, entries' = Without(gone)
  PROVE  Seated(entries') /\ Listed' = Listed \ gone
BY WithoutSeats DEF Listed, Seated

\* Who is seen takes the last place.
LEMMA TouchedListed ==
  ASSUME Seated(entries), NEW gone, NEW p \in Plays, entries' = Touched(p, gone)
  PROVE  Seated(entries') /\ Listed' = (Listed \ gone) \cup {p}
<1> DEFINE seats == Without(gone \cup {p})
           left == Listed \ (gone \cup {p})
           last == Cardinality(left) + 1
<1>1. /\ Seated(seats)
      /\ \A q \in Plays : seats[q] # 0 <=> q \in left
      /\ \A q \in Plays : seats[q] <= Cardinality(left)
  BY WithoutSeats, Zenon
<1>2. last \in 1..MaxPlays /\ Cardinality(left) \in Nat /\ last > Cardinality(left)
  <2>1. left \in SUBSET (Plays \ {p})
    BY DEF Listed
  <2>2. IsFiniteSet(Plays \ {p}) /\ Cardinality(Plays \ {p}) = MaxPlays - 1
    BY Bounded, FS_RemoveElement
  <2>3. Cardinality(left) \in Nat /\ Cardinality(left) <= MaxPlays - 1
    BY <2>1, <2>2, FS_Subset, FS_CardinalityType
  <2> QED BY <2>3, Bounded
<1>3. entries' = [seats EXCEPT ![p] = last]
  BY DEF Touched
<1>4. Cardinality(left) \in Nat /\ last > Cardinality(left)
  BY <1>2, Zenon
<1> HIDE DEF seats, left, last
<1>5. entries' \in [Plays -> 0..MaxPlays]
  BY <1>1, <1>2, <1>3, Bounded DEF Seated
<1>6. \A q \in Plays : seats[q] # last
  BY <1>1, <1>2, <1>4 DEF Seated
<1>7. \A q \in Plays : entries'[q] = IF q = p THEN last ELSE seats[q]
  BY <1>1, <1>3 DEF Seated
<1>8. Seated(entries')
  BY <1>1, <1>2, <1>5, <1>6, <1>7 DEF Seated
<1>9. \A q \in Plays : entries'[q] # 0 <=> q \in left \cup {p}
  BY <1>1, <1>2, <1>7
<1>10. Listed' = left \cup {p}
  <2>1. left \subseteq Plays
    BY DEF left, Listed
  <2> QED BY <1>9, <2>1 DEF Listed
<1> QED BY <1>8, <1>10 DEF left

-----------------------------------------------------------------------------
(* Calls. *)

\* The fields a turn from one stage to the next may leave alone.
Keeps(r, s) ==
  /\ s.todo = r.todo /\ s.request = r.request /\ s.play = r.play /\ s.media = r.media
  /\ s.options = r.options /\ s.registered = r.registered /\ s.left = r.left /\ s.on = r.on
  /\ s.input = r.input /\ s.revision = r.revision /\ s.handle = r.handle /\ s.error = r.error
  /\ s.changes = r.changes /\ s.unpin = r.unpin /\ s.drop = r.drop /\ s.old = r.old

Direct == {"register", "start", "bind", "install"}

\* Onward: what the call removed is dealt with first.
LEMMA OnwardCall ==
  ASSUME call \in [Calls -> CallState], NEW c \in Calls,
         NEW next \in CallState, next.stage \notin Cleaning \cup Direct,
         NEW stale \in SUBSET Plays,
         Onward(c, next, stale)
  PROVE  /\ call' \in [Calls -> CallState]
         /\ \A d \in Calls \ {c} : call'[d] = call[d]
         /\ Keeps(next, call'[c]) /\ call'[c].stale = stale
         /\ Phase(call'[c]) = next.stage
         /\ call'[c].stage \in Cleaning \cup {next.stage}
         /\ Cleans(call'[c])
         /\ Fits(next, next.stage) => Tidy(call'[c])
<1> DEFINE stage == IF stale # {} THEN "detach" ELSE IF next.unpin # {} THEN "release"
                    ELSE IF next.drop \cup next.old # {} THEN "close" ELSE next.stage
           r == [next EXCEPT !.next = next.stage, !.stale = stale, !.stage = stage]
<1>1. call' = [call EXCEPT ![c] = r]
  BY DEF Onward
<1>2. stage \in Stages
  BY DEF CallState, Stages, Cleaning
<1>3. r \in CallState
  BY <1>2 DEF CallState
<1>4. Keeps(next, r) /\ r.stale = stale /\ r.next = next.stage /\ r.stage = stage
  BY DEF CallState, Keeps
<1>5. stage \in Cleaning \cup {next.stage} /\ Phase(r) = next.stage
  BY <1>4 DEF Phase, Cleaning
<1>6. Cleans(r)
  BY <1>4, <1>5 DEF Cleans, Keeps, Cleaning, Direct
<1>7. Fits(next, next.stage) => Fits(r, Phase(r))
  BY <1>4, <1>5 DEF Fits, Keeps
<1> HIDE DEF r, stage
<1>8. call'[c] = r
  BY <1>1
<1> QED BY <1>1, <1>3, <1>4, <1>5, <1>6, <1>7, <1>8 DEF Tidy

\* CloseAll detaches even if there is nothing to detach.
LEMMA DetachCall ==
  ASSUME call \in [Calls -> CallState], NEW c \in Calls,
         NEW next \in CallState, next.stage \notin Cleaning \cup Direct,
         NEW stale \in SUBSET Plays,
         Goes(c, [next EXCEPT !.stage = "detach", !.stale = stale, !.next = next.stage])
  PROVE  /\ call' \in [Calls -> CallState]
         /\ \A d \in Calls \ {c} : call'[d] = call[d]
         /\ Keeps(next, call'[c]) /\ call'[c].stale = stale
         /\ Phase(call'[c]) = next.stage
         /\ call'[c].stage \in Cleaning \cup {next.stage}
         /\ Cleans(call'[c])
         /\ Fits(next, next.stage) => Tidy(call'[c])
<1> DEFINE r == [next EXCEPT !.stage = "detach", !.stale = stale, !.next = next.stage]
<1>1. call' = [call EXCEPT ![c] = r]
  BY DEF Goes
<1>2. "detach" \in Stages /\ "detach" \in Cleaning
  BY DEF Stages, Cleaning
<1>3. r \in CallState
  BY <1>2 DEF CallState
<1>4. Keeps(next, r) /\ r.stale = stale /\ r.next = next.stage /\ r.stage = "detach"
  BY DEF CallState, Keeps
<1> HIDE DEF r
<1>5. Phase(r) = next.stage
  BY <1>2, <1>4 DEF Phase
<1>6. Cleans(r)
  BY <1>4, <1>5 DEF Cleans, Keeps, Cleaning, Direct
<1>7. Fits(next, next.stage) => Fits(r, Phase(r))
  BY <1>4, <1>5 DEF Fits, Keeps
<1>8. call'[c] = r
  BY <1>1
<1> QED BY <1>1, <1>2, <1>3, <1>4, <1>5, <1>6, <1>7, <1>8 DEF Tidy

\* A turn in one go.
LEMMA GoesCall ==
  ASSUME call \in [Calls -> CallState], NEW c \in Calls,
         NEW next \in CallState, next.stage \notin Cleaning, next.next \notin Cleaning,
         next.stale = {}, next.unpin = {}, next.drop = {}, next.old = {},
         Goes(c, next)
  PROVE  /\ call' \in [Calls -> CallState]
         /\ call'[c] = next
         /\ \A d \in Calls \ {c} : call'[d] = call[d]
         /\ Phase(next) = next.stage
         /\ Fits(next, next.stage) => Tidy(call'[c])
BY DEF Goes, Phase, Tidy, Cleans, Cleaning

\* A call that does not clean up has nothing to clean up.
LEMMA Clear ==
  ASSUME NEW r \in CallState, Tidy(r), r.stage \notin Cleaning
  PROVE  /\ r.stale = {} /\ r.unpin = {} /\ r.drop = {} /\ r.old = {}
         /\ r.next \notin Cleaning /\ Phase(r) = r.stage /\ Fits(r, r.stage)
BY DEF Tidy, Cleans, Phase, Cleaning

\* The call before its first request, and after its last.
LEMMA IdleTyped ==
  ASSUME NEW todo \in Seq(Request)
  PROVE  Idle(todo) \in CallState /\ Tidy(Idle(todo)) /\ Phase(Idle(todo)) = "idle"
<1>1. (CHOOSE s \in Sessions : TRUE) \in Sessions /\ (CHOOSE x \in Capabilities : TRUE) \in Capabilities
  BY PlaySessionsAssumption
<1>2. NoRequest \in Asked
  BY <1>1 DEF NoRequest, Asked
<1>3. NoSource \in Source
  BY Bounded, PlaySessionsAssumption DEF NoSource, Source
<1>4. Idle(todo) \in CallState
  BY <1>2, <1>3, Bounded DEF Idle, CallState, Stages, Nobody
<1>5. Tidy(Idle(todo)) /\ Phase(Idle(todo)) = "idle"
  BY DEF Idle, Tidy, Cleans, Fits, Phase, Cleaning, Opening, Handling
<1> QED BY <1>4, <1>5

\* Unpinning is the only change to pins but a new one.
LEMMA UnpinnedTyped ==
  ASSUME NEW store \in [Refs -> Reference], NEW R
  PROVE  /\ Unpinned(R, store) \in [Refs -> Reference]
         /\ Pinned(R, store) \in [Refs -> Reference]
BY DEF Unpinned, Pinned, Reference

-----------------------------------------------------------------------------
(* Turns that move no reference and no delivery. *)

FreeStages == {"reuse", "missed", "pin", "register"}

\* What a turn that moves neither leaves alone.
Passive(r, s) ==
  /\ s.options = r.options /\ s.unpin = r.unpin /\ s.drop = r.drop /\ s.old = r.old
  /\ s.stage = "register" <=> r.stage = "register"
  /\ Phase(s) \in FreeStages => Phase(r) \in FreeStages
  /\ Phase(s) \in Opening <=> Phase(r) \in Opening
  /\ Phase(r) \in Opening => s = r
  /\ Phase(s) \in Leaving => Phase(r) \in Leaving \/ cleanup'.retiring

Quiet == \A c \in Calls : Passive(call[c], call'[c])

\* No event goes on.
Aside ==
  \A c \in Calls : Phase(call[c]) \in Handling \/ Phase(call'[c]) \in Handling =>
    /\ Phase(call'[c]) = Phase(call[c]) /\ call'[c].play = call[c].play
    /\ call'[c].media = call[c].media /\ call'[c].request = call[c].request
    /\ call[c].stage = "end" => call'[c].stage = "end"

\* What it may change of a play session: not what it pins and holds.
PlaysKept ==
  /\ play' \in [Plays -> Play]
  /\ \A p \in Plays :
       /\ play'[p].pinned = play[p].pinned /\ play'[p].revision >= play[p].revision
       /\ play[p].revision = 0 => play'[p] = play[p]
       /\ \A m \in Media : /\ play'[p].source[m].ref = play[p].source[m].ref
                           /\ play'[p].source[m].handle = play[p].source[m].handle
                           /\ play'[p].source[m].revision = play[p].source[m].revision

\* The call goes on with next, having removed gone, or nothing.
Leaves(c, next, gone) ==
  \/ /\ Onward(c, next, gone)
     /\ entries' = Without(gone) \/ \E p \in Listed \ gone : entries' = Touched(p, gone)
  \/ /\ Goes(c, [next EXCEPT !.stage = "detach", !.stale = gone, !.next = next.stage])
     /\ entries' = Without(gone)
  \/ Goes(c, next) /\ entries' = entries

Turned(c, next) ==
  /\ \A d \in Calls \ {c} : call'[d] = call[d]
  /\ Keeps(next, call'[c]) /\ Phase(call'[c]) = next.stage
  /\ call'[c].stage \in Cleaning \cup {next.stage}

\* What next may be.
Ordinary(c, next) ==
  /\ next \in CallState /\ Fits(next, next.stage)
  /\ next.stage \notin Cleaning \cup Direct \cup Opening /\ next.next \notin Cleaning
  /\ next.stale = {} /\ next.unpin = {} /\ next.drop = {} /\ next.old = {}
  /\ next.options = call[c].options
  /\ next.stage \in FreeStages => call[c].stage \in FreeStages
  /\ next.stage \in Leaving => call[c].stage \in Leaving \/ cleanup'.retiring
  /\ next.stage \in Handling => play[next.play].revision > 0

\* A request that moves on outside an opening leaves entries as they were, or removes some.
LEMMA QuietMove ==
  ASSUME TypeInv, EntryInv, PlaysKept, NEW c \in Calls,
         call[c].stage \notin Cleaning \cup Opening \cup {"register"},
         NEW next, Ordinary(c, next), NEW gone, gone \subseteq Listed, Leaves(c, next, gone)
  PROVE  /\ call' \in [Calls -> CallState] /\ \A d \in Calls : Tidy(call'[d])
         /\ Turned(c, next) /\ Quiet
         /\ Seated(entries') /\ Listed' \subseteq Listed /\ EntryInv'
         /\ call[c].stage \notin Handling /\ next.stage \notin Handling => Aside
<1>1. call[c] \in CallState /\ Tidy(call[c]) /\ Seated(entries) /\ Listed \subseteq Plays
  BY DEF TypeInv, Listed
<1>2. Phase(call[c]) = call[c].stage /\ Fits(call[c], call[c].stage) /\ call[c].stale = {}
      /\ call[c].unpin = {} /\ call[c].drop = {} /\ call[c].old = {}
  BY <1>1, Clear
<1>3. /\ call' \in [Calls -> CallState] /\ \A d \in Calls \ {c} : call'[d] = call[d]
      /\ Tidy(call'[c]) /\ Turned(c, next)
      /\ \/ call'[c].stale = gone /\ Listed' \subseteq Listed \ gone /\ Seated(entries')
         \/ call'[c].stale = {} /\ Listed' = Listed /\ Seated(entries')
  <2>1. CASE Goes(c, next) /\ entries' = entries
    <3>1. /\ call' \in [Calls -> CallState] /\ call'[c] = next
          /\ \A d \in Calls \ {c} : call'[d] = call[d]
          /\ Phase(next) = next.stage /\ Tidy(call'[c])
      BY <2>1, GoesCall DEF Ordinary, TypeInv
    <3> QED BY <1>1, <2>1, <3>1 DEF Turned, Keeps, Listed, Ordinary
  <2>2. CASE Onward(c, next, gone)
              /\ (entries' = Without(gone) \/ \E p \in Listed \ gone : entries' = Touched(p, gone))
    <3>1. /\ call' \in [Calls -> CallState]
          /\ \A d \in Calls \ {c} : call'[d] = call[d]
          /\ Keeps(next, call'[c]) /\ call'[c].stale = gone
          /\ Phase(call'[c]) = next.stage
          /\ call'[c].stage \in Cleaning \cup {next.stage}
          /\ Tidy(call'[c])
      BY <1>1, <2>2, OnwardCall DEF Ordinary, TypeInv
    <3>2. CASE entries' = Without(gone)
      BY <1>1, <3>1, <3>2, WithoutListed DEF Turned
    <3>3. ASSUME NEW p \in Listed \ gone, entries' = Touched(p, gone)
          PROVE  Listed' \subseteq Listed \ gone /\ Seated(entries')
      <4>1. Seated(entries') /\ Listed' = (Listed \ gone) \cup {p}
        BY <1>1, <3>3, TouchedListed
      <4> QED BY <4>1
    <3> QED BY <2>2, <3>1, <3>2, <3>3 DEF Turned
  <2>3. CASE /\ Goes(c, [next EXCEPT !.stage = "detach", !.stale = gone, !.next = next.stage])
             /\ entries' = Without(gone)
    <3>1. /\ call' \in [Calls -> CallState]
          /\ \A d \in Calls \ {c} : call'[d] = call[d]
          /\ Keeps(next, call'[c]) /\ call'[c].stale = gone
          /\ Phase(call'[c]) = next.stage
          /\ call'[c].stage \in Cleaning \cup {next.stage}
          /\ Tidy(call'[c])
      <4>1. gone \in SUBSET Plays /\ next \in CallState /\ next.stage \notin Cleaning \cup Direct
            /\ call \in [Calls -> CallState] /\ Fits(next, next.stage)
        BY <1>1 DEF Ordinary, TypeInv
      <4> QED BY <2>3, <4>1, DetachCall
    <3> QED BY <1>1, <2>3, <3>1, WithoutListed DEF Turned
  <2> QED BY <2>1, <2>2, <2>3 DEF Leaves
<1>4. Passive(call[c], call'[c])
  BY <1>1, <1>2, <1>3 DEF Passive, Turned, Keeps, Ordinary, Direct, Cleaning
<1>5. Quiet
  BY <1>3, <1>4 DEF Quiet, Passive
<1>6. EntryInv'
  <2>1. \A p \in Listed' : play'[p].pinned /\ play'[p].revision > 0
    BY <1>1, <1>3 DEF EntryInv, PlaysKept, TypeInv, Play
  <2>2. \A p \in Plays : play'[p].revision = 0 => play'[p] = NewPlay
    BY DEF EntryInv, PlaysKept, TypeInv, Play
  <2>3. \A d \in Calls : \A p \in call'[d].stale : p \notin Listed' /\ play'[p].revision > 0
    <3>1. \A d \in Calls : \A p \in call'[d].stale :
            p \in Plays /\ p \notin Listed' /\ play[p].revision > 0
      BY <1>1, <1>3 DEF EntryInv, TypeInv, CallState
    <3> QED BY <3>1 DEF PlaysKept, TypeInv, Play
  <2>4. \A d \in Calls : Phase(call'[d]) \in Opening \cup Handling => play'[call'[d].play].revision > 0
    <3>1. \A d \in Calls : Phase(call'[d]) \in Opening \cup Handling =>
            call'[d].play \in Plays /\ play[call'[d].play].revision > 0
      <4>1. ASSUME NEW d \in Calls \ {c}, Phase(call[d]) \in Opening \cup Handling
            PROVE  call[d].play \in Plays /\ play[call[d].play].revision > 0
        BY <4>1 DEF EntryInv, TypeInv, Tidy, Fits
      <4>2. ASSUME next.stage \in Opening \cup Handling
            PROVE  next.play \in Plays /\ play[next.play].revision > 0
        BY <4>2 DEF Ordinary, Fits
      <4> QED BY <1>3, <4>1, <4>2 DEF Turned, Keeps
    <3> QED BY <3>1 DEF PlaysKept, TypeInv, Play
  <2>5. \A p \in Plays : \A m \in Media :
          /\ play'[p].source[m].ref = 0 => play'[p].source[m].handle = 0
          /\ play'[p].source[m].revision <= play'[p].revision
    <3>1. \A p \in Plays : \A m \in Media : /\ play[p].revision \in Nat /\ play'[p].revision \in Nat
                                            /\ play[p].source[m].revision \in Nat
      BY DEF TypeInv, PlaysKept, Play, Source
    <3> QED BY <3>1 DEF EntryInv, PlaysKept
  <2> QED BY <2>1, <2>2, <2>3, <2>4, <2>5 DEF EntryInv
<1>7. call[c].stage \notin Handling /\ next.stage \notin Handling => Aside
  BY <1>2, <1>3 DEF Turned, Aside
<1> QED BY <1>3, <1>5, <1>6, <1>7 DEF TypeInv

\* Who was registered last is one of them.
LEMMA NewestOf ==
  ASSUME NEW ps, ps \subseteq Plays, ps # {}
  PROVE  Newest(ps) \in ps /\ \A q \in ps : q <= Newest(ps)
<1>1. ps \subseteq 0..MaxPlays /\ MaxPlays \in Nat
  BY Bounded DEF Plays
<1>2. \E p \in ps : \A q \in ps : q <= p
  BY <1>1, Largest
<1> QED BY <1>2 DEF Newest

\* What is known of a call that has nothing to clean up.
LEMMA CallAt ==
  ASSUME TypeInv, NEW c \in Calls, call[c].stage \notin Cleaning
  PROVE  /\ call[c] \in CallState /\ Tidy(call[c]) /\ Phase(call[c]) = call[c].stage
         /\ Fits(call[c], call[c].stage)
         /\ call[c].stale = {} /\ call[c].unpin = {} /\ call[c].drop = {} /\ call[c].old = {}
         /\ call[c].next \notin Cleaning
BY Clear DEF TypeInv

\* A turn that only goes on from one stage to another.
LEMMA TurnAt ==
  ASSUME TypeInv, NEW c \in Calls, NEW stage \in Stages, call[c].stage \notin Cleaning
  PROVE  /\ At(c, stage) \in CallState /\ Keeps(call[c], At(c, stage))
         /\ At(c, stage).stage = stage /\ At(c, stage).stale = {} /\ At(c, stage).unpin = {}
         /\ At(c, stage).drop = {} /\ At(c, stage).old = {} /\ At(c, stage).next \notin Cleaning
<1>1. call[c] \in CallState /\ Tidy(call[c])
  BY DEF TypeInv
<1>2. At(c, stage) \in CallState
  BY <1>1 DEF At, CallState
<1>3. /\ Keeps(call[c], At(c, stage)) /\ At(c, stage).stage = stage
      /\ At(c, stage).stale = call[c].stale /\ At(c, stage).next = call[c].next
  BY <1>1 DEF At, CallState, Keeps
<1> QED BY <1>1, <1>2, <1>3, Clear DEF Keeps

\* That leaves the play session alone.
LEMMA OrdinaryAt ==
  ASSUME TypeInv, EntryInv, NEW c \in Calls, NEW stage \in Stages \ (Cleaning \cup Direct \cup Opening),
         call[c].stage \notin Cleaning, Fits(call[c], stage),
         stage \in FreeStages => call[c].stage \in FreeStages,
         stage \in Leaving => call[c].stage \in Leaving \/ cleanup'.retiring,
         stage \in Handling => call[c].stage \in Handling
  PROVE  Ordinary(c, At(c, stage)) /\ At(c, stage).stage = stage
<1>1. /\ At(c, stage) \in CallState /\ Keeps(call[c], At(c, stage))
      /\ At(c, stage).stage = stage /\ At(c, stage).stale = {} /\ At(c, stage).unpin = {}
      /\ At(c, stage).drop = {} /\ At(c, stage).old = {} /\ At(c, stage).next \notin Cleaning
  BY TurnAt
<1>2. Fits(At(c, stage), stage)
  BY <1>1 DEF Fits, Keeps
<1>3. stage \in Handling => play[call[c].play].revision > 0
  BY CallAt DEF EntryInv
<1> QED BY <1>1, <1>2, <1>3 DEF Ordinary, Keeps

\* A request that found its play session goes on to the preferences.
LEMMA OrdinaryPlay ==
  ASSUME TypeInv, NEW c \in Calls, call[c].stage \in {"cached", "reuse"},
         NEW p \in Plays, NEW left \in SUBSET Media
  PROVE  LET next == [At(c, "prefer") EXCEPT !.play = p, !.left = left] IN
         Ordinary(c, next) /\ next.stage = "prefer"
<1> DEFINE next == [At(c, "prefer") EXCEPT !.play = p, !.left = left]
<1>1. Fits(call[c], call[c].stage) /\ "prefer" \in Stages /\ call[c].stage \notin Cleaning
  BY CallAt DEF Cleaning, Stages, Fetched
<1>2. /\ At(c, "prefer") \in CallState /\ Keeps(call[c], At(c, "prefer"))
      /\ At(c, "prefer").stage = "prefer" /\ At(c, "prefer").stale = {} /\ At(c, "prefer").unpin = {}
      /\ At(c, "prefer").drop = {} /\ At(c, "prefer").old = {} /\ At(c, "prefer").next \notin Cleaning
  BY <1>1, TurnAt
<1>3. p \in 0..MaxPlays
  BY Bounded DEF Plays
<1> HIDE DEF next
<1>4. /\ next \in CallState /\ next.stage = "prefer" /\ next.stale = {} /\ next.unpin = {}
      /\ next.drop = {} /\ next.old = {} /\ next.next \notin Cleaning
      /\ next.options = call[c].options /\ next.handle = call[c].handle /\ next.error = call[c].error
  BY <1>2, <1>3 DEF next, CallState, Keeps
<1>5. Fits(next, "prefer")
  BY <1>1, <1>4 DEF Fits, Fetched, Opening, Handling
<1> QED BY <1>4, <1>5 DEF Ordinary, next, Cleaning, Direct, Opening, Handling, FreeStages, Leaving

\* A request that ended is idle and has nothing left.
LEMMA EndedTyped ==
  ASSUME TypeInv, NEW c \in Calls
  PROVE  /\ Ended(c) \in CallState /\ Ended(c).stage = "idle" /\ Tidy(Ended(c)) /\ Phase(Ended(c)) = "idle"
         /\ Ended(c).stale = {} /\ Ended(c).unpin = {} /\ Ended(c).drop = {} /\ Ended(c).old = {}
         /\ Ended(c).next = "idle" /\ Ended(c).options = <<>> /\ Fits(Ended(c), "idle")
<1>1. call[c].todo \in Seq(Request)
  BY DEF TypeInv, CallState
<1> QED BY <1>1, IdleTyped DEF Ended, Idle, Tidy

\* Without options there is nothing to release at the end.
LEMMA OrdinaryEnd ==
  ASSUME TypeInv, NEW c \in Calls, call[c].options = <<>>
  PROVE  Ordinary(c, Ended(c))
BY EndedTyped DEF Ordinary, Cleaning, Direct, Opening, FreeStages, Handling, Leaving

\* After a failed attempt the next candidate is looked up, or the request winds up.
LEMMA FailedTyped ==
  ASSUME TypeInv, NEW c \in Calls, call[c].stage \notin Cleaning, NEW error
  PROVE  /\ Failed(c, error) \in CallState /\ Failed(c, error).stage \in {"lookup", "abandon", "finish"}
         /\ Fits(Failed(c, error), Failed(c, error).stage)
         /\ Failed(c, error).stale = {} /\ Failed(c, error).unpin = {}
         /\ Failed(c, error).drop = {} /\ Failed(c, error).old = {}
         /\ Failed(c, error).next \notin Cleaning
         /\ Failed(c, error).options = call[c].options /\ Failed(c, error).handle = 0
<1>1. /\ call[c] \in CallState /\ Fits(call[c], call[c].stage)
      /\ call[c].stale = {} /\ call[c].unpin = {} /\ call[c].drop = {} /\ call[c].old = {}
      /\ call[c].next \notin Cleaning
  BY CallAt
<1> DEFINE base == [call[c] EXCEPT !.input = NoSource, !.handle = 0, !.error = "", !.on = Nobody]
<1>2. /\ base \in CallState /\ base.stale = {} /\ base.unpin = {} /\ base.drop = {} /\ base.old = {}
      /\ base.next \notin Cleaning /\ base.options = call[c].options /\ base.handle = 0 /\ base.error = ""
  <2>1. NoSource \in Source
    BY Bounded, PlaySessionsAssumption DEF NoSource, Source
  <2>2. 0 \in 0..MaxRows
    BY Bounded
  <2>3. base \in CallState
    BY <1>1, <2>1, <2>2 DEF CallState
  <2>4. /\ base.stale = call[c].stale /\ base.unpin = call[c].unpin /\ base.drop = call[c].drop
        /\ base.old = call[c].old /\ base.next = call[c].next /\ base.options = call[c].options
        /\ base.handle = 0 /\ base.error = ""
    BY <1>1 DEF CallState
  <2> QED BY <1>1, <2>3, <2>4
<1>3. Len(base.options) <= 2
  BY <1>1, <1>2 DEF Fits
<1> HIDE DEF base
<1>4. CASE error = "retryable" /\ call[c].left # {}
  <2> DEFINE m == CHOOSE m \in call[c].left : \A n \in call[c].left : m <= n
             r == [base EXCEPT !.stage = "lookup", !.media = m, !.left = @ \ {m}, !.changes = 0]
  <2>1. call[c].left \subseteq Media
    BY <1>1 DEF CallState
  <2>2. m \in Media
    <3>1. call[c].left \subseteq Nat
      BY <2>1 DEF Media
    <3>2. \E k \in call[c].left : \A n \in call[c].left : k <= n
      BY <1>4, <3>1, Smallest
    <3> QED BY <2>1, <3>2
  <2> HIDE DEF m
  <2>6. base.left \ {m} \in SUBSET Media /\ m \in 0..2 /\ "lookup" \in Stages
    <3>1. base.left \subseteq Media
      BY <1>2 DEF CallState
    <3>2. m \in 0..2
      BY <2>2 DEF Media
    <3>3. "lookup" \in Stages
      BY DEF Stages, Fetched
    <3> QED BY <3>1, <3>2, <3>3
  <2>7. r \in CallState
    BY <1>2, <2>6 DEF CallState
  <2>3. /\ r \in CallState /\ r.stage = "lookup" /\ r.options = base.options
        /\ r.stale = {} /\ r.unpin = {} /\ r.drop = {} /\ r.old = {} /\ r.next = base.next
        /\ r.handle = 0 /\ r.error = ""
    BY <1>2, <2>7 DEF CallState
  <2>4. Fits(r, "lookup")
    BY <1>3, <2>3 DEF Fits, Fetched, Opening, Handling
  <2>5. Failed(c, error) = r
    BY <1>4 DEF Failed, base, m
  <2> QED BY <1>2, <2>3, <2>4, <2>5
<1>5. CASE ~(error = "retryable" /\ call[c].left # {})
  <2> DEFINE stage == IF call[c].registered THEN "abandon" ELSE "finish"
             r == [base EXCEPT !.stage = stage]
  <2>1. stage \in {"abandon", "finish"}
    OBVIOUS
  <2> HIDE DEF stage
  <2>5. stage \in Stages
    BY <2>1 DEF Stages, Fetched
  <2>6. r \in CallState
    BY <1>2, <2>5 DEF CallState
  <2>2. /\ r \in CallState /\ r.stage = stage /\ r.options = base.options
        /\ r.stale = {} /\ r.unpin = {} /\ r.drop = {} /\ r.old = {} /\ r.next = base.next
        /\ r.handle = 0 /\ r.error = ""
    BY <1>2, <2>6 DEF CallState
  <2>3. Fits(r, stage)
    BY <1>3, <2>1, <2>2 DEF Fits, Fetched, Opening, Handling
  <2>4. Failed(c, error) = r
    BY <1>5 DEF Failed, base, stage
  <2> QED BY <1>2, <2>1, <2>2, <2>3, <2>4
<1> QED BY <1>4, <1>5

\* A failed attempt is a move like any other.
LEMMA OrdinaryFailed ==
  ASSUME TypeInv, NEW c \in Calls, call[c].stage \notin Cleaning, NEW error
  PROVE  Ordinary(c, Failed(c, error))
BY FailedTyped DEF Ordinary, Cleaning, Direct, Opening, FreeStages, Handling, Leaving

QuietStep == TypeInv' /\ EntryInv' /\ Quiet /\ PlaysKept /\ Listed' \subseteq Listed

\* The variables outside the registry keep their types when they do not change.
LEMMA RestSame ==
  ASSUME TypeInv, UNCHANGED <<refs, row, cleanup, may, revoked, loggedOut, lost>>
  PROVE  RestTyped'
BY DEF TypeInv, RestTyped, Chances

\* Play sessions that do not change are kept.
LEMMA PlaysSame ==
  ASSUME TypeInv, play' = play
  PROVE  PlaysKept
BY DEF TypeInv, PlaysKept, Play, Source

\* What is to be shown of a quiet action: its types, and where the call goes.
LEMMA QuietAction ==
  ASSUME TypeInv, EntryInv, RestTyped', PlaysKept, NEW c \in Calls,
         call[c].stage \notin Cleaning \cup Opening \cup {"register"},
         NEW next, Ordinary(c, next), NEW gone, gone \subseteq Listed, Leaves(c, next, gone)
  PROVE  /\ QuietStep /\ Turned(c, next)
         /\ call[c].stage \notin Handling /\ next.stage \notin Handling => Aside
BY QuietMove DEF QuietStep, TypeInv, PlaysKept

\* Those who have expired, who are left, and who was asked for.
LEMMA ListedSets ==
  /\ Expired \subseteq Listed /\ Current = Listed \ Expired /\ Listed \subseteq Plays
  /\ \A c \in Calls : Bound(c) \subseteq Current
BY DEF Expired, Current, Listed, Bound

-----------------------------------------------------------------------------
(* Such turns. *)

\* Reuse before any provider was asked binds nothing anew.
LEMMA ReuseCachedStep ==
  ASSUME TypeInv, EntryInv, NEW c \in Calls, ReuseCached(c)
  PROVE  QuietStep /\ Aside
<1> DEFINE same == {p \in Bound(c) : ~Changed(c, p)}
           p == Newest(same)
           next == [At(c, "prefer") EXCEPT !.play = p, !.left = Bindings(p) \ {call[c].media}]
<1>1. call[c].stage = "cached" /\ RestTyped' /\ PlaysKept
  BY RestSame, PlaysSame DEF ReuseCached
<1>2. Fits(call[c], "cached")
  BY <1>1, CallAt DEF Cleaning
<1>3. CASE same = {}
  <2>1. Leaves(c, At(c, "options"), Expired)
    BY <1>3 DEF ReuseCached, Leaves
  <2>2. Ordinary(c, At(c, "options")) /\ At(c, "options").stage = "options"
    BY <1>1, <1>2, OrdinaryAt
    DEF Fits, Cleaning, Direct, Opening, Handling, Stages, Fetched, FreeStages, Leaving
  <2> QED BY <1>1, <2>1, <2>2, QuietAction, ListedSets DEF Cleaning, Opening, Handling
<1>4. CASE same # {}
  <2>1. p \in same /\ p \in Plays /\ p \in Listed \ Expired
    BY <1>4, NewestOf, ListedSets
  <2>2. Leaves(c, next, Expired)
    BY <1>4, <2>1 DEF ReuseCached, Leaves
  <2>3. Ordinary(c, next) /\ next.stage = "prefer"
    BY <1>1, <2>1, OrdinaryPlay DEF Bindings
  <2> QED BY <1>1, <2>2, <2>3, QuietAction, ListedSets DEF Cleaning, Opening, Handling
<1> QED BY <1>3, <1>4

\* The two branches of Reuse that leave the binding as it is.
LEMMA ReuseQuietStep ==
  ASSUME TypeInv, EntryInv, NEW c \in Calls, Reuse(c),
         Chosen(c) = 0 \/ ~Changed(c, Chosen(c)) \/ ~CanPin(Kept(c, Chosen(c)))
  PROVE  QuietStep /\ Aside
<1> DEFINE p == Chosen(c)
           next == [At(c, "prefer") EXCEPT !.play = p, !.left = Bindings(p) \ {call[c].media}]
<1>1. call[c].stage = "reuse" /\ RestTyped' /\ PlaysKept
  BY RestSame, PlaysSame DEF Reuse
<1>2. Fits(call[c], "reuse")
  BY <1>1, CallAt DEF Cleaning
<1>3. CASE p # 0 /\ ~Changed(c, p)
  <2>1. p \in Rebindable(c) /\ p \in Plays /\ p \in Listed \ Expired
    <3>1. Rebindable(c) \subseteq Current
      BY ListedSets DEF Rebindable
    <3>2. Rebindable(c) # {} /\ p = Newest(Rebindable(c))
      BY <1>3 DEF Chosen
    <3> QED BY <3>1, <3>2, NewestOf, ListedSets
  <2>2. Leaves(c, next, Expired)
    BY <1>3, <2>1 DEF Reuse, Leaves
  <2>3. Ordinary(c, next) /\ next.stage = "prefer"
    BY <1>1, <2>1, OrdinaryPlay DEF Bindings
  <2> QED BY <1>1, <2>2, <2>3, QuietAction, ListedSets DEF Cleaning, Opening, Handling
<1>4. CASE p = 0 \/ (Changed(c, p) /\ ~CanPin(Kept(c, p)))
  <2>1. Leaves(c, At(c, "missed"), Expired)
    BY <1>4 DEF Reuse, Leaves
  <2>2. Ordinary(c, At(c, "missed")) /\ At(c, "missed").stage = "missed"
    BY <1>1, <1>2, OrdinaryAt
    DEF Fits, Cleaning, Direct, Opening, Handling, Stages, Fetched, FreeStages, Leaving
  <2> QED BY <1>1, <2>1, <2>2, QuietAction, ListedSets DEF Cleaning, Opening, Handling
<1> QED BY <1>3, <1>4

\* A missed candidate is looked for once more, and no entry changes.
LEMMA MissedStep ==
  ASSUME TypeInv, EntryInv, NEW c \in Calls, Missed(c)
  PROVE  QuietStep /\ Aside
<1> DEFINE stage == IF call[c].media # 1 \/ Bound(c) # {} THEN "finish" ELSE "pin"
<1>1. call[c].stage = "missed" /\ RestTyped' /\ PlaysKept
  BY RestSame, PlaysSame DEF Missed
<1>2. Fits(call[c], "missed")
  BY <1>1, CallAt DEF Cleaning
<1>3. Leaves(c, At(c, stage), Expired) /\ stage \in {"finish", "pin"}
  BY DEF Missed, Leaves
<1> HIDE DEF stage
<1>4. Ordinary(c, At(c, stage)) /\ At(c, stage).stage = stage
  BY <1>1, <1>2, <1>3, OrdinaryAt
  DEF Fits, Cleaning, Direct, Opening, Handling, Stages, Fetched, FreeStages, Leaving
<1> QED BY <1>1, <1>3, <1>4, QuietAction, ListedSets DEF Cleaning, Opening, Handling

\* New preferences outdate what was opened, under a higher revision.
LEMMA PreferStep ==
  ASSUME TypeInv, EntryInv, NEW c \in Calls, Prefer(c)
  PROVE  QuietStep /\ Aside
<1> DEFINE p == call[c].play
<1>1. call[c].stage = "prefer" /\ RestTyped' /\ call[c] \in CallState
  BY RestSame DEF Prefer, TypeInv
<1>2. Fits(call[c], "prefer")
  BY <1>1, CallAt DEF Cleaning
<1>3. CASE Alive(c, p)
  <2>1. p \in Listed \ Expired /\ p \in Plays
    BY <1>3, ListedSets DEF Alive
  <2>2. Leaves(c, At(c, "lookup"), Expired)
    BY <1>3, <2>1 DEF Prefer, Leaves
  <2>3. Ordinary(c, At(c, "lookup")) /\ At(c, "lookup").stage = "lookup"
    BY <1>1, <1>2, OrdinaryAt
    DEF Fits, Cleaning, Direct, Opening, Handling, Stages, Fetched, FreeStages, Leaving
  <2>4. PlaysKept
    <3>1. CASE play' = play
      BY <3>1, PlaysSame
    <3>2. CASE play' = [play EXCEPT ![p].preference = call[c].request.preference, ![p].revision = @ + 1]
      <4>1. call[c].request.preference \in 0..2
        BY <1>1 DEF CallState, Asked
      <4>2. play[p] \in Play /\ play[p].revision \in Nat /\ play[p].revision > 0
        BY <2>1 DEF TypeInv, Play, EntryInv
      <4>3. play' \in [Plays -> Play]
        BY <2>1, <3>2, <4>1, <4>2 DEF TypeInv, Play
      <4>4. /\ play'[p].pinned = play[p].pinned /\ play'[p].revision = play[p].revision + 1
            /\ play'[p].source = play[p].source
        BY <2>1, <3>2, <4>2 DEF TypeInv, Play
      <4>5. \A q \in Plays \ {p} : play'[q] = play[q]
        BY <2>1, <3>2 DEF TypeInv
      <4>6. \A q \in Plays : play[q].revision \in Nat
        BY DEF TypeInv, Play
      <4> HIDE DEF p
      <4> QED BY <4>2, <4>3, <4>4, <4>5, <4>6 DEF PlaysKept
    <3> QED BY <1>3, <3>1, <3>2 DEF Prefer
  <2> QED BY <1>1, <2>2, <2>3, <2>4, QuietAction, ListedSets DEF Cleaning, Opening, Handling
<1>4. CASE ~Alive(c, p)
  <2>1. Leaves(c, At(c, "finish"), Expired) /\ PlaysKept
    BY <1>4, PlaysSame DEF Prefer, Leaves
  <2>2. Ordinary(c, At(c, "finish")) /\ At(c, "finish").stage = "finish"
    BY <1>1, <1>2, OrdinaryAt
    DEF Fits, Cleaning, Direct, Opening, Handling, Stages, Fetched, FreeStages, Leaving
  <2> QED BY <1>1, <2>1, <2>2, QuietAction, ListedSets DEF Cleaning, Opening, Handling
<1> QED BY <1>3, <1>4

\* A turn to another stage that leaves the play session alone.
LEMMA AtStep ==
  ASSUME TypeInv, EntryInv, RestTyped', PlaysKept, NEW c \in Calls,
         NEW stage \in Stages \ (Cleaning \cup Direct \cup Opening),
         call[c].stage \notin Cleaning \cup Opening \cup {"register"}, Fits(call[c], stage),
         stage \in FreeStages => call[c].stage \in FreeStages,
         stage \in Leaving => call[c].stage \in Leaving \/ cleanup'.retiring,
         stage \in Handling => call[c].stage \in Handling,
         NEW gone, gone \subseteq Listed, Leaves(c, At(c, stage), gone)
  PROVE  /\ QuietStep /\ Turned(c, At(c, stage)) /\ Keeps(call[c], At(c, stage))
         /\ At(c, stage).stage = stage
         /\ call[c].stage \notin Handling => Aside
<1>1. Ordinary(c, At(c, stage)) /\ At(c, stage).stage = stage /\ Keeps(call[c], At(c, stage))
  BY OrdinaryAt, TurnAt
<1> QED BY <1>1, QuietAction

\* The request is over, or goes on without what it asked for.
LEMMA EndStep ==
  ASSUME TypeInv, EntryInv, RestTyped', PlaysKept, NEW c \in Calls, call[c].options = <<>>,
         call[c].stage \notin Cleaning \cup Opening \cup {"register"},
         Goes(c, Ended(c)), UNCHANGED entries
  PROVE  /\ QuietStep /\ Turned(c, Ended(c))
         /\ call[c].stage \notin Handling => Aside
<1>1. Ordinary(c, Ended(c)) /\ Ended(c).stage = "idle" /\ Leaves(c, Ended(c), {})
  BY OrdinaryEnd, EndedTyped DEF Leaves
<1> QED BY <1>1, QuietAction DEF Handling

\* Every failed attempt is quiet.
LEMMA FailedStep ==
  ASSUME TypeInv, EntryInv, RestTyped', PlaysKept, NEW c \in Calls, NEW error,
         call[c].stage \notin Cleaning \cup Opening \cup {"register"} \cup Handling,
         NEW gone, gone \subseteq Listed, Leaves(c, Failed(c, error), gone)
  PROVE  QuietStep /\ Aside
<1>1. Ordinary(c, Failed(c, error)) /\ Failed(c, error).stage \notin Handling
  BY OrdinaryFailed, FailedTyped DEF Handling
<1> QED BY <1>1, QuietAction

\* Lookup, unless it opens the binding.
LEMMA LookupQuietStep ==
  ASSUME TypeInv, EntryInv, NEW c \in Calls, Lookup(c), play' = play, cleanup' = cleanup
  PROVE  QuietStep /\ Aside
<1> DEFINE p == call[c].play  m == call[c].media
<1>1. call[c].stage = "lookup" /\ RestTyped' /\ PlaysKept /\ play \in [Plays -> Play]
  BY RestSame, PlaysSame DEF Lookup, TypeInv
<1>2. Fits(call[c], "lookup") /\ call[c] \in CallState
  BY <1>1, CallAt DEF Cleaning
<1>3. Finds(c, p, m) => p \in Plays /\ p \in Listed \ Expired /\ m \in Media
  BY ListedSets DEF Finds, Alive, Has
<1>4. CASE ~Finds(c, p, m) /\ entries' = Without(Expired) /\ Onward(c, Failed(c, "final"), Expired)
  BY <1>1, <1>4, FailedStep, ListedSets DEF Leaves, Cleaning, Opening, Handling
<1>5. CASE Finds(c, p, m) /\ entries' = Touched(p, Expired) /\ Onward(c, Opened(c), Expired)
  <2> DEFINE stage == IF call[c].request.kind = "stream" THEN "serve" ELSE "finish"
             next == [call[c] EXCEPT !.stage = stage, !.input = NoSource, !.on = Nobody,
                                     !.handle = SourceAt(c).handle]
  <2>1. SourceAt(c).handle \in 0..MaxRows
    BY <1>1, <1>3, <1>5 DEF SourceAt, Play, Source
  <2>2. NoSource \in Source
    BY Bounded, PlaySessionsAssumption DEF NoSource, Source
  <2>3. stage \in Stages /\ stage \in {"serve", "finish"}
    BY DEF Stages, Fetched
  <2>4. Opened(c) = next
    BY DEF Opened
  <2> HIDE DEF stage
  <2>5. next \in CallState
    BY <1>2, <2>1, <2>2, <2>3 DEF CallState
  <2>6. /\ next.stage = stage /\ next.options = call[c].options /\ next.stale = call[c].stale
        /\ next.unpin = call[c].unpin /\ next.drop = call[c].drop /\ next.old = call[c].old
        /\ next.next = call[c].next /\ next.error = call[c].error
    BY <1>2 DEF CallState
  <2> HIDE DEF next
  <2>7. call[c].stale = {} /\ call[c].unpin = {} /\ call[c].drop = {} /\ call[c].old = {}
        /\ call[c].next \notin Cleaning
    BY <1>1, CallAt DEF Cleaning
  <2>8. Fits(next, stage)
    BY <1>2, <2>3, <2>6 DEF Fits, Fetched, Opening, Handling
  <2>9. Ordinary(c, next)
    BY <2>3, <2>5, <2>6, <2>7, <2>8 DEF Ordinary, Cleaning, Direct, Opening, FreeStages, Handling, Leaving
  <2>10. Leaves(c, next, Expired)
    BY <1>3, <1>5, <2>4 DEF Leaves
  <2> QED BY <1>1, <2>3, <2>6, <2>9, <2>10, QuietAction, ListedSets DEF Cleaning, Opening, Handling
<1>6. CASE /\ Finds(c, p, m) /\ entries' = Without(Expired)
           /\ Onward(c, [At(c, "wait") EXCEPT !.on = SourceAt(c).opening], Expired)
  <2> DEFINE at == At(c, "wait")
             next == [at EXCEPT !.on = SourceAt(c).opening]
  <2>1. SourceAt(c).opening \in Calls \cup {Nobody}
    BY <1>1, <1>3, <1>6 DEF SourceAt, Play, Source
  <2>2. /\ at \in CallState /\ Keeps(call[c], at) /\ at.stage = "wait" /\ at.stale = {}
        /\ at.unpin = {} /\ at.drop = {} /\ at.old = {} /\ at.next \notin Cleaning
    BY <1>1, TurnAt DEF Stages, Fetched, Cleaning
  <2> HIDE DEF at
  <2>5. next \in CallState
    BY <2>1, <2>2 DEF CallState
  <2>6. /\ next.stage = "wait" /\ next.options = call[c].options /\ next.stale = {}
        /\ next.unpin = {} /\ next.drop = {} /\ next.old = {} /\ next.next \notin Cleaning
        /\ next.error = call[c].error /\ next.handle = call[c].handle
    BY <2>2 DEF CallState, Keeps
  <2>10. Leaves(c, next, Expired)
    BY <1>6 DEF Leaves, at
  <2> HIDE DEF next
  <2>8. Fits(next, "wait")
    BY <1>2, <2>6 DEF Fits, Fetched, Opening, Handling
  <2>9. Ordinary(c, next)
    BY <2>5, <2>6, <2>8 DEF Ordinary, Cleaning, Direct, Opening, FreeStages, Handling, Leaving
  <2> QED BY <1>1, <2>6, <2>9, <2>10, QuietAction, ListedSets DEF Cleaning, Opening, Handling
<1>7. CASE entries' = Without(Expired) /\ Onward(c, Failed(c, "final"), Expired)
  BY <1>1, <1>7, FailedStep, ListedSets DEF Leaves, Cleaning, Opening, Handling
<1>8. ASSUME NEW q \in Plays, NEW n \in Media, Finds(c, q, n), SourceAt(c).opening = Nobody,
             play' = [play EXCEPT ![q].source[n].opening = c], q = p, n = m
      PROVE  FALSE
  <2>3. play[q] \in Play /\ play[q].source \in [Media -> Source] /\ play[q].source[n] \in Source
    BY <1>1 DEF Play
  <2>4. play'[q] = [play[q] EXCEPT !.source[n].opening = c]
    BY <1>1, <1>8, Zenon
  <2>1. play'[q].source[n].opening = c
    BY <2>3, <2>4 DEF Play, Source
  <2>2. play'[q].source[n].opening = Nobody
    BY <1>8, Zenon DEF SourceAt
  <2> QED BY <2>1, <2>2, PlaySessionsAssumption DEF Nobody
<1> QED
  <2>1. CASE Finds(c, p, m) /\ SourceAt(c).opening = Nobody /\ play' = [play EXCEPT ![p].source[m].opening = c]
    BY <1>3, <1>8, <2>1, Zenon
  <2> QED BY <1>4, <1>5, <1>6, <1>7, <2>1 DEF Lookup

\* Nothing fetched, while a request has not asked the providers.
LEMMA NoOptions ==
  ASSUME TypeInv, NEW c \in Calls, call[c].stage \notin Fetched \cup Cleaning
  PROVE  call[c].options = <<>>
BY CallAt DEF Fits

\* Serving changes no entry.
LEMMA ServeStep ==
  ASSUME TypeInv, EntryInv, NEW c \in Calls, Serve(c)
  PROVE  QuietStep /\ Aside
<1> DEFINE stage == IF call[c].handle \in OpenRows THEN "finish" ELSE "abandon"
           at == At(c, stage)
           next == [at EXCEPT !.handle = 0]
<1>1. call[c].stage = "serve" /\ RestTyped' /\ PlaysKept /\ Goes(c, next) /\ entries' = entries
  BY RestSame, PlaysSame DEF Serve
<1>2. Fits(call[c], "serve")
  BY <1>1, CallAt DEF Cleaning
<1>3. stage \in {"finish", "abandon"} /\ stage \in Stages
  BY DEF Stages, Fetched
<1> HIDE DEF stage
<1>4. /\ at \in CallState /\ Keeps(call[c], at) /\ at.stage = stage /\ at.stale = {}
      /\ at.unpin = {} /\ at.drop = {} /\ at.old = {} /\ at.next \notin Cleaning
  BY <1>1, <1>3, TurnAt DEF Cleaning
<1>5. 0 \in 0..MaxRows
  BY Bounded
<1> HIDE DEF at
<1>6. /\ next \in CallState /\ next.stage = stage /\ next.stale = {} /\ next.unpin = {}
      /\ next.drop = {} /\ next.old = {} /\ next.next \notin Cleaning
      /\ next.options = call[c].options /\ next.handle = 0 /\ next.error = call[c].error
  BY <1>4, <1>5 DEF CallState, Keeps
<1> HIDE DEF next
<1>7. Fits(next, stage)
  BY <1>2, <1>3, <1>6 DEF Fits, Fetched, Opening, Handling
<1>8. Ordinary(c, next)
  BY <1>3, <1>6, <1>7 DEF Ordinary, Cleaning, Direct, Opening, FreeStages, Handling, Leaving
<1>9. Leaves(c, next, {})
  BY <1>1 DEF Leaves
<1> QED BY <1>1, <1>3, <1>6, <1>8, <1>9, QuietAction DEF Cleaning, Opening, Handling

\* A play session that was found is removed.
LEMMA RemovedLeaves ==
  ASSUME NEW c \in Calls, NEW next, NEW m, Removed(c, next, Finds(c, call[c].play, m))
  PROVE  \E gone \in SUBSET Listed : Leaves(c, next, gone)
<1>1. CASE Finds(c, call[c].play, m)
  <2>1. {call[c].play} \subseteq Listed
    BY <1>1, ListedSets DEF Finds, Alive
  <2> QED BY <1>1, <2>1 DEF Removed, Leaves
<1>2. CASE ~Finds(c, call[c].play, m)
  BY <1>2 DEF Removed, Leaves
<1> QED BY <1>1, <1>2

\* Abandoning takes one entry out.
LEMMA AbandonStep ==
  ASSUME TypeInv, EntryInv, NEW c \in Calls, Abandon(c)
  PROVE  QuietStep /\ Aside
<1>1. call[c].stage = "abandon" /\ RestTyped' /\ PlaysKept
  BY RestSame, PlaysSame DEF Abandon
<1>2. PICK gone \in SUBSET Listed : Leaves(c, At(c, "finish"), gone)
  BY RemovedLeaves DEF Abandon
<1>3. Fits(call[c], "finish") /\ "finish" \in Stages
  BY <1>1, CallAt DEF Cleaning, Fits, Fetched, Opening, Handling, Stages
<1> QED BY <1>1, <1>2, <1>3, AtStep DEF Cleaning, Direct, Opening, FreeStages, Handling, Leaving

\* A logout takes out the entries of the session.
LEMMA LogoutStep ==
  ASSUME TypeInv, EntryInv, NEW c \in Calls, Logout(c)
  PROVE  QuietStep /\ Aside
<1>1. call[c].stage = "logout" /\ PlaysKept
  BY PlaysSame DEF Logout
<1>2. Leaves(c, At(c, "forget"), {})
  BY DEF Logout, Leaves
<1>3. Fits(call[c], "forget") /\ "forget" \in Stages /\ call[c].request.session \in Sessions
  BY <1>1, CallAt DEF Cleaning, Fits, Fetched, Opening, Handling, Stages, CallState, Asked
<1>4. RestTyped'
  BY <1>3 DEF Logout, TypeInv, RestTyped, Chances
<1> QED BY <1>1, <1>2, <1>3, <1>4, AtStep DEF Cleaning, Direct, Opening, FreeStages, Handling, Leaving

\* Closing a session takes out its entries.
LEMMA CloseSessionStep ==
  ASSUME TypeInv, EntryInv, NEW c \in Calls, CloseSession(c)
  PROVE  QuietStep /\ Aside
<1> DEFINE own == {p \in Listed : Owns(c, p)}
<1>1. call[c].stage = "forget" /\ PlaysKept
  BY PlaysSame DEF CloseSession
<1>2. Leaves(c, At(c, "finish"), own)
  BY DEF CloseSession, Leaves
<1>3. Fits(call[c], "finish") /\ "finish" \in Stages /\ call[c].request.session \in Sessions
  BY <1>1, CallAt DEF Cleaning, Fits, Fetched, Opening, Handling, Stages, CallState, Asked
<1>4. RestTyped'
  BY <1>3 DEF CloseSession, TypeInv, RestTyped, Chances
<1> HIDE DEF own
<1>5. own \subseteq Listed
  BY DEF own
<1> QED BY <1>1, <1>2, <1>3, <1>4, <1>5, AtStep DEF Cleaning, Direct, Opening, FreeStages, Handling, Leaving

\* The reaper takes out what expired.
LEMMA ReapStep ==
  ASSUME TypeInv, EntryInv, NEW c \in Calls, Reap(c)
  PROVE  QuietStep /\ Aside
<1>1. call[c].stage = "reap" /\ PlaysKept /\ RestTyped' /\ Leaves(c, At(c, "finish"), Expired)
  BY PlaysSame, RestSame DEF Reap, Leaves
<1>2. Fits(call[c], "finish") /\ "finish" \in Stages
  BY <1>1, CallAt DEF Cleaning, Fits, Fetched, Opening, Handling, Stages
<1> QED BY <1>1, <1>2, AtStep, ListedSets DEF Cleaning, Direct, Opening, FreeStages, Handling, Leaving

\* A reset takes out every entry.
LEMMA ResetStep ==
  ASSUME TypeInv, EntryInv, NEW c \in Calls, ResetCache(c)
  PROVE  QuietStep /\ Aside
<1>1. PlaysKept /\ entries' = entries
  BY PlaysSame DEF ResetCache
<1>2. CASE /\ call[c].stage = "reset" /\ UNCHANGED refs /\ Goes(c, At(c, "clear"))
           /\ row' = [h \in Handles |-> [row[h] EXCEPT !.at = IF @ = "open" THEN "closed" ELSE @]]
  <2>1. Fits(call[c], "clear") /\ "clear" \in Stages
    BY <1>2, CallAt DEF Cleaning, Fits, Fetched, Opening, Handling, Stages
  <2>2. RestTyped'
    <3>1. row' \in [Handles -> Row]
      BY <1>2 DEF TypeInv, RestTyped, Row
    <3> QED BY <1>2, <3>1 DEF ResetCache, TypeInv, RestTyped, Chances
  <2>3. Leaves(c, At(c, "clear"), {})
    BY <1>1, <1>2 DEF Leaves
  <2> QED BY <1>1, <1>2, <2>1, <2>2, <2>3, AtStep DEF Cleaning, Direct, Opening, FreeStages, Handling, Leaving
<1>3. CASE call[c].stage = "clear" /\ Withdraw(Stored) /\ UNCHANGED row /\ Goes(c, Ended(c))
  <2>1. RestTyped'
    <3>1. refs' \in [Refs -> Reference]
      BY <1>3 DEF TypeInv, RestTyped, Withdraw, Reference
    <3> QED BY <1>3, <3>1 DEF ResetCache, TypeInv, RestTyped, Chances
  <2>2. call[c].options = <<>>
    BY <1>3, NoOptions DEF Fetched, Cleaning
  <2> QED BY <1>1, <1>3, <2>1, <2>2, EndStep DEF Cleaning, Opening, Handling
<1> QED BY <1>2, <1>3 DEF ResetCache

\* Retiring marks the queue and goes on to close everything.
LEMMA RetireStep ==
  ASSUME TypeInv, EntryInv, NEW c \in Calls, Retire(c)
  PROVE  QuietStep /\ Aside
<1>1. call[c].stage = "retire" /\ PlaysKept /\ Leaves(c, At(c, "closeAll"), {})
  BY PlaysSame DEF Retire, Leaves
<1>2. Fits(call[c], "closeAll") /\ "closeAll" \in Stages
  BY <1>1, CallAt DEF Cleaning, Fits, Fetched, Opening, Handling, Stages
<1>3. RestTyped' /\ cleanup'.retiring
  BY DEF Retire, TypeInv, RestTyped, Chances, Cleanup
<1> QED BY <1>1, <1>2, <1>3, AtStep DEF Cleaning, Direct, Opening, FreeStages, Handling, Leaving

\* Closing everything takes out every entry.
LEMMA CloseAllStep ==
  ASSUME TypeInv, EntryInv, NEW c \in Calls, CloseAll(c)
  PROVE  QuietStep /\ Aside
<1>1. call[c].stage = "closeAll" /\ PlaysKept /\ RestTyped' /\ entries' = Without(Listed)
  BY PlaysSame, RestSame DEF CloseAll
<1>2. Leaves(c, At(c, "drain"), Listed)
  <2>1. [At(c, "drain") EXCEPT !.stage = "detach", !.stale = Listed, !.next = At(c, "drain").stage]
          = [At(c, "detach") EXCEPT !.stale = Listed, !.next = "drain"]
    <3>1. call[c] \in CallState
      BY DEF TypeInv
    <3> QED BY <3>1 DEF At, CallState
  <2> QED BY <1>1, <2>1 DEF CloseAll, Leaves
<1>3. Fits(call[c], "drain") /\ "drain" \in Stages
  BY <1>1, CallAt DEF Cleaning, Fits, Fetched, Opening, Handling, Stages
<1> QED BY <1>1, <1>2, <1>3, AtStep DEF Cleaning, Direct, Opening, FreeStages, Handling, Leaving

\* Draining ends when the queue is done with, or given up.
LEMMA DrainStep ==
  ASSUME TypeInv, EntryInv, NEW c \in Calls, Drain(c)
  PROVE  QuietStep /\ Aside
<1>1. call[c].stage = "drain" /\ PlaysKept /\ entries' = entries /\ Goes(c, Ended(c))
  BY PlaysSame DEF Drain
<1>2. call[c].options = <<>>
  BY <1>1, NoOptions DEF Fetched, Cleaning
<1>3. cleanup' \in Cleanup /\ lost' \subseteq Handles
  <2>1. cleanup \in Cleanup /\ lost \subseteq Handles /\ Waiting \subseteq Handles
    BY DEF TypeInv, RestTyped, Waiting
  <2>2. CASE cleanup' = [cleanup EXCEPT !.over = TRUE] /\ UNCHANGED lost
    BY <2>1, <2>2 DEF Cleanup
  <2>3. CASE /\ cleanup' = [cleanup EXCEPT !.over = TRUE, !.abandoned = TRUE, !.owned = {}, !.reserved = 0,
                  !.pending = [h \in Handles |-> IF h \in Waiting THEN "none" ELSE @[h]]]
             /\ lost' = lost \cup Waiting
    BY <2>1, <2>3 DEF Cleanup
  <2> QED BY <2>2, <2>3 DEF Drain
<1>4. RestTyped'
  BY <1>3 DEF Drain, TypeInv, RestTyped, Chances
<1> QED BY <1>1, <1>2, <1>4, EndStep DEF Cleaning, Opening, Handling

\* A request begins without options, and with nothing to clean up.
LEMMA BeginStep ==
  ASSUME TypeInv, EntryInv, NEW c \in Calls, Begin(c)
  PROVE  QuietStep /\ Aside
<1> DEFINE r == Head(call[c].todo)
           tail == Tail(call[c].todo)
           request == [kind |-> r.kind, session |-> r.session, capabilities |-> r.capabilities,
                       preference |-> r.preference, start |-> r.start]
           Stage(m) == CASE r.kind = "info" -> IF m = 0 THEN "options" ELSE "cached"
                         [] r.kind = "stream" -> "lookup"
                         [] r.kind \in {"progress", "stop"} -> "claim"
                         [] OTHER -> r.kind
           idle == Idle(tail)
<1>1. call[c].stage = "idle" /\ PlaysKept /\ RestTyped' /\ entries' = entries
  BY PlaysSame, RestSame DEF Begin
<1>2. call[c].todo \in Seq(Request) /\ call[c].todo # <<>>
  BY DEF TypeInv, CallState, Begin
<1>3. r \in Request /\ tail \in Seq(Request)
  BY <1>2
<1>4. idle \in CallState /\ idle.stale = {} /\ idle.unpin = {} /\ idle.drop = {} /\ idle.old = {}
      /\ idle.next = "idle" /\ idle.options = <<>> /\ idle.handle = 0 /\ idle.error = ""
  BY <1>3, IdleTyped DEF Idle
<1>5. call[c].options = <<>>
  BY <1>1, NoOptions DEF Fetched, Cleaning
<1>6. PICK m \in r.media, p \in IF r.kind = "reap" THEN {0} ELSE r.plays :
        Goes(c, [idle EXCEPT !.request = request, !.play = p, !.media = m, !.stage = Stage(m)])
  BY Zenon DEF Begin
<1> HIDE DEF r, tail
<1>7. m \in 0..2 /\ p \in 0..MaxPlays /\ request \in Asked
  BY <1>3, <1>6, Bounded DEF Request, Asked
<1>8. Stage(m) \in {"options", "cached", "lookup", "claim", "logout", "reap", "reset", "retire"}
  BY <1>3 DEF Request
<1> HIDE DEF Stage, request, idle
<1> DEFINE next == [idle EXCEPT !.request = request, !.play = p, !.media = m, !.stage = Stage(m)]
<1>9. Stage(m) \in Stages
  BY <1>8 DEF Stages, Fetched
<1>10. /\ next \in CallState /\ next.stage = Stage(m) /\ next.stale = {} /\ next.unpin = {}
       /\ next.drop = {} /\ next.old = {} /\ next.next = "idle" /\ next.options = <<>>
       /\ next.handle = 0 /\ next.error = ""
  BY <1>4, <1>7, <1>9 DEF CallState
<1>11. Leaves(c, next, {})
  BY <1>1, <1>6 DEF Leaves
<1> HIDE DEF next
<1>12. Fits(next, Stage(m))
  <2>2. Len(<<>>) = 0
    OBVIOUS
  <2>1. Len(next.options) <= 2
    <3>1. next.options = <<>>
      BY <1>10
    <3> QED BY <3>1, <2>2
  <2> QED BY <1>8, <1>10, <2>1 DEF Fits, Opening, Handling
<1>13. Ordinary(c, next)
  BY <1>5, <1>8, <1>10, <1>12 DEF Ordinary, Cleaning, Direct, Opening, FreeStages, Handling, Leaving
<1>14. next.stage \notin Handling /\ call[c].stage \notin Cleaning \cup Opening \cup {"register"} \cup Handling
  BY <1>1, <1>8, <1>10 DEF Cleaning, Opening, Handling
<1> QED BY <1>1, <1>11, <1>13, <1>14, QuietAction

\* The client goes away.
LEMMA GiveUpStep ==
  ASSUME TypeInv, EntryInv, NEW c \in Calls, GiveUp(c)
  PROVE  /\ QuietStep /\ call[c].stage \in {"wait", "lease"}
         /\ call[c].stage = "wait" => Aside
         /\ call[c].stage = "lease" => Turned(c, Ended(c))
<1>1. PlaysKept /\ RestTyped' /\ entries' = entries
  BY PlaysSame, RestSame DEF GiveUp
<1>2. CASE call[c].stage = "wait" /\ Goes(c, Failed(c, "final"))
  <2>1. Leaves(c, Failed(c, "final"), {})
    BY <1>1, <1>2 DEF Leaves
  <2> QED BY <1>1, <1>2, <2>1, FailedStep DEF Cleaning, Opening, Handling
<1>3. CASE call[c].stage = "lease" /\ Goes(c, Ended(c))
  <2>1. call[c].options = <<>>
    BY <1>3, NoOptions DEF Fetched, Cleaning
  <2> QED BY <1>1, <1>3, <2>1, EndStep DEF Cleaning, Opening, Handling
<1> QED BY <1>2, <1>3 DEF GiveUp

-----------------------------------------------------------------------------
(* Events. *)

\* An event waits for the lease of the play session it means, or ends.
LEMMA ClaimEventStep ==
  ASSUME TypeInv, EntryInv, NEW c \in Calls, ClaimEvent(c)
  PROVE  /\ QuietStep /\ call[c].stage = "claim"
         /\ \E stage \in {"lease", "finish"}, next \in CallState : next.stage = stage /\ Turned(c, next)
<1>1. call[c].stage = "claim" /\ PlaysKept /\ RestTyped' /\ call[c] \in CallState
  BY PlaysSame, RestSame DEF ClaimEvent, TypeInv
<1>2. CASE Onward(c, At(c, "finish"), Expired) /\ entries' = Without(Expired)
  <2>1. Fits(call[c], "finish") /\ "finish" \in Stages
    BY <1>1, CallAt DEF Cleaning, Fits, Fetched, Opening, Handling, Stages
  <2>2. Leaves(c, At(c, "finish"), Expired)
    BY <1>2 DEF Leaves
  <2>3. QuietStep /\ Turned(c, At(c, "finish")) /\ At(c, "finish").stage = "finish"
    BY <1>1, <2>1, <2>2, AtStep, ListedSets DEF Cleaning, Direct, Opening, FreeStages, Handling, Leaving
  <2>4. At(c, "finish") \in CallState
    BY <1>1, <2>1, TurnAt DEF Cleaning
  <2> QED BY <1>1, <2>3, <2>4
<1>3. ASSUME NEW p \in Meant(c), NEW m \in Resolved(c, p), entries' = Without(Expired),
             Onward(c, [At(c, "lease") EXCEPT !.play = p, !.media = m], Expired)
      PROVE  /\ QuietStep
             /\ \E stage \in {"lease", "finish"}, next \in CallState : next.stage = stage /\ Turned(c, next)
  <2> DEFINE at == At(c, "lease")
             next == [at EXCEPT !.play = p, !.media = m]
  <2>1. p \in Listed
    <3>1. CASE Resolved(c, call[c].play) # {} /\ p = call[c].play
      BY <3>1, ListedSets DEF Resolved, Finds, Alive
    <3>2. CASE p \in Current
      BY <3>2, ListedSets
    <3> QED BY <3>1, <3>2 DEF Meant
  <2>2. m \in 0..2
    <3>1. Resolved(c, p) \subseteq {call[c].media} \cup Delivered(p)
      BY DEF Resolved
    <3>2. Delivered(p) \subseteq 0..2 /\ call[c].media \in 0..2
      <4>1. Delivered(p) \subseteq Media
        BY DEF Delivered
      <4>2. Media \subseteq 0..2
        BY DEF Media
      <4>3. call[c].media \in 0..2
        BY <1>1 DEF CallState
      <4> QED BY <4>1, <4>2, <4>3
    <3> QED BY <3>1, <3>2
  <2>3. p \in Plays /\ p \in 0..MaxPlays /\ play[p].revision > 0
    BY <2>1, Bounded DEF Listed, Plays, EntryInv
  <2>4. /\ at \in CallState /\ Keeps(call[c], at) /\ at.stage = "lease" /\ at.stale = {}
        /\ at.unpin = {} /\ at.drop = {} /\ at.old = {} /\ at.next \notin Cleaning
    BY <1>1, TurnAt DEF Stages, Handling, Cleaning
  <2>5. Fits(call[c], "claim")
    BY <1>1, CallAt DEF Cleaning
  <2>11. Leaves(c, next, Expired)
    BY <1>3 DEF Leaves
  <2> HIDE DEF at
  <2>6. /\ next \in CallState /\ next.stage = "lease" /\ next.stale = {} /\ next.unpin = {}
        /\ next.drop = {} /\ next.old = {} /\ next.next \notin Cleaning /\ next.play = p
        /\ next.options = call[c].options /\ next.handle = call[c].handle /\ next.error = call[c].error
    BY <2>2, <2>3, <2>4 DEF CallState, Keeps
  <2> HIDE DEF next
  <2>7. Fits(next, "lease")
    BY <2>3, <2>5, <2>6 DEF Fits, Fetched, Opening, Handling
  <2>8. Ordinary(c, next)
    BY <2>3, <2>6, <2>7 DEF Ordinary, Cleaning, Direct, Opening, FreeStages, Handling, Leaving
  <2>9. QuietStep /\ Turned(c, next)
    BY <1>1, <2>6, <2>8, <2>11, QuietAction, ListedSets DEF Cleaning, Opening, Handling
  <2> QED BY <2>6, <2>9
<1> QED BY <1>1, <1>2, <1>3 DEF ClaimEvent

\* A lease changes nothing else of a play session.
LEMMA LeasePlays ==
  ASSUME TypeInv, NEW p \in Plays, play[p].revision > 0, NEW d \in Calls \cup {Nobody},
         play' = [play EXCEPT ![p].lease = d]
  PROVE  /\ PlaysKept
         /\ \A q \in Plays : /\ q # p => play'[q] = play[q]
                             /\ play'[q].session = play[q].session /\ play'[q].live = play[q].live
                             /\ play'[q].source = play[q].source
                             /\ play'[q].revision = play[q].revision
                             /\ play'[q].capabilities = play[q].capabilities
                             /\ play'[q].preference = play[q].preference
         /\ play'[p].lease = d
<1>1. play \in [Plays -> Play]
  BY DEF TypeInv
<1>2. play' \in [Plays -> Play]
  BY <1>1 DEF Play
<1>3. \A q \in Plays : q # p => play'[q] = play[q]
  BY <1>1
<1>4. /\ play'[p].pinned = play[p].pinned /\ play'[p].revision = play[p].revision
      /\ play'[p].source = play[p].source /\ play'[p].lease = d
      /\ play'[p].session = play[p].session /\ play'[p].live = play[p].live
      /\ play'[p].capabilities = play[p].capabilities /\ play'[p].preference = play[p].preference
  BY <1>1 DEF Play
<1>5. \A q \in Plays : play[q].revision \in Nat
  BY <1>1 DEF Play
<1> QED BY <1>2, <1>3, <1>4, <1>5 DEF PlaysKept

\* Who takes the lease checks again what the event means.
LEMMA LeaseStep ==
  ASSUME TypeInv, EntryInv, NEW c \in Calls, Lease(c)
  PROVE  QuietStep /\ Turned(c, At(c, "recheck"))
<1>1. call[c].stage = "lease" /\ RestTyped' /\ entries' = entries
  BY RestSame DEF Lease
<1>2. call[c].play \in Plays /\ play[call[c].play].revision > 0
  BY <1>1, CallAt DEF Cleaning, Fits, Handling, EntryInv
<1>3. PlaysKept
  BY <1>2, LeasePlays DEF Lease
<1>4. Leaves(c, At(c, "recheck"), {})
  BY <1>1 DEF Lease, Leaves
<1>5. Fits(call[c], "recheck") /\ "recheck" \in Stages
  BY <1>1, CallAt DEF Cleaning, Fits, Fetched, Opening, Handling, Stages
<1> QED BY <1>1, <1>3, <1>4, <1>5, AtStep DEF Cleaning, Direct, Opening, FreeStages, Handling, Leaving

\* The event is applied if it still means the play session.
LEMMA RecheckStep ==
  ASSUME TypeInv, EntryInv, NEW c \in Calls, Recheck(c)
  PROVE  QuietStep /\ Turned(c, At(c, IF StillMeant(c) THEN "apply" ELSE "free"))
<1>1. call[c].stage = "recheck" /\ RestTyped' /\ PlaysKept
  BY RestSame, PlaysSame DEF Recheck
<1>2. \A stage \in {"apply", "free"} : Fits(call[c], stage) /\ stage \in Stages
  BY <1>1, CallAt DEF Cleaning, Fits, Fetched, Opening, Handling, Stages
<1>3. CASE StillMeant(c)
  <2>1. call[c].play \in Listed \ Expired
    BY <1>3, ListedSets DEF StillMeant, Finds, Alive
  <2>2. Leaves(c, At(c, "apply"), Expired)
    BY <1>3, <2>1 DEF Recheck, Leaves
  <2> QED BY <1>1, <1>2, <1>3, <2>2, AtStep, ListedSets DEF Cleaning, Direct, Opening, FreeStages, Handling, Leaving
<1>4. CASE ~StillMeant(c)
  <2>1. Leaves(c, At(c, "free"), Expired)
    BY <1>4 DEF Recheck, Leaves
  <2> QED BY <1>1, <1>2, <1>4, <2>1, AtStep, ListedSets DEF Cleaning, Direct, Opening, FreeStages, Handling, Leaving
<1> QED BY <1>3, <1>4

\* A stored Stopped event ends the play session next; any other sets the lease free.
LEMMA ApplyStep ==
  ASSUME TypeInv, EntryInv, NEW c \in Calls, Apply(c)
  PROVE  /\ QuietStep
         /\ \/ /\ stopped' = stopped \cup {<<call[c].play, call[c].media>>}
               /\ Turned(c, At(c, "end")) /\ call'[c].stage = "end"
            \/ stopped' = stopped /\ Turned(c, At(c, "free"))
<1>1. call[c].stage = "apply" /\ RestTyped' /\ PlaysKept /\ entries' = entries
  BY RestSame, PlaysSame DEF Apply
<1>2. \A stage \in {"end", "free"} : Fits(call[c], stage) /\ stage \in Stages
  BY <1>1, CallAt DEF Cleaning, Fits, Fetched, Opening, Handling, Stages
<1>3. ASSUME NEW stage \in {"end", "free"}, Goes(c, At(c, stage))
      PROVE  QuietStep /\ Turned(c, At(c, stage))
  <2>1. Leaves(c, At(c, stage), {})
    BY <1>1, <1>3 DEF Leaves
  <2> QED BY <1>1, <1>2, <1>3, <2>1, AtStep DEF Cleaning, Direct, Opening, FreeStages, Handling, Leaving
<1>4. ASSUME Goes(c, At(c, "end")) PROVE call'[c].stage = "end"
  BY <1>4 DEF Goes, At, TypeInv, CallState
<1> QED BY <1>3, <1>4 DEF Apply

\* The play session of a Stopped event is taken out, or has gone already.
LEMMA EndStoppedStep ==
  ASSUME TypeInv, EntryInv, NEW c \in Calls, EndStopped(c)
  PROVE  QuietStep /\ Turned(c, At(c, "free"))
<1>1. call[c].stage = "end" /\ RestTyped' /\ PlaysKept
  BY RestSame, PlaysSame DEF EndStopped
<1>2. Fits(call[c], "free") /\ "free" \in Stages
  BY <1>1, CallAt DEF Cleaning, Fits, Fetched, Opening, Handling, Stages
<1>3. PICK gone \in SUBSET Listed : Leaves(c, At(c, "free"), gone)
  BY RemovedLeaves DEF EndStopped, StillMeant
<1> QED BY <1>1, <1>2, <1>3, AtStep DEF Cleaning, Direct, Opening, FreeStages, Handling, Leaving

\* The lease is given back and the request is over.
LEMMA ReleaseLeaseStep ==
  ASSUME TypeInv, EntryInv, NEW c \in Calls, ReleaseLease(c)
  PROVE  QuietStep /\ Turned(c, Ended(c))
<1>1. call[c].stage = "free" /\ RestTyped' /\ entries' = entries /\ Goes(c, Ended(c))
  BY RestSame DEF ReleaseLease
<1>2. call[c].play \in Plays /\ play[call[c].play].revision > 0
  BY <1>1, CallAt DEF Cleaning, Fits, Handling, EntryInv
<1>3. PlaysKept
  BY <1>2, LeasePlays DEF ReleaseLease
<1>4. call[c].options = <<>>
  BY <1>1, NoOptions DEF Fetched, Cleaning
<1> QED BY <1>1, <1>3, <1>4, EndStep DEF Cleaning, Opening, Handling

-----------------------------------------------------------------------------
(* What happens to no call. *)

\* A step outside the registry is quiet.
LEMMA StillStep ==
  ASSUME TypeInv, EntryInv, RestTyped', PlaysKept, call' = call, entries' = entries
  PROVE  QuietStep /\ Aside
<1>1. TypeInv'
  BY DEF TypeInv, Seated, PlaysKept
<1>2. Listed' = Listed
  BY DEF Listed
<1>3. Quiet /\ Aside
  BY DEF Quiet, Passive, Aside
<1>4. EntryInv'
  <2>1. \A p \in Plays : play[p].revision \in Nat /\ play'[p].revision \in Nat
    BY DEF TypeInv, PlaysKept, Play
  <2>2. \A c \in Calls : call[c].stale \subseteq Plays
    BY DEF TypeInv, CallState
  <2>3. \A c \in Calls : Phase(call[c]) \in Opening \cup Handling => call[c].play \in Plays
    BY DEF TypeInv, Tidy, Fits
  <2>4. \A p \in Plays, m \in Media : play[p].source[m].revision \in Nat
    BY DEF TypeInv, Play, Source
  <2>5. \A p \in Listed' : play'[p].pinned /\ play'[p].revision > 0
    BY <1>2, <2>1, ListedSets DEF EntryInv, PlaysKept
  <2>6. \A p \in Plays : play'[p].revision = 0 => play'[p] = NewPlay
    BY <2>1 DEF EntryInv, PlaysKept
  <2>7. \A c \in Calls : \A p \in call'[c].stale : p \notin Listed' /\ play'[p].revision > 0
    BY <1>2, <2>1, <2>2 DEF EntryInv, PlaysKept
  <2>8. \A c \in Calls : Phase(call'[c]) \in Opening \cup Handling => play'[call'[c].play].revision > 0
    BY <2>1, <2>3 DEF EntryInv, PlaysKept
  <2>9. \A p \in Plays : \A m \in Media :
       /\ play'[p].source[m].ref = 0 => play'[p].source[m].handle = 0
       /\ play'[p].source[m].revision <= play'[p].revision
    BY <2>1, <2>4 DEF EntryInv, PlaysKept
  <2> QED BY <2>5, <2>6, <2>7, <2>8, <2>9 DEF EntryInv
<1> QED BY <1>1, <1>2, <1>3, <1>4 DEF QuietStep

\* An entry expires where it is.
LEMMA ExpireStep ==
  ASSUME TypeInv, EntryInv, NEW p \in Plays, Expire(p)
  PROVE  QuietStep /\ Aside
<1>1. RestTyped' /\ play' = [play EXCEPT ![p].live = FALSE] /\ play[p].revision > 0
  BY RestSame, ListedSets DEF Expire, EntryInv
<1>2. play \in [Plays -> Play] /\ play' \in [Plays -> Play]
  BY <1>1 DEF TypeInv, Play
<1>3. \A q \in Plays \ {p} : play'[q] = play[q]
  BY <1>1, <1>2
<1>4. /\ play'[p].pinned = play[p].pinned /\ play'[p].revision = play[p].revision
      /\ play'[p].source = play[p].source
  BY <1>1, <1>2 DEF Play
<1>5. \A q \in Plays : play[q].revision \in Nat
  BY <1>2 DEF Play
<1>6. PlaysKept
  BY <1>1, <1>2, <1>3, <1>4, <1>5 DEF PlaysKept
<1> QED BY <1>1, <1>6, StillStep DEF Expire

\* References expire, deliveries are closed.
LEMMA EnvironmentStep ==
  ASSUME TypeInv, EntryInv,
         \/ \E r \in Refs : ReferenceExpires(r)
         \/ \E h \in Handles : RowIdle(h) \/ Lapse(h) \/ CloseDelivery(h) \/ RetryDue(h)
         \/ ClaimDue
  PROVE  QuietStep /\ Aside
<1>1. /\ refs \in [Refs -> Reference] /\ row \in [Handles -> Row] /\ cleanup \in Cleanup /\ Chances
      /\ lost \subseteq Handles
  BY DEF TypeInv, RestTyped
<1>2. CASE \E r \in Refs : ReferenceExpires(r)
  <2>1. refs' \in [Refs -> Reference]
    BY <1>1, <1>2 DEF ReferenceExpires, ExpireReference, Reference
  <2>2. RestTyped'
    BY <1>2, <2>1 DEF ReferenceExpires, TypeInv, RestTyped, Chances
  <2> QED BY <1>2, <2>2, StillStep, PlaysSame DEF ReferenceExpires
<1>3. ASSUME NEW h \in Handles, RowIdle(h) PROVE QuietStep /\ Aside
  <2>1. row' \in [Handles -> Row]
    BY <1>1, <1>3 DEF RowIdle, Row
  <2>2. RestTyped'
    BY <1>3, <2>1 DEF RowIdle, TypeInv, RestTyped, Chances
  <2> QED BY <1>3, <2>2, StillStep, PlaysSame DEF RowIdle
<1>4. ASSUME NEW h \in Handles PROVE Settled(h) \in Cleanup
  BY <1>1 DEF Settled, Cleanup
<1>5. ASSUME NEW h \in Handles, NEW to \in {"wait", "due"}
      PROVE  [cleanup EXCEPT !.pending[h] = to] \in Cleanup
  BY <1>1 DEF Cleanup
<1>6. ASSUME NEW h \in Handles, Lapse(h) PROVE QuietStep /\ Aside
  <2>1. RestTyped'
    BY <1>4, <1>6 DEF Lapse, TypeInv, RestTyped, Chances
  <2> QED BY <1>6, <2>1, StillStep, PlaysSame DEF Lapse
<1>7. ASSUME NEW h \in Handles, CloseDelivery(h) PROVE QuietStep /\ Aside
  <2>1. cleanup' \in Cleanup /\ lost' \subseteq Handles
    BY <1>1, <1>4, <1>5, <1>7 DEF CloseDelivery
  <2>2. row' \in [Handles -> Row]
    BY <1>1, <1>7 DEF CloseDelivery, Row
  <2>3. Chances'
    BY <1>1, <1>7 DEF CloseDelivery, Chances, Chance
  <2>4. RestTyped'
    BY <1>7, <2>1, <2>2, <2>3 DEF CloseDelivery, TypeInv, RestTyped
  <2> QED BY <1>7, <2>4, StillStep, PlaysSame DEF CloseDelivery
<1>8. ASSUME NEW h \in Handles, RetryDue(h) PROVE QuietStep /\ Aside
  <2>1. RestTyped'
    BY <1>5, <1>8 DEF RetryDue, TypeInv, RestTyped, Chances
  <2> QED BY <1>8, <2>1, StillStep, PlaysSame DEF RetryDue
<1>9. CASE ClaimDue
  <2>1. Claimed({}, FALSE) \in Cleanup
    BY <1>1 DEF Claimed, Cleanup
  <2>2. RestTyped'
    BY <1>9, <2>1 DEF ClaimDue, TypeInv, RestTyped, Chances
  <2> QED BY <1>9, <2>2, StillStep, PlaysSame DEF ClaimDue
<1> QED BY <1>2, <1>3, <1>6, <1>7, <1>8, <1>9

-----------------------------------------------------------------------------
(* The other turns. *)

\* What every entry satisfies.
Sound(entry) ==
  /\ entry.revision = 0 => entry = NewPlay
  /\ \A m \in Media : /\ entry.source[m].ref = 0 => entry.source[m].handle = 0
                      /\ entry.source[m].revision <= entry.revision

\* What is asked of a call that has changed.
Sane(d) ==
  /\ Tidy(call'[d])
  /\ \A p \in call'[d].stale : p \notin Listed' /\ play[p].revision > 0
  /\ Phase(call'[d]) \in Opening \cup Handling => play[call'[d].play].revision > 0

\* What is to be shown of a step that moves a reference or a delivery, to keep types and entries.
LEMMA OneTurn ==
  ASSUME TypeInv, EntryInv, RestTyped', play' \in [Plays -> Play], Seated(entries'),
         call' \in [Calls -> CallState], \A d \in Calls : call'[d] = call[d] \/ Sane(d),
         \A p \in Plays : play'[p].revision >= play[p].revision /\ Sound(play'[p]),
         \A p \in Listed' : /\ p \in Listed \/ play[p].revision = 0
                            /\ play'[p].pinned /\ play'[p].revision > 0
  PROVE  TypeInv' /\ EntryInv'
<1>1. TypeInv'
  BY DEF TypeInv, Sane
<1>2. \A p \in Plays : play[p].revision \in Nat /\ play'[p].revision \in Nat
  BY DEF TypeInv, Play
<1>3. \A d \in Calls : call'[d].stale \subseteq Plays
  BY DEF CallState
<1>4. \A d \in Calls : Phase(call'[d]) \in Opening \cup Handling => call'[d].play \in Plays
  BY <1>1 DEF TypeInv, Tidy, Fits
<1>5. \A d \in Calls : \A p \in call'[d].stale : p \notin Listed' /\ play'[p].revision > 0
  BY <1>2, <1>3 DEF EntryInv, Sane
<1>6. \A d \in Calls : Phase(call'[d]) \in Opening \cup Handling => play'[call'[d].play].revision > 0
  BY <1>2, <1>4 DEF EntryInv, Sane
<1> QED BY <1>1, <1>5, <1>6 DEF EntryInv, Sound

\* When no play session changes but by what PlaysKept allows.
LEMMA SoundKept ==
  ASSUME TypeInv, EntryInv, PlaysKept
  PROVE  /\ play' \in [Plays -> Play]
         /\ \A p \in Plays : play'[p].revision >= play[p].revision /\ Sound(play'[p])
         /\ \A p \in Listed : play'[p].pinned /\ play'[p].revision > 0
<1>1. \A p \in Plays : play[p].revision \in Nat /\ play'[p].revision \in Nat
  BY DEF TypeInv, PlaysKept, Play
<1>2. \A p \in Plays, m \in Media : play[p].source[m].revision \in Nat
  BY DEF TypeInv, Play, Source
<1>3. \A p \in Plays : Sound(play'[p])
  BY <1>1, <1>2 DEF EntryInv, PlaysKept, Sound
<1> QED BY <1>1, <1>3, ListedSets DEF EntryInv, PlaysKept

\* The references and deliveries of a play session.
LEMMA PlayHas ==
  ASSUME TypeInv, NEW p \in Plays
  PROVE  /\ play[p] \in Play /\ play[p].source \in [Media -> Source]
         /\ \A m \in Media : play[p].source[m] \in Source
         /\ ReferencesOf(p) \subseteq Refs /\ HandlesOf(p) \subseteq Handles
<1>1. play[p] \in Play /\ play[p].source \in [Media -> Source]
  BY DEF TypeInv, Play
<1>2. \A m \in Media : play[p].source[m].ref \in 0..MaxRefs /\ play[p].source[m].handle \in 0..MaxRows
  BY <1>1 DEF Source
<1>3. \A x \in 0..MaxRefs : x # 0 => x \in Refs
  BY Bounded DEF Refs
<1>4. \A x \in 0..MaxRows : x # 0 => x \in Handles
  BY Bounded DEF Handles
<1> QED BY <1>1, <1>2, <1>3, <1>4 DEF ReferencesOf, HandlesOf

-----------------------------------------------------------------------------
(* Cleaning up. *)

\* What stays of a call while it cleans up.
Cleaned(r, s) ==
  /\ s.todo = r.todo /\ s.request = r.request /\ s.play = r.play /\ s.media = r.media
  /\ s.options = r.options /\ s.input = r.input /\ s.revision = r.revision /\ s.handle = r.handle
  /\ s.error = r.error /\ s.next = r.next /\ Phase(s) = Phase(r)

\* A call stays tidy while it deals with what it removed.
LEMMA CleanedTidy ==
  ASSUME NEW r, NEW s, Tidy(r), Cleaned(r, s), r.stage \in Cleaning, Cleans(s)
  PROVE  Tidy(s)
BY DEF Tidy, Cleaned, Fits

\* Detaching passes what removed entries pin and hold to the call.
LEMMA DetachStep ==
  ASSUME TypeInv, EntryInv, NEW c \in Calls, Detach(c)
  PROVE  /\ TypeInv' /\ EntryInv'
         /\ Cleaned(call[c], call'[c]) /\ call[c].stage \in Cleaning
         /\ call'[c].stage \in Cleaning /\ call'[c].old = call[c].old
         /\ call'[c].unpin = call[c].unpin
              \cup UNION {IF play[p].pinned THEN ReferencesOf(p) ELSE {} : p \in call[c].stale}
         /\ call'[c].drop = call[c].drop \cup UNION {HandlesOf(p) : p \in call[c].stale}
         /\ \A d \in Calls \ {c} : call'[d] = call[d]
         /\ \A p \in Plays \ call[c].stale : play'[p] = play[p]
         /\ \A p \in call[c].stale :
              /\ p \in Plays /\ p \notin Listed
              /\ play'[p].pinned = FALSE /\ play'[p].revision = play[p].revision
              /\ play'[p].capabilities = play[p].capabilities /\ play'[p].preference = play[p].preference
              /\ play'[p].lease = play[p].lease /\ play'[p].session = play[p].session
              /\ play'[p].live = play[p].live
              /\ \A m \in Media : /\ play'[p].source[m].handle = 0
                                  /\ play'[p].source[m].ref = play[p].source[m].ref
                                  /\ play'[p].source[m].revision = play[p].source[m].revision
<1> DEFINE gone == call[c].stale
           U == UNION {IF play[p].pinned THEN ReferencesOf(p) ELSE {} : p \in gone}
           D == UNION {HandlesOf(p) : p \in gone}
           at == At(c, "release")
           r == [at EXCEPT !.stale = {}, !.unpin = @ \cup U, !.drop = @ \cup D]
<1>1. call[c] \in CallState /\ Tidy(call[c]) /\ call[c].stage = "detach" /\ gone \subseteq Plays
      /\ call \in [Calls -> CallState] /\ play \in [Plays -> Play] /\ Seated(entries)
  BY DEF TypeInv, CallState, Detach
<1>2. \A p \in gone : p \notin Listed /\ play[p].revision > 0
  BY DEF EntryInv
<1>3. U \subseteq Refs /\ D \subseteq Handles
  BY <1>1, PlayHas
<1>4. call' = [call EXCEPT ![c] = r] /\ entries' = entries /\ Listed' = Listed
  BY DEF Detach, Goes, Listed
<1>5. \A p \in Plays \ gone : play'[p] = play[p]
  BY <1>1 DEF Detach
<1>6. ASSUME NEW p \in gone
      PROVE  /\ play'[p] \in Play
             /\ play'[p].pinned = FALSE /\ play'[p].revision = play[p].revision
             /\ play'[p].capabilities = play[p].capabilities /\ play'[p].preference = play[p].preference
             /\ play'[p].lease = play[p].lease /\ play'[p].session = play[p].session
             /\ play'[p].live = play[p].live
             /\ \A m \in Media : /\ play'[p].source[m].handle = 0
                                 /\ play'[p].source[m].ref = play[p].source[m].ref
                                 /\ play'[p].source[m].revision = play[p].source[m].revision
  <2> DEFINE source == [m \in Media |-> [play[p].source[m] EXCEPT !.handle = 0]]
  <2>1. play[p] \in Play /\ play[p].source \in [Media -> Source]
    BY <1>1, PlayHas
  <2>2. play'[p] = [play[p] EXCEPT !.pinned = FALSE, !.source = source]
    BY <1>1, <1>6 DEF Detach
  <2>3. 0 \in 0..MaxRows
    BY Bounded
  <2>4. \A m \in Media : /\ source[m] \in Source /\ source[m].handle = 0
                         /\ source[m].ref = play[p].source[m].ref
                         /\ source[m].revision = play[p].source[m].revision
    BY <2>1, <2>3 DEF Source
  <2>5. source \in [Media -> Source]
    BY <2>4
  <2> HIDE DEF source
  <2> QED BY <2>1, <2>2, <2>4, <2>5 DEF Play
<1> HIDE DEF U, D, gone
<1>7. at \in CallState /\ at.stage = "release" /\ at.unpin = call[c].unpin /\ at.drop = call[c].drop
      /\ at.old = call[c].old /\ at.next = call[c].next
      /\ at.todo = call[c].todo /\ at.request = call[c].request /\ at.play = call[c].play
      /\ at.media = call[c].media /\ at.options = call[c].options /\ at.input = call[c].input
      /\ at.revision = call[c].revision /\ at.handle = call[c].handle /\ at.error = call[c].error
  BY <1>1 DEF At, CallState, Stages, Cleaning
<1> HIDE DEF at
<1>8. /\ r \in CallState /\ r.stage = "release" /\ r.stale = {}
      /\ r.unpin = call[c].unpin \cup U /\ r.drop = call[c].drop \cup D /\ r.old = call[c].old
      /\ r.next = call[c].next
      /\ r.todo = call[c].todo /\ r.request = call[c].request /\ r.play = call[c].play
      /\ r.media = call[c].media /\ r.options = call[c].options /\ r.input = call[c].input
      /\ r.revision = call[c].revision /\ r.handle = call[c].handle /\ r.error = call[c].error
  BY <1>3, <1>7 DEF CallState
<1> HIDE DEF r
<1>9. Cleaned(call[c], r)
  BY <1>1, <1>8 DEF Cleaned, Phase, Cleaning
<1>10. Cleans(r)
  BY <1>1, <1>8 DEF Cleans, Tidy, Cleaning
<1>11. Tidy(r)
  BY <1>1, <1>9, <1>10, CleanedTidy DEF Cleaning
<1>12. call' \in [Calls -> CallState] /\ call'[c] = r /\ \A d \in Calls \ {c} : call'[d] = call[d]
  BY <1>1, <1>4, <1>8
<1>13. Sane(c)
  <2>1. Phase(r) \in Opening \cup Handling => play[r.play].revision > 0
    BY <1>8, <1>9 DEF EntryInv, Cleaned
  <2> QED BY <1>8, <1>11, <1>12, <2>1 DEF Sane
<1>14. play' \in [Plays -> Play]
  <2>1. DOMAIN play' = Plays /\ play' = [p \in Plays |-> play'[p]]
    BY DEF Detach
  <2> QED BY <1>1, <1>5, <1>6, <2>1
<1>15. \A p \in Plays : play'[p].revision >= play[p].revision /\ Sound(play'[p])
  <2>1. \A p \in Plays : play[p].revision \in Nat /\ Sound(play[p])
    BY <1>1 DEF Play, EntryInv, Sound
  <2>2. ASSUME NEW p \in gone PROVE Sound(play'[p])
    <3>1. p \in Plays
      BY <1>1, <2>2 DEF gone
    <3>2. play'[p].revision = play[p].revision /\ play[p].revision > 0 /\ play[p].revision \in Nat
      BY <1>2, <1>6, <2>1, <3>1
    <3>3. \A m \in Media : /\ play'[p].source[m].handle = 0
                             /\ play'[p].source[m].revision = play[p].source[m].revision
                             /\ play[p].source[m].revision <= play[p].revision
      BY <1>6, <2>1, <3>1 DEF Sound
    <3> QED BY <3>2, <3>3 DEF Sound
  <2>3. ASSUME NEW p \in Plays PROVE play'[p].revision >= play[p].revision /\ Sound(play'[p])
    <3>1. CASE p \in gone
      <4>1. play'[p].revision = play[p].revision /\ play[p].revision \in Nat
        BY <1>6, <2>1, <3>1
      <4>2. play'[p].revision >= play[p].revision
        BY <4>1
      <4> QED BY <2>2, <3>1, <4>2
    <3>2. CASE p \notin gone
      <4>1. play'[p] = play[p] /\ play[p].revision \in Nat /\ Sound(play[p])
        BY <1>5, <2>1, <3>2
      <4>2. play'[p].revision >= play[p].revision
        BY <4>1
      <4> QED BY <4>1, <4>2
    <3> QED BY <3>1, <3>2
  <2> QED BY <2>3
<1>16. \A p \in Listed' : p \in Listed /\ play'[p].pinned /\ play'[p].revision > 0
  BY <1>2, <1>4, <1>5, ListedSets DEF EntryInv
<1>17. RestTyped'
  BY RestSame DEF Detach
<1>18. TypeInv' /\ EntryInv'
  BY <1>1, <1>4, <1>12, <1>13, <1>14, <1>15, <1>16, <1>17, OneTurn
<1>19. gone = call[c].stale
  BY DEF gone
<1>20. /\ call'[c].stage \in Cleaning /\ call[c].stage \in Cleaning
  BY <1>1, <1>8, <1>12 DEF Cleaning
<1>21. call'[c].unpin = call[c].unpin \cup U /\ call'[c].drop = call[c].drop \cup D
       /\ call'[c].old = call[c].old /\ Cleaned(call[c], call'[c])
  BY <1>8, <1>9, <1>12
<1> QED BY <1>1, <1>2, <1>5, <1>6, <1>12, <1>18, <1>19, <1>20, <1>21 DEF U, D

\* A turn in one go that leaves the play sessions alone.
LEMMA GoesTurn ==
  ASSUME TypeInv, EntryInv, RestTyped', play' = play, entries' = entries, NEW c \in Calls,
         NEW next \in CallState, Tidy(next), next.stale = {},
         Phase(next) \in Opening \cup Handling => play[next.play].revision > 0,
         Goes(c, next)
  PROVE  /\ TypeInv' /\ EntryInv' /\ Listed' = Listed
         /\ call'[c] = next /\ \A d \in Calls \ {c} : call'[d] = call[d]
<1>1. call' \in [Calls -> CallState] /\ call'[c] = next /\ \A d \in Calls \ {c} : call'[d] = call[d]
  BY DEF Goes, TypeInv
<1>2. Sane(c)
  BY <1>1 DEF Sane
<1>3. /\ play' \in [Plays -> Play] /\ Listed' = Listed /\ Seated(entries')
      /\ \A p \in Plays : play'[p].revision >= play[p].revision /\ Sound(play'[p])
      /\ \A p \in Listed' : p \in Listed /\ play'[p].pinned /\ play'[p].revision > 0
  BY PlaysSame, SoundKept DEF TypeInv, Listed
<1>4. \A d \in Calls : call'[d] = call[d] \/ Sane(d)
  BY <1>1, <1>2
<1>5. TypeInv' /\ EntryInv'
  BY <1>1, <1>3, <1>4, OneTurn
<1> QED BY <1>1, <1>3, <1>5

\* When the call has nothing to clean up.
LEMMA PlainTidy ==
  ASSUME NEW next, next.stage \notin Cleaning, next.next \notin Cleaning,
         next.stale = {}, next.unpin = {}, next.drop = {}, next.old = {}, Fits(next, next.stage)
  PROVE  Tidy(next) /\ Phase(next) = next.stage
BY DEF Tidy, Cleans, Phase, Cleaning

\* Releasing empties what the call had to unpin.
LEMMA ReleaseStep ==
  ASSUME TypeInv, EntryInv, NEW c \in Calls, Release(c)
  PROVE  /\ TypeInv' /\ EntryInv' /\ Listed' = Listed
         /\ Cleaned(call[c], call'[c])
         /\ call[c].stage \in Cleaning /\ call'[c].stage \in Cleaning
         /\ call'[c].unpin = {} /\ call'[c].drop = call[c].drop /\ call'[c].old = call[c].old
         /\ \A d \in Calls \ {c} : call'[d] = call[d]
<1> DEFINE r == [At(c, "close") EXCEPT !.unpin = {}]
<1>1. call[c] \in CallState /\ Tidy(call[c]) /\ call[c].stage = "release"
      /\ call[c].stage \in Cleaning /\ play' = play /\ entries' = entries /\ Goes(c, r)
  BY DEF TypeInv, Release, Cleaning
<1>2. /\ r \in CallState /\ r.stage = "close" /\ r.unpin = {} /\ r.stale = call[c].stale
      /\ r.drop = call[c].drop /\ r.old = call[c].old /\ r.next = call[c].next
      /\ r.todo = call[c].todo /\ r.request = call[c].request /\ r.play = call[c].play
      /\ r.media = call[c].media /\ r.options = call[c].options /\ r.input = call[c].input
      /\ r.revision = call[c].revision /\ r.handle = call[c].handle /\ r.error = call[c].error
  <2>1. "close" \in Stages
    BY DEF Stages, Cleaning
  <2> QED BY <1>1, <2>1 DEF At, CallState
<1> HIDE DEF r
<1>3. Cleaned(call[c], r)
  BY <1>1, <1>2 DEF Cleaned, Phase, Cleaning
<1>4. Cleans(r)
  BY <1>1, <1>2 DEF Cleans, Tidy, Cleaning
<1>5. Tidy(r) /\ r.stale = {}
  BY <1>1, <1>2, <1>3, <1>4, CleanedTidy DEF Cleaning, Tidy, Cleans
<1>6. Phase(r) \in Opening \cup Handling => play[r.play].revision > 0
  BY <1>2, <1>3 DEF EntryInv, Cleaned
<1>7. RestTyped'
  <2>1. refs' \in [Refs -> Reference]
    BY UnpinnedTyped DEF Release, TypeInv, RestTyped
  <2> QED BY <2>1 DEF Release, TypeInv, RestTyped, Chances
<1>8. /\ TypeInv' /\ EntryInv' /\ Listed' = Listed
      /\ call'[c] = r /\ \A d \in Calls \ {c} : call'[d] = call[d]
  BY <1>1, <1>2, <1>5, <1>6, <1>7, GoesTurn
<1> QED BY <1>1, <1>2, <1>3, <1>8 DEF Cleaning

\* Closing passes what the call had to close to the queue, and the call goes on.
LEMMA CloseStep ==
  ASSUME TypeInv, EntryInv, NEW c \in Calls, Close(c)
  PROVE  /\ TypeInv' /\ EntryInv' /\ Listed' = Listed
         /\ Cleaned(call[c], call'[c])
         /\ call[c].stage = "close" /\ call[c].next \notin Cleaning /\ call'[c].stage = call[c].next
         /\ call'[c].stage \notin {"register", "start", "bind", "install"}
         /\ call[c].unpin = {} /\ call'[c].unpin = {} /\ call'[c].drop = {} /\ call'[c].old = {}
         /\ \A d \in Calls \ {c} : call'[d] = call[d]
<1> DEFINE r == [At(c, call[c].next) EXCEPT !.drop = {}, !.old = {}]
<1>1. call[c] \in CallState /\ Tidy(call[c]) /\ call[c].stage = "close" /\ call[c].next \notin Cleaning
      /\ call[c].stage \in Cleaning /\ play' = play /\ entries' = entries /\ Goes(c, r)
      /\ call[c].stale = {} /\ call[c].unpin = {}
      /\ call[c].next \notin {"register", "start", "bind", "install"}
  BY DEF TypeInv, Close, Cleaning, Tidy, Cleans
<1>2. /\ r \in CallState /\ r.stage = call[c].next /\ r.unpin = {} /\ r.stale = {}
      /\ r.drop = {} /\ r.old = {} /\ r.next = call[c].next
      /\ r.todo = call[c].todo /\ r.request = call[c].request /\ r.play = call[c].play
      /\ r.media = call[c].media /\ r.options = call[c].options /\ r.input = call[c].input
      /\ r.revision = call[c].revision /\ r.handle = call[c].handle /\ r.error = call[c].error
  <2>1. call[c].next \in Stages
    BY <1>1 DEF CallState
  <2> QED BY <1>1, <2>1 DEF At, CallState
<1> HIDE DEF r
<1>3. Cleaned(call[c], r)
  BY <1>1, <1>2 DEF Cleaned, Phase
<1>4. Cleans(r)
  BY <1>1, <1>2 DEF Cleans, Cleaning
<1>5. Tidy(r)
  BY <1>1, <1>3, <1>4, CleanedTidy
<1>6. Phase(r) \in Opening \cup Handling => play[r.play].revision > 0
  BY <1>2, <1>3 DEF EntryInv, Cleaned
<1>7. RestTyped'
  <2>1. refs' \in [Refs -> Reference]
    BY UnpinnedTyped DEF Close, TypeInv, RestTyped
  <2>2. cleanup' \in Cleanup
    <3>1. cleanup \in Cleanup /\ call[c].drop \subseteq Handles
      BY <1>1 DEF TypeInv, RestTyped, CallState
    <3> QED BY <3>1 DEF Close, Claimed, Cleanup
  <2> QED BY <2>1, <2>2 DEF Close, TypeInv, RestTyped, Chances
<1>8. /\ TypeInv' /\ EntryInv' /\ Listed' = Listed
      /\ call'[c] = r /\ \A d \in Calls \ {c} : call'[d] = call[d]
  BY <1>1, <1>2, <1>5, <1>6, <1>7, GoesTurn
<1> QED BY <1>1, <1>2, <1>3, <1>8

\* At the end a call gives back its options.
LEMMA FinishStep ==
  ASSUME TypeInv, EntryInv, NEW c \in Calls, Finish(c)
  PROVE  /\ TypeInv' /\ EntryInv' /\ Listed' = Listed
         /\ call[c].stage = "finish" /\ call'[c] = Ended(c)
         /\ \A d \in Calls \ {c} : call'[d] = call[d]
<1>1. RestTyped'
  <2>1. refs' \in [Refs -> Reference]
    BY UnpinnedTyped DEF Finish, TypeInv, RestTyped
  <2> QED BY <2>1 DEF Finish, TypeInv, RestTyped, Chances
<1>2. play' = play /\ entries' = entries /\ Goes(c, Ended(c)) /\ call[c].stage = "finish"
  BY DEF Finish
<1>3. Phase(Ended(c)) \notin Opening \cup Handling
  BY EndedTyped DEF Opening, Handling
<1> QED BY <1>1, <1>2, <1>3, EndedTyped, GoesTurn

\* The references of the options of a call.
LEMMA OptionsTyped ==
  ASSUME TypeInv, NEW c \in Calls
  PROVE  /\ OptionReferences(c) \subseteq Refs
         /\ \A k \in Fresh(c) : FreshReference(c, k) \in OptionReferences(c)
         /\ Fresh(c) \subseteq Keys
         /\ \A i \in DOMAIN call[c].options : call[c].options[i] \in Option
<1>1. call[c].options \in Seq(Option)
  BY DEF TypeInv, CallState
<1>2. \A i \in DOMAIN call[c].options : call[c].options[i] \in Option
  BY <1>1
<1>3. \A k \in Fresh(c) : \E i \in DOMAIN call[c].options : call[c].options[i].key = k
  BY DEF Fresh
<1>4. \A k \in Fresh(c) : FreshReference(c, k) \in OptionReferences(c)
  BY <1>3 DEF FreshReference, OptionReferences
<1> QED BY <1>2, <1>4 DEF OptionReferences, Fresh, Option

\* The next references.
LEMMA DrawnTyped ==
  ASSUME TypeInv, NEW n \in Nat, Cardinality(Undrawn) >= n
  PROVE  \A i \in 1..n : Drawn(i) \in Refs /\ Drawn(i) > MaxRefs - Cardinality(Undrawn)
<1>1. Undrawn \in SUBSET Refs
  BY DEF Undrawn
<1>2. Cardinality(Undrawn) \in Nat /\ Cardinality(Undrawn) <= MaxRefs /\ MaxRefs \in Nat
  BY <1>1, Bounded, FS_Subset, FS_CardinalityType
<1> QED BY <1>2 DEF Drawn, Refs

\* The options that are fetched are drawn and pinned, or the request is over.
LEMMA FetchStep ==
  ASSUME TypeInv, EntryInv, NEW c \in Calls, FetchOptions(c)
  PROVE  /\ TypeInv' /\ EntryInv' /\ Listed' = Listed
         /\ call[c].stage = "options" /\ call[c].options = <<>>
         /\ \A d \in Calls \ {c} : call'[d] = call[d]
         /\ call'[c].stage \notin Cleaning \cup Opening \cup Handling \cup {"register"}
         /\ call'[c].unpin = {} /\ call'[c].drop = {} /\ call'[c].old = {}
         /\ call[c].request.session \in Sessions
         /\ \/ \E n \in Nat : /\ PutAll(call[c].request.session, n, 1)
                              /\ call'[c].stage \in FreeStages
                              /\ OptionReferences(c)' = {Drawn(i) : i \in 1..n}
            \/ \E n \in Nat : /\ PutAll(call[c].request.session, n, 0)
                              /\ OptionReferences(c)' = {}
            \/ refs' = refs /\ OptionReferences(c)' = {}
<1>1. call[c].stage = "options" /\ play' = play /\ entries' = entries
      /\ call[c] \in CallState /\ call[c].stage \notin Cleaning
  BY DEF FetchOptions, TypeInv, Cleaning
<1>2. call[c].options = <<>> /\ Fits(call[c], "options")
  BY <1>1, CallAt DEF Fits, Fetched, Cleaning
<1>6. call[c].request.session \in Sessions
  BY <1>1 DEF CallState, Asked
<1>7. ASSUME NEW n \in Nat, NEW pins \in 0..1, PutAll(call[c].request.session, n, pins)
      PROVE  refs' \in [Refs -> Reference]
  BY <1>6, <1>7 DEF PutAll, TypeInv, RestTyped, Reference
<1>3. ASSUME Goes(c, Ended(c)), RestTyped'
      PROVE  /\ TypeInv' /\ EntryInv' /\ Listed' = Listed
             /\ \A d \in Calls \ {c} : call'[d] = call[d]
             /\ call'[c].stage \notin Cleaning \cup Opening \cup Handling \cup {"register"}
             /\ call'[c].unpin = {} /\ call'[c].drop = {} /\ call'[c].old = {}
             /\ OptionReferences(c)' = {}
  <2>2. Phase(Ended(c)) \notin Opening \cup Handling
    BY EndedTyped DEF Opening, Handling
  <2>3. TypeInv' /\ EntryInv' /\ Listed' = Listed
        /\ call'[c] = Ended(c) /\ \A d \in Calls \ {c} : call'[d] = call[d]
    BY <1>1, <1>3, <2>2, EndedTyped, GoesTurn
  <2>4. OptionReferences(c)' = {}
    <3>1. call'[c].options = <<>>
      BY <2>3, EndedTyped
    <3>2. DOMAIN call'[c].options = {}
      BY <3>1
    <3> QED BY <3>2 DEF OptionReferences
  <2> QED BY <2>3, <2>4, EndedTyped DEF Cleaning, Opening, Handling
<1>8. CASE UNCHANGED <<refs, may>> /\ Goes(c, Ended(c))
  <2>1. RestTyped'
    BY <1>8, RestSame DEF FetchOptions
  <2> QED BY <1>1, <1>2, <1>3, <1>6, <1>8, <2>1
<1>9. ASSUME NEW keys \in may.offers, may.failures > 0, may' = [may EXCEPT !.failures = @ - 1],
             PutAll(call[c].request.session, Len(keys), 0), Goes(c, Ended(c))
      PROVE  /\ TypeInv' /\ EntryInv' /\ Listed' = Listed
             /\ \A d \in Calls \ {c} : call'[d] = call[d]
             /\ call'[c].stage \notin Cleaning \cup Opening \cup Handling \cup {"register"}
             /\ call'[c].unpin = {} /\ call'[c].drop = {} /\ call'[c].old = {}
             /\ OptionReferences(c)' = {}
             /\ \E n \in Nat : PutAll(call[c].request.session, n, 0)
  <2>1. Len(keys) \in Nat
    BY DEF TypeInv, RestTyped, Chances, Chance
  <2>2. refs' \in [Refs -> Reference]
    BY <1>7, <1>9, <2>1
  <2>3. Chances'
    BY <1>9 DEF TypeInv, RestTyped, Chances, Chance
  <2>4. RestTyped'
    BY <2>2, <2>3 DEF FetchOptions, TypeInv, RestTyped
  <2> QED BY <1>3, <1>9, <2>1, <2>4
<1>4. ASSUME NEW keys \in may.offers, PutAll(call[c].request.session, Len(keys), 1), may' = may,
             Goes(c, [At(c, IF call[c].media = 0 THEN "pin" ELSE "reuse") EXCEPT
                       !.options = [i \in DOMAIN keys |-> [key |-> keys[i], ref |-> Drawn(i)]]])
      PROVE  /\ TypeInv' /\ EntryInv' /\ Listed' = Listed
             /\ \A d \in Calls \ {c} : call'[d] = call[d]
             /\ call'[c].stage \in {"pin", "reuse"}
             /\ call'[c].unpin = {} /\ call'[c].drop = {} /\ call'[c].old = {}
             /\ \E n \in Nat : /\ PutAll(call[c].request.session, n, 1)
                               /\ OptionReferences(c)' = {Drawn(i) : i \in 1..n}
  <2> DEFINE stage == IF call[c].media = 0 THEN "pin" ELSE "reuse"
             at == At(c, stage)
             options == [i \in DOMAIN keys |-> [key |-> keys[i], ref |-> Drawn(i)]]
             r == [at EXCEPT !.options = options]
             n == Len(keys)
  <2>1. keys \in Seq(Keys) /\ n \in Nat /\ n <= 2 /\ DOMAIN keys = 1..n
    BY DEF TypeInv, RestTyped, Chances, Chance
  <2>3. \A i \in 1..n : Drawn(i) \in Refs
    BY <1>4, <2>1, DrawnTyped DEF PutAll
  <2>4. options \in Seq(Option) /\ Len(options) = n /\ DOMAIN options = 1..n
    BY <2>1, <2>3 DEF Option
  <2>5. stage \in {"pin", "reuse"} /\ stage \in Stages
    BY DEF Stages, Fetched
  <2>15. Goes(c, r) /\ \A i \in 1..n : options[i].ref = Drawn(i)
    BY <1>4, <2>1
  <2> HIDE DEF stage, options, n
  <2>6. /\ at \in CallState /\ Keeps(call[c], at) /\ at.stage = stage /\ at.stale = {}
        /\ at.unpin = {} /\ at.drop = {} /\ at.old = {} /\ at.next \notin Cleaning
    BY <1>1, <2>5, TurnAt
  <2> HIDE DEF at
  <2>7. /\ r \in CallState /\ r.stage = stage /\ r.stale = {} /\ r.unpin = {}
        /\ r.drop = {} /\ r.old = {} /\ r.next \notin Cleaning /\ r.options = options
        /\ r.handle = call[c].handle /\ r.error = call[c].error
    BY <2>4, <2>6 DEF CallState, Keeps
  <2> HIDE DEF r
  <2>8. Fits(r, stage)
    BY <1>2, <2>1, <2>4, <2>5, <2>7 DEF Fits, Fetched, Opening, Handling
  <2>9. Tidy(r) /\ Phase(r) = stage
    BY <2>5, <2>7, <2>8, PlainTidy DEF Cleaning
  <2>10. RestTyped'
    <3>1. refs' \in [Refs -> Reference]
      BY <1>4, <1>7, <2>1
    <3> QED BY <1>4, <3>1 DEF FetchOptions, TypeInv, RestTyped, Chances
  <2>11. Phase(r) \notin Opening \cup Handling
    BY <2>5, <2>9 DEF Opening, Handling
  <2>12. /\ TypeInv' /\ EntryInv' /\ Listed' = Listed
         /\ call'[c] = r /\ \A d \in Calls \ {c} : call'[d] = call[d]
    BY <1>1, <2>7, <2>9, <2>10, <2>11, <2>15, GoesTurn
  <2>13. OptionReferences(c)' = {Drawn(i) : i \in 1..n}
    <3>1. call'[c].options = options
      BY <2>7, <2>12
    <3> QED BY <2>4, <2>15, <3>1 DEF OptionReferences
  <2>14. PutAll(call[c].request.session, n, 1) /\ n \in Nat
    BY <1>4, <2>1 DEF n
  <2> QED BY <2>5, <2>7, <2>12, <2>13, <2>14
<1>5. call[c].stage = "options" /\ call[c].options = <<>>
  BY <1>1, <1>2
<1> QED BY <1>4, <1>5, <1>6, <1>8, <1>9 DEF FetchOptions, Cleaning, Opening, Handling, FreeStages

\* The options are pinned once more, or the request winds up.
LEMMA PinOptionsStep ==
  ASSUME TypeInv, EntryInv, NEW c \in Calls, PinOptions(c)
  PROVE  /\ TypeInv' /\ EntryInv' /\ Listed' = Listed
         /\ call[c].stage = "pin" /\ Keeps(call[c], call'[c])
         /\ call[c].unpin = {} /\ call[c].drop = {} /\ call[c].old = {}
         /\ \A d \in Calls \ {c} : call'[d] = call[d]
         /\ \/ /\ CanPin(OptionReferences(c)) /\ refs' = Pinned(OptionReferences(c), refs)
               /\ call'[c].stage = "register"
            \/ refs' = refs /\ call'[c].stage = "finish"
<1>1. call[c].stage = "pin" /\ play' = play /\ entries' = entries /\ call[c].stage \notin Cleaning
  BY DEF PinOptions, Cleaning
<1>2. Fits(call[c], "pin")
  BY <1>1, CallAt
<1>3. ASSUME NEW stage \in {"register", "finish"}, Goes(c, At(c, stage)),
             refs' = refs \/ refs' = Pinned(OptionReferences(c), refs)
      PROVE  /\ TypeInv' /\ EntryInv' /\ Listed' = Listed /\ call'[c].stage = stage
             /\ Keeps(call[c], call'[c]) /\ \A d \in Calls \ {c} : call'[d] = call[d]
  <2>1. stage \in Stages
    BY DEF Stages, Fetched
  <2>2. /\ At(c, stage) \in CallState /\ Keeps(call[c], At(c, stage))
        /\ At(c, stage).stage = stage /\ At(c, stage).stale = {} /\ At(c, stage).unpin = {}
        /\ At(c, stage).drop = {} /\ At(c, stage).old = {} /\ At(c, stage).next \notin Cleaning
    BY <1>1, <2>1, TurnAt
  <2>3. Fits(At(c, stage), stage)
    BY <1>2, <2>2 DEF Fits, Keeps, Fetched, Opening, Handling
  <2>4. Tidy(At(c, stage)) /\ Phase(At(c, stage)) = stage
    BY <2>2, <2>3, PlainTidy DEF Cleaning
  <2>5. RestTyped'
    <3>1. refs' \in [Refs -> Reference]
      BY <1>3, UnpinnedTyped DEF TypeInv, RestTyped
    <3> QED BY <3>1 DEF PinOptions, TypeInv, RestTyped, Chances
  <2>6. Phase(At(c, stage)) \notin Opening \cup Handling
    BY <2>4 DEF Opening, Handling
  <2>7. /\ TypeInv' /\ EntryInv' /\ Listed' = Listed
        /\ call'[c] = At(c, stage) /\ \A d \in Calls \ {c} : call'[d] = call[d]
    BY <1>1, <1>3, <2>2, <2>4, <2>5, <2>6, GoesTurn
  <2> QED BY <2>2, <2>7
<1>4. call[c].unpin = {} /\ call[c].drop = {} /\ call[c].old = {}
  BY <1>1, CallAt
<1>5. CASE CanPin(OptionReferences(c))
  <2>1. refs' = Pinned(OptionReferences(c), refs) /\ Goes(c, At(c, "register"))
    BY <1>5 DEF PinOptions
  <2> QED BY <1>1, <1>3, <1>4, <1>5, <2>1
<1>6. CASE ~CanPin(OptionReferences(c))
  <2>1. refs' = refs /\ Goes(c, At(c, "finish"))
    BY <1>6 DEF PinOptions
  <2> QED BY <1>1, <1>3, <1>4, <2>1
<1> QED BY <1>5, <1>6

\* A turn of one call that removes play sessions, and may change one or add it.
LEMMA OnwardTurn ==
  ASSUME TypeInv, EntryInv, RestTyped', play' \in [Plays -> Play], Seated(entries'),
         NEW c \in Calls, NEW next \in CallState, next.stage \notin Cleaning \cup Direct,
         Fits(next, next.stage), NEW gone \in SUBSET Listed, Onward(c, next, gone),
         \A p \in Plays : play'[p].revision >= play[p].revision /\ Sound(play'[p]),
         \A p \in Listed' : /\ p \notin gone /\ (p \in Listed \/ play[p].revision = 0)
                            /\ play'[p].pinned /\ play'[p].revision > 0,
         next.stage \in Opening \cup Handling => play[next.play].revision > 0
  PROVE  /\ TypeInv' /\ EntryInv' /\ Turned(c, next) /\ call'[c].stale = gone
<1>1. /\ call' \in [Calls -> CallState]
      /\ \A d \in Calls \ {c} : call'[d] = call[d]
      /\ Keeps(next, call'[c]) /\ call'[c].stale = gone
      /\ Phase(call'[c]) = next.stage
      /\ call'[c].stage \in Cleaning \cup {next.stage}
      /\ Tidy(call'[c])
  <2>1. gone \in SUBSET Plays /\ call \in [Calls -> CallState]
    BY ListedSets DEF TypeInv
  <2> QED BY <2>1, OnwardCall
<1>2. \A p \in gone : play[p].revision > 0
  BY DEF EntryInv
<1>3. Sane(c)
  BY <1>1, <1>2 DEF Sane, Keeps
<1>4. \A d \in Calls : call'[d] = call[d] \/ Sane(d)
  BY <1>1, <1>3
<1>5. \A p \in Listed' : /\ p \in Listed \/ play[p].revision = 0
                         /\ play'[p].pinned /\ play'[p].revision > 0
  OBVIOUS
<1>6. TypeInv' /\ EntryInv'
  BY <1>1, <1>4, <1>5, OneTurn
<1> QED BY <1>1, <1>6 DEF Turned

\* What Rebound makes of a source.
LEMMA TransferredTyped ==
  ASSUME TypeInv, EntryInv, NEW c \in Calls, NEW p \in Plays, NEW m \in Media
  PROVE  LET s == play[p].source[m]  t == Transferred(c, s) IN
         /\ t \in Source
         /\ \/ t = NoSource /\ m \notin Matched(c, p)
            \/ /\ m \in Matched(c, p)
               /\ t.ref = FreshReference(c, s.key) /\ t.ref \in Kept(c, p)
               /\ t.ref \in OptionReferences(c) /\ t.ref \in Refs /\ t.ref # 0
               /\ t.handle = s.handle /\ t.revision = s.revision /\ t.start = s.start
               /\ t.opening = s.opening /\ t.key = s.key
<1> DEFINE s == play[p].source[m]  t == Transferred(c, s)
<1>1. s \in Source /\ NoSource \in Source
  BY PlayHas, Bounded, PlaySessionsAssumption DEF NoSource, Source
<1>2. m \in Matched(c, p) <=> s.ref # 0 /\ s.key \in Fresh(c)
  BY DEF Matched, Bindings, Has
<1>3. CASE m \in Matched(c, p)
  <2> DEFINE f == FreshReference(c, s.key)
  <2>1. f \in OptionReferences(c) /\ f \in Refs
    BY <1>2, <1>3, OptionsTyped
  <2>2. f # 0 /\ f \in 0..MaxRefs
    BY <2>1, Bounded DEF Refs
  <2>3. t = [s EXCEPT !.ref = f]
    BY <1>2, <1>3 DEF Transferred
  <2>4. f \in Kept(c, p)
    BY <1>3 DEF Kept
  <2> HIDE DEF f, s
  <2>5. t \in Source /\ t.ref = f /\ t.handle = s.handle /\ t.revision = s.revision
        /\ t.start = s.start /\ t.opening = s.opening /\ t.key = s.key
    BY <1>1, <2>2, <2>3 DEF Source
  <2> QED BY <1>3, <2>1, <2>2, <2>4, <2>5 DEF f, s
<1>4. CASE m \notin Matched(c, p)
  BY <1>1, <1>2, <1>4 DEF Transferred
<1> QED BY <1>3, <1>4

\* Reuse, when the binding passes to the fresh references.
ReboundTurn(c, p) ==
  /\ p \in Listed /\ call[c].stage = "reuse" /\ CanPin(Kept(c, p))
  /\ Bound(c) # {} /\ p \in Bound(c)
  /\ refs' = Pinned(Kept(c, p), refs)
  /\ play' \in [Plays -> Play] /\ \A q \in Plays \ {p} : play'[q] = play[q]
  /\ play'[p].pinned = play[p].pinned /\ play'[p].revision = play[p].revision + 1
  /\ play'[p].session = play[p].session /\ play'[p].live = play[p].live
  /\ play'[p].lease = play[p].lease /\ play'[p].preference = play[p].preference
  /\ \A m \in Media :
       \/ play'[p].source[m] = NoSource /\ m \notin Matched(c, p)
       \/ /\ m \in Matched(c, p)
          /\ play'[p].source[m].ref = FreshReference(c, play[p].source[m].key)
          /\ play'[p].source[m].ref \in Kept(c, p)
          /\ play'[p].source[m].ref \in OptionReferences(c) /\ play'[p].source[m].ref \in Refs
          /\ play'[p].source[m].handle = play[p].source[m].handle
          /\ play'[p].source[m].revision = play[p].source[m].revision
  /\ Listed' \subseteq Listed
  /\ \A d \in Calls \ {c} : call'[d] = call[d]
  /\ Phase(call'[c]) = "prefer" /\ call'[c].stage \in Cleaning \cup {"prefer"}
  /\ call'[c].options = call[c].options /\ call'[c].handle = call[c].handle
  /\ call[c].unpin = {} /\ call[c].drop = {} /\ call[c].old = {}
  /\ call'[c].unpin = {} /\ call'[c].drop = Retired(c, p) /\ call'[c].old = ReferencesOf(p)

\* A binding passes to the fresh references.
LEMMA ReboundStep ==
  ASSUME TypeInv, EntryInv, NEW c \in Calls, Reuse(c),
         Chosen(c) # 0, Changed(c, Chosen(c)), CanPin(Kept(c, Chosen(c)))
  PROVE  TypeInv' /\ EntryInv' /\ ReboundTurn(c, Chosen(c))
<1> DEFINE p == Chosen(c)
           at == At(c, "prefer")
           next == [at EXCEPT !.play = p, !.left = Matched(c, p) \ {call[c].media},
                              !.drop = Retired(c, p), !.old = ReferencesOf(p)]
           source == [m \in Media |-> Transferred(c, play[p].source[m])]
<1>1. /\ call[c].stage = "reuse" /\ call[c].stage \notin Cleaning /\ call[c] \in CallState
      /\ play' = [play EXCEPT ![p] = Rebound(c, p)] /\ refs' = Pinned(Kept(c, p), refs)
      /\ entries' = Touched(p, Expired) /\ Onward(c, next, Expired)
  BY DEF Reuse, Cleaning, TypeInv
<1>2. p \in Rebindable(c) /\ p \in Bound(c) /\ p \in Plays /\ p \in Listed /\ p \notin Expired
  <2>1. Rebindable(c) \subseteq Bound(c) /\ Bound(c) \subseteq Current
    BY ListedSets DEF Rebindable
  <2>2. Rebindable(c) # {} /\ p = Newest(Rebindable(c))
    BY DEF Chosen
  <2> QED BY <2>1, <2>2, NewestOf, ListedSets
<1>3. play \in [Plays -> Play] /\ play[p] \in Play /\ play[p].revision \in Nat
      /\ play[p].revision > 0 /\ play[p].pinned
  BY <1>2 DEF TypeInv, Play, EntryInv
<1> HIDE DEF p
<1>4. source \in [Media -> Source]
  BY <1>2, TransferredTyped
<1>5. call[c].request.capabilities \in Capabilities
  BY <1>1 DEF CallState, Asked
<1>6. play'[p] = [play[p] EXCEPT !.capabilities = call[c].request.capabilities,
                                 !.revision = @ + 1, !.source = source]
  BY <1>1, <1>2, <1>3 DEF Rebound
<1>7. \A m \in Media : source[m] = Transferred(c, play[p].source[m])
  OBVIOUS
<1> HIDE DEF source
<1>8. /\ play'[p] \in Play /\ play'[p].source = source
      /\ play'[p].pinned = play[p].pinned /\ play'[p].revision = play[p].revision + 1
      /\ play'[p].session = play[p].session /\ play'[p].live = play[p].live
      /\ play'[p].lease = play[p].lease /\ play'[p].preference = play[p].preference
  <2>1. play[p].revision + 1 \in Nat
    BY <1>3
  <2>2. play'[p] \in Play
    BY <1>3, <1>4, <1>5, <1>6, <2>1, Zenon DEF Play
  <2>3. play'[p].source = source /\ play'[p].pinned = play[p].pinned
        /\ play'[p].revision = play[p].revision + 1
    BY <1>3, <1>6 DEF Play
  <2>4. /\ play'[p].session = play[p].session /\ play'[p].live = play[p].live
        /\ play'[p].lease = play[p].lease /\ play'[p].preference = play[p].preference
    BY <1>3, <1>6 DEF Play
  <2> QED BY <2>2, <2>3, <2>4
<1>9. play' \in [Plays -> Play] /\ \A q \in Plays \ {p} : play'[q] = play[q]
  <2>1. play' = [play EXCEPT ![p] = play'[p]]
    BY <1>1, <1>2, <1>3
  <2> QED BY <1>2, <1>3, <1>8, <2>1
<1>10. /\ at \in CallState /\ Keeps(call[c], at) /\ at.stage = "prefer" /\ at.stale = {}
       /\ at.unpin = {} /\ at.drop = {} /\ at.old = {} /\ at.next \notin Cleaning
  BY <1>1, TurnAt DEF Stages, Fetched
<1>11. Fits(call[c], "reuse") /\ call[c].unpin = {} /\ call[c].drop = {} /\ call[c].old = {}
  BY <1>1, CallAt
<1>12. /\ p \in 0..MaxPlays /\ Matched(c, p) \ {call[c].media} \in SUBSET Media
       /\ ReferencesOf(p) \subseteq Refs /\ Retired(c, p) \subseteq HandlesOf(p)
       /\ Retired(c, p) \subseteq Handles
  <2>1. Retired(c, p) \subseteq HandlesOf(p)
    BY DEF Retired, HandlesOf, Bindings
  <2>2. p \in 0..MaxPlays
    BY <1>2, Bounded DEF Plays
  <2> QED BY <1>2, <2>1, <2>2, PlayHas DEF Matched, Bindings
<1> HIDE DEF at
<1>13. /\ next \in CallState /\ next.stage = "prefer" /\ next.unpin = {}
       /\ next.drop = Retired(c, p) /\ next.old = ReferencesOf(p)
       /\ next.options = call[c].options /\ next.handle = call[c].handle /\ next.error = call[c].error
  BY <1>10, <1>12 DEF CallState, Keeps
<1> HIDE DEF next
<1>14. Fits(next, "prefer")
  BY <1>11, <1>13 DEF Fits, Fetched, Opening, Handling
<1>15. Seated(entries') /\ Listed' = (Listed \ Expired) \cup {p}
  BY <1>1, <1>2, TouchedListed DEF TypeInv
<1>16. \A q \in Plays : play[q].revision \in Nat /\ Sound(play[q])
  BY <1>3 DEF Play, EntryInv, Sound
<1>17. Sound(play'[p])
  <2>1. \A m \in Media : /\ source[m].ref = 0 => source[m].handle = 0
                         /\ source[m].revision <= play[p].revision + 1
    <3>1. ASSUME NEW m \in Media, source[m] = NoSource
          PROVE  source[m].handle = 0 /\ source[m].revision <= play[p].revision + 1
      BY <1>3, <3>1 DEF NoSource
    <3>2. ASSUME NEW m \in Media, source[m] # NoSource
          PROVE  source[m].ref # 0 /\ source[m].revision <= play[p].revision + 1
      <4>1. source[m].ref # 0 /\ source[m].revision = play[p].source[m].revision
        BY <1>2, <1>7, <3>2, TransferredTyped
      <4>2. play[p].source[m].revision <= play[p].revision /\ play[p].source[m].revision \in Nat
        BY <1>2, <1>16, PlayHas DEF Sound, Source
      <4> QED BY <1>3, <4>1, <4>2
    <3> QED BY <3>1, <3>2
  <2>2. play'[p].revision # 0
    BY <1>3, <1>8
  <2> QED BY <1>8, <2>1, <2>2 DEF Sound
<1>18. \A q \in Plays : play'[q].revision >= play[q].revision /\ Sound(play'[q])
  <2>1. ASSUME NEW q \in Plays, q # p PROVE play'[q].revision >= play[q].revision /\ Sound(play'[q])
    <3>1. play'[q] = play[q] /\ play[q].revision \in Nat
      BY <1>9, <1>16, <2>1
    <3> QED BY <1>16, <3>1
  <2>2. play'[p].revision >= play[p].revision
    BY <1>3, <1>8
  <2> QED BY <1>17, <2>1, <2>2
<1>19. \A q \in Listed' : /\ q \notin Expired /\ (q \in Listed \/ play[q].revision = 0)
                          /\ play'[q].pinned /\ play'[q].revision > 0
  <2>1. play'[p].pinned /\ play'[p].revision > 0
    BY <1>3, <1>8
  <2>2. \A q \in Listed : q \in Plays /\ play[q].pinned /\ play[q].revision > 0
    BY ListedSets DEF EntryInv
  <2> QED BY <1>2, <1>9, <1>15, <2>1, <2>2
<1>20. RestTyped'
  <2>1. refs' \in [Refs -> Reference]
    BY <1>1, UnpinnedTyped DEF TypeInv, RestTyped
  <2> QED BY <2>1 DEF Reuse, TypeInv, RestTyped, Chances
<1>21. TypeInv' /\ EntryInv' /\ Turned(c, next)
  <2>1. next.stage \notin Cleaning \cup Direct \cup Opening \cup Handling
    BY <1>13 DEF Cleaning, Direct, Opening, Handling
  <2>2. Expired \in SUBSET Listed
    BY ListedSets
  <2> QED BY <1>1, <1>9, <1>13, <1>14, <1>15, <1>18, <1>19, <1>20, <2>1, <2>2, OnwardTurn
<1>22. Listed' \subseteq Listed
  BY <1>2, <1>15
<1>23. \A m \in Media :
       \/ play'[p].source[m] = NoSource /\ m \notin Matched(c, p)
       \/ /\ m \in Matched(c, p)
          /\ play'[p].source[m].ref = FreshReference(c, play[p].source[m].key)
          /\ play'[p].source[m].ref \in Kept(c, p)
          /\ play'[p].source[m].ref \in OptionReferences(c) /\ play'[p].source[m].ref \in Refs
          /\ play'[p].source[m].handle = play[p].source[m].handle
          /\ play'[p].source[m].revision = play[p].source[m].revision
  BY <1>2, <1>7, <1>8, TransferredTyped
<1>24. CanPin(Kept(c, p))
  BY DEF p
<1>25. ReboundTurn(c, p)
  BY <1>1, <1>2, <1>8, <1>9, <1>11, <1>13, <1>21, <1>22, <1>23, <1>24 DEF ReboundTurn, Turned, Keeps
<1> QED BY <1>21, <1>25 DEF p

\* The first registration, or its refusal.
RegisterTurn(c, p) ==
  /\ call[c].stage = "register" /\ refs' = refs /\ row' = row /\ cleanup' = cleanup
  /\ \A d \in Calls \ {c} : call'[d] = call[d]
  /\ call'[c].options = call[c].options /\ call'[c].handle = call[c].handle
  /\ call[c].unpin = {} /\ call[c].drop = {} /\ call[c].old = {}
  /\ call'[c].drop = {} /\ call'[c].old = {}
  /\ \/ /\ play' = play /\ Listed' \subseteq Listed
        /\ Phase(call'[c]) = "finish" /\ call'[c].stage \in Cleaning \cup {"finish"}
        /\ call'[c].unpin = OptionReferences(c)
     \/ /\ p \in Plays /\ play[p].revision = 0 /\ Listed' \subseteq Listed \cup {p}
        /\ \A q \in Plays \ {p} : play'[q] = play[q]
        /\ play'[p] \in Play /\ play'[p].pinned /\ play'[p].revision = 1
        /\ {play'[p].source[m].ref : m \in Media} \ {0} = OptionReferences(c)
        /\ \A m \in Media : play'[p].source[m].handle = 0
        /\ Phase(call'[c]) = "prefer" /\ call'[c].stage \in Cleaning \cup {"prefer"}
        /\ call'[c].unpin = {}

\* Who is evicted is listed.
LEMMA EvictedListed ==
  ASSUME NEW s
  PROVE  EvictedFor(s) \subseteq Current /\ EvictedAtLimit(s) \subseteq Current
<1>1. \A ps, n : Evicted(ps, n) \subseteq ps
  BY DEF Evicted
<1>2. PlaysOfOwner(s) \subseteq Current /\ PlaysOfUser(s) \subseteq Current /\ Spare(s) \subseteq PlaysOfUser(s)
  BY DEF PlaysOfOwner, PlaysOfUser, Spare
<1>3. EvictedFor(s) \subseteq PlaysOfOwner(s) \cup PlaysOfUser(s)
  BY <1>1 DEF EvictedFor
<1>4. EvictedFor(s) \subseteq Current
  BY <1>2, <1>3
<1>5. EvictedAtLimit(s) \subseteq EvictedFor(s) \cup Spare(s)
  BY <1>1 DEF EvictedAtLimit
<1> QED BY <1>2, <1>4, <1>5

\* The entry of a registration.
LEMMA NewEntryTyped ==
  ASSUME TypeInv, NEW c \in Calls
  PROVE  /\ NewEntry(c) \in Play /\ Sound(NewEntry(c))
         /\ NewEntry(c).revision = 1 /\ NewEntry(c).pinned
         /\ {NewEntry(c).source[m].ref : m \in Media} \ {0} = OptionReferences(c)
         /\ \A m \in Media : NewEntry(c).source[m].handle = 0
<1>1. call[c] \in CallState /\ Len(call[c].options) <= 2
  BY DEF TypeInv, Tidy, Fits
<1> DEFINE options == call[c].options
           Entry(m) == IF m \notin DOMAIN options THEN NoSource ELSE
                         [NoSource EXCEPT !.key = options[m].key, !.ref = options[m].ref]
           source == [m \in Media |-> Entry(m)]
<1>2. options \in Seq(Option) /\ DOMAIN options \subseteq Media
  <2>1. options \in Seq(Option)
    BY <1>1 DEF CallState
  <2>2. Len(options) \in Nat /\ DOMAIN options = 1..Len(options)
    BY <2>1
  <2> QED BY <1>1, <2>1, <2>2 DEF Media
<1>3. NoSource \in Source /\ NoSource.handle = 0 /\ NoSource.ref = 0 /\ NoSource.revision = 0
  BY Bounded, PlaySessionsAssumption DEF NoSource, Source
<1>4. \A m \in DOMAIN options : options[m] \in Option /\ options[m].ref \in 0..MaxRefs
                                /\ options[m].ref # 0 /\ options[m].key \in Keys
  <2>1. \A m \in DOMAIN options : options[m] \in Option
    BY <1>2
  <2>2. \A x \in Refs : x \in 0..MaxRefs /\ x # 0
    BY Bounded DEF Refs
  <2> QED BY <2>1, <2>2 DEF Option
<1>5. \A m \in Media : /\ Entry(m) \in Source /\ Entry(m).handle = 0 /\ Entry(m).revision = 0
                       /\ m \in DOMAIN options => Entry(m).ref = options[m].ref
                       /\ m \notin DOMAIN options => Entry(m).ref = 0
  <2>1. ASSUME NEW m \in Media, m \in DOMAIN options
        PROVE  /\ Entry(m) \in Source /\ Entry(m).handle = 0 /\ Entry(m).revision = 0
               /\ Entry(m).ref = options[m].ref
    <3> DEFINE k == options[m].key  r == options[m].ref
    <3>1. k \in Keys /\ r \in 0..MaxRefs
      BY <1>4, <2>1
    <3>2. Entry(m) = [NoSource EXCEPT !.key = k, !.ref = r]
      BY <2>1
    <3> HIDE DEF k, r, Entry
    <3>3. Entry(m) \in Source /\ Entry(m).handle = 0 /\ Entry(m).revision = 0 /\ Entry(m).ref = r
      BY <1>3, <3>1, <3>2 DEF Source
    <3> QED BY <3>3 DEF r
  <2>2. ASSUME NEW m \in Media, m \notin DOMAIN options PROVE Entry(m) = NoSource
    BY <2>2
  <2> QED BY <1>3, <2>1, <2>2
<1> HIDE DEF Entry
<1>6. source \in [Media -> Source] /\ \A m \in Media : source[m] = Entry(m)
  BY <1>5
<1>7. NewEntry(c) = [NewPlay EXCEPT !.session = call[c].request.session,
        !.capabilities = call[c].request.capabilities,
        !.revision = 1, !.live = TRUE, !.pinned = TRUE, !.source = source]
  BY DEF NewEntry, Entry
<1> HIDE DEF source
<1>8. call[c].request.session \in Sessions /\ call[c].request.capabilities \in Capabilities
  BY <1>1 DEF CallState, Asked
<1>9. /\ NewEntry(c) \in Play /\ NewEntry(c).source = source
      /\ NewEntry(c).revision = 1 /\ NewEntry(c).pinned
  <2>1. NewEntry(c) = [session |-> call[c].request.session, capabilities |-> call[c].request.capabilities,
            preference |-> 0, revision |-> 1, live |-> TRUE, pinned |-> TRUE,
            source |-> source, lease |-> Nobody]
    BY <1>7 DEF NewPlay
  <2> QED BY <1>6, <1>8, <2>1 DEF Play, Nobody
<1>10. Sound(NewEntry(c))
  BY <1>5, <1>6, <1>9 DEF Sound
<1>11. {source[m].ref : m \in Media} \ {0} = OptionReferences(c)
  <2>1. \A m \in DOMAIN options : source[m].ref = options[m].ref /\ m \in Media
    BY <1>2, <1>5, <1>6
  <2>2. \A m \in Media : m \notin DOMAIN options => source[m].ref = 0
    BY <1>5, <1>6
  <2> QED BY <1>4, <2>1, <2>2 DEF OptionReferences
<1> QED BY <1>5, <1>6, <1>9, <1>10, <1>11

\* A registration passes its pins to a new entry, or has to give them back.
LEMMA RegisterStep ==
  ASSUME TypeInv, EntryInv, NEW c \in Calls, Register(c)
  PROVE  /\ TypeInv' /\ EntryInv' /\ \E p \in Plays : RegisterTurn(c, p)
<1> DEFINE s == call[c].request.session
           p == CHOOSE p \in NewPlays : \A q \in NewPlays : p <= q
<1>1. call[c].stage = "register" /\ NewPlays # {} /\ call[c] \in CallState /\ call[c].stage \notin Cleaning
  BY DEF Register, TypeInv, Cleaning
<1>2. p \in NewPlays /\ p \in Plays /\ play[p].revision = 0
  <2>1. NewPlays \subseteq Plays /\ NewPlays \subseteq Nat
    BY DEF NewPlays, Plays
  <2>2. \E q \in NewPlays : \A r \in NewPlays : q <= r
    BY <1>1, <2>1, Smallest
  <2> QED BY <2>1, <2>2 DEF NewPlays
<1>3. Fits(call[c], "register") /\ call[c].unpin = {} /\ call[c].drop = {} /\ call[c].old = {}
  BY <1>1, CallAt
<1>4. RestTyped'
  BY RestSame DEF Register
<1>5. OptionReferences(c) \subseteq Refs
  BY OptionsTyped
<1>6. CASE Refused(c)
  <2> DEFINE out == Expired \cup (IF s \in revoked THEN {} ELSE EvictedFor(s))
             at == At(c, "finish")
             next == [at EXCEPT !.unpin = OptionReferences(c)]
  <2>1. entries' = Without(out) /\ play' = play /\ Onward(c, next, out)
    BY <1>6 DEF Register
  <2>2. /\ at \in CallState /\ Keeps(call[c], at) /\ at.stage = "finish" /\ at.stale = {}
        /\ at.unpin = {} /\ at.drop = {} /\ at.old = {} /\ at.next \notin Cleaning
    BY <1>1, TurnAt DEF Stages, Fetched
  <2>3. out \in SUBSET Listed
    BY EvictedListed, ListedSets
  <2> HIDE DEF at, out
  <2>4. /\ next \in CallState /\ next.stage = "finish" /\ next.unpin = OptionReferences(c)
        /\ next.drop = {} /\ next.old = {}
        /\ next.options = call[c].options /\ next.handle = call[c].handle /\ next.error = call[c].error
    BY <1>5, <2>2 DEF CallState, Keeps
  <2> HIDE DEF next
  <2>5. Fits(next, "finish")
    BY <1>3, <2>4 DEF Fits, Fetched, Opening, Handling
  <2>6. Seated(entries') /\ Listed' = Listed \ out
    BY <2>1, WithoutListed DEF TypeInv
  <2>7. /\ play' \in [Plays -> Play]
        /\ \A q \in Plays : play'[q].revision >= play[q].revision /\ Sound(play'[q])
        /\ \A q \in Listed : play'[q].pinned /\ play'[q].revision > 0
    BY <2>1, PlaysSame, SoundKept
  <2>8. next.stage \notin Cleaning \cup Direct \cup Opening \cup Handling
    BY <2>4 DEF Cleaning, Direct, Opening, Handling
  <2>9. \A q \in Listed' : q \notin out /\ q \in Listed /\ play'[q].pinned /\ play'[q].revision > 0
    BY <2>6, <2>7
  <2>10. TypeInv' /\ EntryInv' /\ Turned(c, next)
    BY <1>4, <2>1, <2>3, <2>4, <2>5, <2>6, <2>7, <2>8, <2>9, OnwardTurn
  <2>11. RegisterTurn(c, p)
    BY <1>1, <1>3, <2>1, <2>4, <2>6, <2>10 DEF RegisterTurn, Register, Turned, Keeps
  <2> QED BY <1>2, <2>10, <2>11
<1>7. CASE ~Refused(c)
  <2> DEFINE out == Expired \cup EvictedAtLimit(s)
             at == At(c, "prefer")
             left == DOMAIN call[c].options \ {1}
             next == [at EXCEPT !.play = p, !.registered = TRUE, !.media = 1, !.left = left]
  <2>1. entries' = Touched(p, out) /\ play' = [play EXCEPT ![p] = NewEntry(c)] /\ Onward(c, next, out)
    BY <1>7 DEF Register
  <2>2. /\ at \in CallState /\ Keeps(call[c], at) /\ at.stage = "prefer" /\ at.stale = {}
        /\ at.unpin = {} /\ at.drop = {} /\ at.old = {} /\ at.next \notin Cleaning
    BY <1>1, TurnAt DEF Stages, Fetched
  <2>3. out \in SUBSET Listed /\ \A q \in Listed : q # p
    <3>1. out \subseteq Listed
      BY EvictedListed, ListedSets
    <3>2. \A q \in Listed : play[q].revision > 0
      BY DEF EntryInv
    <3> HIDE DEF p, out
    <3> QED BY <1>2, <3>1, <3>2
  <2>4. left \in SUBSET Media
    <3>1. call[c].options \in Seq(Option) /\ Len(call[c].options) <= 2
      BY <1>1, <1>3 DEF CallState, Fits
    <3>2. Len(call[c].options) \in Nat /\ DOMAIN call[c].options = 1..Len(call[c].options)
      BY <3>1
    <3> QED BY <3>1, <3>2 DEF Media
  <2>5. p \in 0..MaxPlays
    BY <1>2, Bounded DEF Plays
  <2> HIDE DEF at, out, left, p
  <2>6. /\ next \in CallState /\ next.stage = "prefer" /\ next.unpin = {}
        /\ next.drop = {} /\ next.old = {}
        /\ next.options = call[c].options /\ next.handle = call[c].handle /\ next.error = call[c].error
    <3>1. next \in CallState
      <4>1. 1 \in 0..2 /\ TRUE \in BOOLEAN
        OBVIOUS
      <4> QED BY <2>2, <2>4, <2>5, <4>1 DEF CallState
    <3>2. /\ next.stage = at.stage /\ next.unpin = at.unpin /\ next.drop = at.drop /\ next.old = at.old
          /\ next.options = at.options /\ next.handle = at.handle /\ next.error = at.error
      BY <2>2 DEF CallState
    <3> HIDE DEF next
    <3> QED BY <2>2, <3>1, <3>2 DEF Keeps
  <2> HIDE DEF next
  <2>7. Fits(next, "prefer")
    BY <1>3, <2>6 DEF Fits, Fetched, Opening, Handling
  <2>8. Seated(entries') /\ Listed' = (Listed \ out) \cup {p}
    BY <1>2, <2>1, TouchedListed DEF TypeInv
  <2>9. play' \in [Plays -> Play] /\ play'[p] = NewEntry(c) /\ \A q \in Plays \ {p} : play'[q] = play[q]
    BY <1>2, <2>1, NewEntryTyped DEF TypeInv
  <2>10. \A q \in Plays : play'[q].revision >= play[q].revision /\ Sound(play'[q])
    <3>1. play'[p].revision >= play[p].revision /\ Sound(play'[p])
      BY <1>2, <2>9, NewEntryTyped
    <3>2. ASSUME NEW q \in Plays, q # p PROVE play'[q].revision >= play[q].revision /\ Sound(play'[q])
      <4>1. play[q].revision \in Nat /\ play'[q] = play[q]
        BY <2>9, <3>2 DEF TypeInv, Play
      <4>2. Sound(play[q])
        BY DEF EntryInv, Sound
      <4> QED BY <4>1, <4>2
    <3> QED BY <3>1, <3>2
  <2>11. \A q \in Listed' : /\ q \notin out /\ (q \in Listed \/ play[q].revision = 0)
                            /\ play'[q].pinned /\ play'[q].revision > 0
    <3>1. play'[p].pinned /\ play'[p].revision > 0
      BY <2>9, NewEntryTyped
    <3>2. \A q \in Listed : q \in Plays /\ play[q].pinned /\ play[q].revision > 0
      BY ListedSets DEF EntryInv
    <3>3. p \notin out
      BY <2>3
    <3> QED BY <1>2, <2>3, <2>8, <2>9, <3>1, <3>2, <3>3
  <2>12. next.stage \notin Cleaning \cup Direct \cup Opening \cup Handling
    BY <2>6 DEF Cleaning, Direct, Opening, Handling
  <2>13. TypeInv' /\ EntryInv' /\ Turned(c, next)
    BY <1>4, <2>1, <2>3, <2>6, <2>7, <2>8, <2>9, <2>10, <2>11, <2>12, OnwardTurn
  <2>14. {play'[p].source[m].ref : m \in Media} \ {0} = OptionReferences(c) /\ \A m \in Media : play'[p].source[m].handle = 0
         /\ play'[p] \in Play /\ play'[p].pinned /\ play'[p].revision = 1
    <3>2. {NewEntry(c).source[m].ref : m \in Media} \ {0} = OptionReferences(c)
      BY NewEntryTyped
    <3>4. /\ \A m \in Media : NewEntry(c).source[m].handle = 0
          /\ NewEntry(c) \in Play /\ NewEntry(c).pinned /\ NewEntry(c).revision = 1
      BY NewEntryTyped
    <3> QED BY <2>9, <3>2, <3>4
  <2>15. RegisterTurn(c, p)
    <3>1. refs' = refs /\ row' = row /\ cleanup' = cleanup
      BY DEF Register
    <3>2. Listed' \subseteq Listed \cup {p}
      BY <2>8
    <3>3. /\ \A d \in Calls \ {c} : call'[d] = call[d]
          /\ Phase(call'[c]) = "prefer" /\ call'[c].stage \in Cleaning \cup {"prefer"}
          /\ call'[c].options = call[c].options /\ call'[c].handle = call[c].handle
          /\ call'[c].unpin = {} /\ call'[c].drop = {} /\ call'[c].old = {}
      BY <2>6, <2>13 DEF Turned, Keeps
    <3> QED BY <1>1, <1>2, <1>3, <2>9, <2>14, <3>1, <3>2, <3>3 DEF RegisterTurn
  <2> QED BY <1>2, <2>13, <2>15
<1> QED BY <1>6, <1>7

-----------------------------------------------------------------------------
(* Opening a delivery. *)

\* A call starts to open a binding.
ReserveTurn(c) ==
  LET p == call[c].play  m == call[c].media IN
  /\ call[c].stage = "lookup" /\ p \in Listed /\ m \in Media
  /\ play' \in [Plays -> Play] /\ PlaysKept
  /\ \A q \in Plays : /\ play'[q].revision = play[q].revision /\ play'[q].preference = play[q].preference
                      /\ play'[q].capabilities = play[q].capabilities /\ play'[q].lease = play[q].lease
                      /\ play'[q].session = play[q].session /\ play'[q].live = play[q].live
                      /\ \A n \in Media : /\ play'[q].source[n].start = play[q].source[n].start
                                          /\ play'[q].source[n].key = play[q].source[n].key
  /\ cleanup' = [cleanup EXCEPT !.reserved = @ + 1] /\ Reservable
  /\ refs' = refs /\ row' = row /\ lost' = lost /\ stopped' = stopped
  /\ Listed' \subseteq Listed
  /\ \A d \in Calls \ {c} : call'[d] = call[d]
  /\ Phase(call'[c]) = "resolve" /\ call'[c].stage \in Cleaning \cup {"resolve"}
  /\ call'[c].options = call[c].options /\ call'[c].handle = call[c].handle
  /\ call'[c].play = p /\ call'[c].media = m /\ call'[c].revision = play[p].revision
  /\ call'[c].request.capabilities = play[p].capabilities
  /\ call'[c].request.preference = play[p].preference
  /\ call[c].unpin = {} /\ call[c].drop = {} /\ call[c].old = {}
  /\ call'[c].unpin = {} /\ call'[c].drop = {} /\ call'[c].old = {}

\* The only look-up that changes a play session makes a reservation and marks the opening.
LEMMA ReserveStep ==
  ASSUME TypeInv, EntryInv, NEW c \in Calls, Lookup(c), ~(play' = play /\ cleanup' = cleanup)
  PROVE  TypeInv' /\ EntryInv' /\ ReserveTurn(c)
<1> DEFINE p == call[c].play  m == call[c].media
           at == At(c, "resolve")
           next == [at EXCEPT !.input = SourceAt(c), !.revision = play[p].revision,
                      !.on = c, !.request.capabilities = play[p].capabilities,
                      !.request.preference = play[p].preference]
<1>1. /\ call[c].stage = "lookup" /\ call[c].stage \notin Cleaning /\ call[c] \in CallState
      /\ Finds(c, p, m) /\ SourceAt(c).opening = Nobody /\ Reservable
      /\ play' = [play EXCEPT ![p].source[m].opening = c]
      /\ cleanup' = [cleanup EXCEPT !.reserved = @ + 1]
      /\ entries' = Without(Expired) /\ Onward(c, next, Expired)
      /\ UNCHANGED <<refs, row, revoked, loggedOut, may, lost, stopped>>
  BY DEF Lookup, Cleaning, TypeInv
<1>2. p \in Plays /\ p \in Listed /\ m \in Media
  BY <1>1, ListedSets, Zenon DEF Finds, Alive, Has
<1>3. /\ play \in [Plays -> Play] /\ play[p] \in Play /\ play[p].source \in [Media -> Source]
      /\ play[p].source[m] \in Source /\ SourceAt(c) = play[p].source[m]
  BY <1>2, PlayHas DEF TypeInv, SourceAt
<1>4. Fits(call[c], "lookup") /\ call[c].unpin = {} /\ call[c].drop = {} /\ call[c].old = {}
  BY <1>1, CallAt
<1>5. /\ at \in CallState /\ Keeps(call[c], at) /\ at.stage = "resolve" /\ at.stale = {}
      /\ at.unpin = {} /\ at.drop = {} /\ at.old = {} /\ at.next \notin Cleaning
  BY <1>1, TurnAt DEF Stages, Fetched
<1> HIDE DEF p, m
<1>6. play' \in [Plays -> Play] /\ \A q \in Plays \ {p} : play'[q] = play[q]
  <2>1. \A q \in Plays \ {p} : play'[q] = play[q]
    BY <1>1, <1>2, <1>3
  <2> DEFINE s == [play[p].source[m] EXCEPT !.opening = c]
             source == [play[p].source EXCEPT ![m] = s]
  <2>2. s \in Source
    BY <1>3 DEF Source
  <2> HIDE DEF s
  <2>3. source \in [Media -> Source]
    BY <1>2, <1>3, <2>2
  <2>4. play'[p] = [play[p] EXCEPT !.source = source]
    BY <1>1, <1>2, <1>3 DEF s, Play
  <2> HIDE DEF source
  <2>5. play'[p] \in Play
    BY <1>3, <2>3, <2>4 DEF Play
  <2>6. play' = [play EXCEPT ![p] = play'[p]]
    BY <1>1, <1>2, <1>3
  <2> QED BY <1>2, <1>3, <2>1, <2>5, <2>6
<1>7. /\ play'[p].revision = play[p].revision /\ play'[p].preference = play[p].preference
      /\ play'[p].capabilities = play[p].capabilities /\ play'[p].lease = play[p].lease
      /\ play'[p].session = play[p].session /\ play'[p].live = play[p].live
      /\ play'[p].pinned = play[p].pinned
      /\ \A n \in Media : /\ play'[p].source[n].start = play[p].source[n].start
                          /\ play'[p].source[n].key = play[p].source[n].key
                          /\ play'[p].source[n].ref = play[p].source[n].ref
                          /\ play'[p].source[n].handle = play[p].source[n].handle
                          /\ play'[p].source[n].revision = play[p].source[n].revision
  <2>1. play'[p] = [play[p] EXCEPT !.source[m].opening = c]
    BY <1>1, <1>2, <1>3
  <2>2. /\ play'[p].revision = play[p].revision /\ play'[p].preference = play[p].preference
        /\ play'[p].capabilities = play[p].capabilities /\ play'[p].lease = play[p].lease
        /\ play'[p].session = play[p].session /\ play'[p].live = play[p].live
        /\ play'[p].pinned = play[p].pinned
    BY <1>3, <2>1 DEF Play
  <2>3. play'[p].source = [play[p].source EXCEPT ![m] = [play[p].source[m] EXCEPT !.opening = c]]
    BY <1>2, <1>3, <2>1 DEF Play
  <2>4. \A n \in Media : /\ play'[p].source[n].start = play[p].source[n].start
                         /\ play'[p].source[n].key = play[p].source[n].key
                         /\ play'[p].source[n].ref = play[p].source[n].ref
                         /\ play'[p].source[n].handle = play[p].source[n].handle
                         /\ play'[p].source[n].revision = play[p].source[n].revision
    BY <1>2, <1>3, <2>3 DEF Source
  <2> QED BY <2>2, <2>4
<1>8. PlaysKept
  <2>1. \A q \in Plays : play[q].revision \in Nat
    BY <1>3 DEF Play
  <2>2. play[p].revision = 0 => FALSE
    BY <1>2 DEF EntryInv
  <2>3. ASSUME NEW q \in Plays
        PROVE  /\ play'[q].pinned = play[q].pinned /\ play'[q].revision = play[q].revision
               /\ play[q].revision = 0 => play'[q] = play[q]
               /\ \A n \in Media : /\ play'[q].source[n].ref = play[q].source[n].ref
                                   /\ play'[q].source[n].handle = play[q].source[n].handle
                                   /\ play'[q].source[n].revision = play[q].source[n].revision
    BY <1>6, <1>7, <2>2
  <2> QED BY <1>6, <2>1, <2>3 DEF PlaysKept
<1>9. /\ SourceAt(c) \in Source /\ play[p].revision \in Nat /\ play[p].capabilities \in Capabilities
      /\ play[p].preference \in 0..2 /\ play[p].revision > 0
  <2>1. play[p].revision > 0
    BY <1>2 DEF EntryInv
  <2> QED BY <1>3, <2>1 DEF Play
<1> DEFINE request == [call[c].request EXCEPT !.capabilities = play[p].capabilities,
                                              !.preference = play[p].preference]
<1>10. request \in Asked /\ request.capabilities = play[p].capabilities
       /\ request.preference = play[p].preference
  <2>1. call[c].request \in Asked
    BY <1>1 DEF CallState
  <2> QED BY <1>9, <2>1 DEF Asked
<1>11. next = [at EXCEPT !.input = SourceAt(c), !.revision = play[p].revision, !.on = c, !.request = request]
  BY <1>5 DEF CallState, Keeps
<1> HIDE DEF at, request, next
<1>12. next \in CallState
  BY <1>5, <1>9, <1>10, <1>11 DEF CallState
<1>13. /\ next.stage = at.stage /\ next.unpin = at.unpin /\ next.drop = at.drop /\ next.old = at.old
       /\ next.options = at.options /\ next.handle = at.handle /\ next.error = at.error
       /\ next.play = at.play /\ next.media = at.media
       /\ next.revision = play[p].revision /\ next.request = request
  BY <1>5, <1>11 DEF CallState
<1>14. next.play = p /\ next.media = m
  BY <1>5, <1>13 DEF Keeps, p, m
<1>15. Fits(next, "resolve")
  BY <1>2, <1>4, <1>5, <1>13, <1>14 DEF Fits, Keeps, Fetched, Opening, Handling
<1>16. Seated(entries') /\ Listed' = Listed \ Expired
  BY <1>1, WithoutListed DEF TypeInv
<1>17. /\ play' \in [Plays -> Play]
       /\ \A q \in Plays : play'[q].revision >= play[q].revision /\ Sound(play'[q])
       /\ \A q \in Listed : play'[q].pinned /\ play'[q].revision > 0
  BY <1>8, SoundKept
<1>18. RestTyped'
  <2>1. cleanup' \in Cleanup
    BY <1>1 DEF TypeInv, RestTyped, Cleanup
  <2> QED BY <1>1, <2>1 DEF TypeInv, RestTyped, Chances
<1>19. TypeInv' /\ EntryInv' /\ Turned(c, next)
  <2>1. next.stage \notin Cleaning \cup Direct /\ next.stage = "resolve"
    BY <1>5, <1>13 DEF Cleaning, Direct
  <2>2. Expired \in SUBSET Listed
    BY ListedSets
  <2>3. \A q \in Listed' : q \notin Expired /\ q \in Listed /\ play'[q].pinned /\ play'[q].revision > 0
    BY <1>16, <1>17
  <2> QED BY <1>1, <1>9, <1>12, <1>14, <1>15, <1>16, <1>17, <1>18, <2>1, <2>2, <2>3, OnwardTurn
<1>20. \A q \in Plays : /\ play'[q].revision = play[q].revision /\ play'[q].preference = play[q].preference
                        /\ play'[q].capabilities = play[q].capabilities /\ play'[q].lease = play[q].lease
                        /\ play'[q].session = play[q].session /\ play'[q].live = play[q].live
                        /\ \A n \in Media : /\ play'[q].source[n].start = play[q].source[n].start
                                            /\ play'[q].source[n].key = play[q].source[n].key
  BY <1>6, <1>7
<1>21. /\ \A d \in Calls \ {c} : call'[d] = call[d]
       /\ Phase(call'[c]) = "resolve" /\ call'[c].stage \in Cleaning \cup {"resolve"}
       /\ call'[c].options = call[c].options /\ call'[c].handle = call[c].handle
       /\ call'[c].play = p /\ call'[c].media = m /\ call'[c].revision = play[p].revision
       /\ call'[c].request.capabilities = play[p].capabilities
       /\ call'[c].request.preference = play[p].preference
       /\ call'[c].unpin = {} /\ call'[c].drop = {} /\ call'[c].old = {}
  BY <1>5, <1>10, <1>13, <1>14, <1>19 DEF Turned, Keeps
<1>22. Listed' \subseteq Listed
  BY <1>16
<1>23. p = call[c].play /\ m = call[c].media
  BY DEF p, m
<1>24. ReserveTurn(c)
  BY <1>1, <1>2, <1>4, <1>6, <1>8, <1>20, <1>21, <1>22, <1>23, Zenon DEF ReserveTurn
<1> QED BY <1>19, <1>24

\* What a call keeps while it opens a binding.
Tries(c, next) ==
  /\ next.play = call[c].play /\ next.media = call[c].media /\ next.revision = call[c].revision
  /\ next.request = call[c].request /\ next.input = call[c].input /\ next.options = call[c].options
  /\ call[c].unpin = {} /\ call[c].drop = {} /\ call[c].old = {}
  /\ next.unpin = {} /\ next.drop = {} /\ next.old = {}

\* How it goes on.
Forward(c, stage, h, error) == [At(c, stage) EXCEPT !.handle = h, !.error = error]

\* A step of an opening changes no entry.
LEMMA OpeningTurn ==
  ASSUME TypeInv, EntryInv, RestTyped', play' = play, entries' = entries, NEW c \in Calls,
         call[c].stage \in Opening, NEW stage \in Opening, NEW h \in 0..MaxRows,
         NEW error \in {"", "retryable", "final"},
         error # "" => stage \in {"bind", "install"} /\ h = 0,
         h # 0 => stage \in {"start", "bind", "install"}, stage = "start" => h # 0,
         Goes(c, Forward(c, stage, h, error))
  PROVE  /\ TypeInv' /\ EntryInv' /\ Listed' = Listed /\ Tries(c, call'[c])
         /\ call'[c].stage = stage /\ call'[c].handle = h /\ call'[c].error = error
         /\ \A d \in Calls \ {c} : call'[d] = call[d]
<1> DEFINE at == At(c, stage)
           r == [at EXCEPT !.handle = h, !.error = error]
<1>1. stage \in Stages /\ call[c].stage \notin Cleaning /\ stage \notin Cleaning
  BY DEF Opening, Stages, Fetched, Cleaning
<1>2. /\ at \in CallState /\ Keeps(call[c], at) /\ at.stage = stage /\ at.stale = {}
      /\ at.unpin = {} /\ at.drop = {} /\ at.old = {} /\ at.next \notin Cleaning
  BY <1>1, TurnAt
<1>3. Fits(call[c], call[c].stage) /\ call[c].unpin = {} /\ call[c].drop = {} /\ call[c].old = {}
      /\ play[call[c].play].revision > 0
  BY <1>1, CallAt DEF EntryInv
<1> HIDE DEF at
<1>4. r \in CallState
  BY <1>2 DEF CallState
<1>5. /\ r.stage = at.stage /\ r.stale = at.stale /\ r.unpin = at.unpin /\ r.drop = at.drop /\ r.old = at.old
      /\ r.next = at.next /\ r.play = at.play /\ r.media = at.media /\ r.revision = at.revision
      /\ r.request = at.request /\ r.input = at.input /\ r.options = at.options
      /\ r.handle = h /\ r.error = error
  BY <1>2 DEF CallState
<1>6. Goes(c, r)
  BY DEF at, Forward
<1> HIDE DEF r
<1>7. Tries(c, r)
  BY <1>2, <1>3, <1>5 DEF Tries, Keeps
<1>8. Fits(r, stage)
  BY <1>2, <1>3, <1>5, <1>7 DEF Fits, Tries, Fetched, Opening, Handling
<1>9. Tidy(r) /\ Phase(r) = stage
  BY <1>1, <1>2, <1>5, <1>8, PlainTidy
<1>10. /\ TypeInv' /\ EntryInv' /\ Listed' = Listed
       /\ call'[c] = r /\ \A d \in Calls \ {c} : call'[d] = call[d]
  <2>1. play[r.play].revision > 0
    BY <1>3, <1>7 DEF Tries
  <2> QED BY <1>2, <1>4, <1>5, <1>6, <1>9, <2>1, GoesTurn
<1> QED BY <1>2, <1>5, <1>7, <1>10

\* The forms in which a call that opens goes on.
LEMMA ForwardError ==
  ASSUME TypeInv, NEW c \in Calls
  PROVE  \A stage, x : [At(c, stage) EXCEPT !.error = x] = Forward(c, stage, call[c].handle, x)
BY DEF TypeInv, At, CallState, Forward

\* An opening that goes on with another delivery.
LEMMA ForwardHandle ==
  ASSUME TypeInv, NEW c \in Calls
  PROVE  \A stage, x : [At(c, stage) EXCEPT !.handle = x] = Forward(c, stage, x, call[c].error)
BY DEF TypeInv, At, CallState, Forward

\* An opening that goes on with what it has.
LEMMA ForwardAt ==
  ASSUME TypeInv, NEW c \in Calls
  PROVE  \A stage : At(c, stage) = Forward(c, stage, call[c].handle, call[c].error)
BY DEF TypeInv, At, CallState, Forward

\* What is known of a call that opens.
LEMMA OpeningAt ==
  ASSUME TypeInv, EntryInv, NEW c \in Calls, call[c].stage \in Opening
  PROVE  /\ call[c] \in CallState /\ call[c].stage \notin Cleaning /\ Phase(call[c]) = call[c].stage
         /\ call[c].handle \in 0..MaxRows /\ call[c].error \in {"", "retryable", "final"}
         /\ call[c].handle # 0 => call[c].stage \in {"start", "bind", "install"}
         /\ call[c].stage = "start" => call[c].handle # 0
         /\ call[c].error # "" => call[c].stage \in {"bind", "install"} /\ call[c].handle = 0
         /\ call[c].play \in Plays /\ call[c].media \in Media /\ play[call[c].play].revision > 0
         /\ call[c].unpin = {} /\ call[c].drop = {} /\ call[c].old = {} /\ call[c].stale = {}
         /\ call[c].request \in Asked /\ call[c].input \in Source /\ call[c].revision \in Nat
<1>1. call[c].stage \notin Cleaning
  BY DEF Opening, Cleaning
<1>2. /\ call[c] \in CallState /\ Tidy(call[c]) /\ Phase(call[c]) = call[c].stage
      /\ Fits(call[c], call[c].stage)
      /\ call[c].stale = {} /\ call[c].unpin = {} /\ call[c].drop = {} /\ call[c].old = {}
  BY <1>1, CallAt
<1>3. play[call[c].play].revision > 0
  BY <1>2 DEF EntryInv
<1>4. /\ call[c].handle # 0 => call[c].stage \in {"start", "bind", "install"}
      /\ call[c].stage = "start" => call[c].handle # 0
      /\ call[c].error # "" => call[c].stage \in {"bind", "install"} /\ call[c].handle = 0
      /\ call[c].play \in Plays /\ call[c].media \in Media
  BY <1>2 DEF Fits, Opening
<1>5. /\ call[c].handle \in 0..MaxRows /\ call[c].error \in {"", "retryable", "final"}
      /\ call[c].request \in Asked /\ call[c].input \in Source /\ call[c].revision \in Nat
  BY <1>2 DEF CallState
<1> QED BY <1>1, <1>2, <1>3, <1>4, <1>5

\* What the four turns between the lookup and the lock after Open have in common.
OpenTurn(c) ==
  /\ call[c].stage \in Opening /\ call'[c].stage \in Opening /\ Tries(c, call'[c])
  /\ \A d \in Calls \ {c} : call'[d] = call[d]
  /\ play' = play /\ Listed' = Listed

\* Resolving leads on to the delivery, or fails.
LEMMA ResolveStep ==
  ASSUME TypeInv, EntryInv, NEW c \in Calls, Resolve(c)
  PROVE  /\ TypeInv' /\ EntryInv' /\ OpenTurn(c)
         /\ call[c].stage = "resolve" /\ call'[c].stage \in {"bind", "create"}
         /\ call[c].handle = 0 /\ call'[c].handle = 0
<1>1. call[c].stage = "resolve" /\ play' = play /\ entries' = entries /\ call[c].stage \in Opening
  BY DEF Resolve, Opening
<1>2. call[c].handle = 0 /\ call[c].error = ""
  BY <1>1, OpeningAt
<1>3. RestTyped'
  <2>1. refs' \in [Refs -> Reference]
    <3>1. refs \in [Refs -> Reference]
      BY DEF TypeInv, RestTyped
    <3>2. refs' = refs \/ Withdraw({call[c].input.ref})
      BY DEF Resolve
    <3>3. ASSUME NEW R, Withdraw(R) PROVE refs' \in [Refs -> Reference]
      BY <3>1, <3>3 DEF Withdraw, Reference
    <3> QED BY <3>1, <3>2, <3>3
  <2> QED BY <2>1 DEF Resolve, TypeInv, RestTyped, Chances
<1>4. ASSUME NEW error \in {"retryable", "final"}, Goes(c, [At(c, "bind") EXCEPT !.error = error])
      PROVE  /\ TypeInv' /\ EntryInv' /\ Listed' = Listed /\ Tries(c, call'[c])
             /\ call'[c].stage = "bind" /\ call'[c].handle = 0
             /\ \A d \in Calls \ {c} : call'[d] = call[d]
  <2>3. [At(c, "bind") EXCEPT !.error = error] = Forward(c, "bind", 0, error)
    <3>1. [At(c, "bind") EXCEPT !.error = error] = Forward(c, "bind", call[c].handle, error)
      BY ForwardError
    <3> QED BY <1>2, <3>1
  <2>1. Goes(c, Forward(c, "bind", 0, error))
    BY <1>4, <2>3 DEF Goes
  <2>2. 0 \in 0..MaxRows /\ "bind" \in Opening
    BY Bounded DEF Opening
  <2> QED BY <1>1, <1>3, <2>1, <2>2, OpeningTurn
<1>5. ASSUME Goes(c, At(c, "create"))
      PROVE  /\ TypeInv' /\ EntryInv' /\ Listed' = Listed /\ Tries(c, call'[c])
             /\ call'[c].stage = "create" /\ call'[c].handle = 0
             /\ \A d \in Calls \ {c} : call'[d] = call[d]
  <2>3. At(c, "create") = Forward(c, "create", 0, "")
    BY <1>2, ForwardAt
  <2>1. Goes(c, Forward(c, "create", 0, ""))
    BY <1>5, <2>3 DEF Goes
  <2>2. 0 \in 0..MaxRows /\ "create" \in Opening
    BY Bounded DEF Opening
  <2> QED BY <1>1, <1>3, <2>1, <2>2, OpeningTurn
<1> QED BY <1>1, <1>2, <1>4, <1>5 DEF Resolve, OpenTurn, Opening

\* A new delivery is a row that was not there, and the call has it.
LEMMA CreateSessionStep ==
  ASSUME TypeInv, EntryInv, NEW c \in Calls, CreateSession(c)
  PROVE  /\ TypeInv' /\ EntryInv' /\ OpenTurn(c) /\ call[c].stage = "create" /\ call[c].handle = 0
         /\ \/ row' = row /\ call'[c].stage = "bind" /\ call'[c].handle = 0
            \/ \E h \in Handles :
                 /\ row[h].at = "none" /\ call'[c].stage = "start" /\ call'[c].handle = h
                 /\ row' = [row EXCEPT ![h] = [at |-> "open", by |-> call[c].request.session, ref |-> call[c].input.ref,
                       capabilities |-> call[c].request.capabilities,
                       preference |-> call[c].request.preference, start |-> call[c].request.start]]
<1> DEFINE new == {h \in Handles : row[h].at = "none"}
           h == CHOOSE h \in new : \A g \in new : h <= g
<1>1. call[c].stage = "create" /\ play' = play /\ entries' = entries /\ call[c].stage \in Opening
  BY DEF CreateSession, Opening
<1>2. call[c].handle = 0 /\ call[c].error = "" /\ call[c].request \in Asked /\ call[c].input \in Source
  BY <1>1, OpeningAt
<1>3. ASSUME NEW error \in {"retryable", "final"}, row' = row, Goes(c, [At(c, "bind") EXCEPT !.error = error])
      PROVE  /\ TypeInv' /\ EntryInv' /\ Listed' = Listed /\ Tries(c, call'[c])
             /\ call'[c].stage = "bind" /\ call'[c].handle = 0
             /\ \A d \in Calls \ {c} : call'[d] = call[d]
  <2>4. [At(c, "bind") EXCEPT !.error = error] = Forward(c, "bind", 0, error)
    <3>1. [At(c, "bind") EXCEPT !.error = error] = Forward(c, "bind", call[c].handle, error)
      BY ForwardError
    <3> QED BY <1>2, <3>1
  <2>1. Goes(c, Forward(c, "bind", 0, error))
    BY <1>3, <2>4 DEF Goes
  <2>2. 0 \in 0..MaxRows /\ "bind" \in Opening
    BY Bounded DEF Opening
  <2>3. RestTyped'
    BY <1>3, RestSame DEF CreateSession
  <2> QED BY <1>1, <2>1, <2>2, <2>3, OpeningTurn
<1>4. ASSUME new # {}, Goes(c, [At(c, "start") EXCEPT !.handle = h]),
             row' = [row EXCEPT ![h] = [at |-> "open", by |-> call[c].request.session, ref |-> call[c].input.ref,
                       capabilities |-> call[c].request.capabilities,
                       preference |-> call[c].request.preference, start |-> call[c].request.start]]
      PROVE  /\ TypeInv' /\ EntryInv' /\ Listed' = Listed /\ Tries(c, call'[c])
             /\ call'[c].stage = "start" /\ call'[c].handle = h
             /\ \A d \in Calls \ {c} : call'[d] = call[d]
             /\ h \in Handles /\ row[h].at = "none"
  <2>1. h \in new
    <3>1. new \subseteq Nat
      BY DEF Handles
    <3>2. \E g \in new : \A f \in new : g <= f
      BY <1>4, <3>1, Smallest
    <3> QED BY <3>2
  <2>2. h \in Handles /\ row[h].at = "none"
    BY <2>1
  <2> HIDE DEF h
  <2>3. h \in 0..MaxRows /\ h # 0 /\ "start" \in Opening
    BY <2>2, Bounded DEF Handles, Opening
  <2>6. [At(c, "start") EXCEPT !.handle = h] = Forward(c, "start", h, "")
    BY <1>2, ForwardHandle
  <2>4. Goes(c, Forward(c, "start", h, ""))
    BY <1>4, <2>6 DEF Goes
  <2>5. RestTyped'
    <3>1. /\ call[c].input.ref \in 0..MaxRefs /\ call[c].request.capabilities \in Capabilities
          /\ call[c].request.preference \in 0..2 /\ call[c].request.start \in 0..1
          /\ call[c].request.session \in Sessions
      BY <1>2 DEF Asked, Source
    <3>2. row' \in [Handles -> Row]
      BY <1>4, <2>2, <3>1 DEF TypeInv, RestTyped, Row
    <3> QED BY <3>2 DEF CreateSession, TypeInv, RestTyped, Chances
  <2> QED BY <1>1, <2>2, <2>3, <2>4, <2>5, OpeningTurn
<1>5. CASE call[c].request.session \in loggedOut \/ ~Admits(call[c].request.session)
  <2>1. PICK error \in {"retryable", "final"} : row' = row /\ Goes(c, [At(c, "bind") EXCEPT !.error = error])
    BY <1>5 DEF CreateSession
  <2> QED BY <1>1, <1>2, <1>3, <2>1 DEF OpenTurn, Opening
<1>6. CASE ~(call[c].request.session \in loggedOut \/ ~Admits(call[c].request.session))
  <2>1. new # {} /\ Goes(c, [At(c, "start") EXCEPT !.handle = h])
        /\ row' = [row EXCEPT ![h] = [at |-> "open", by |-> call[c].request.session, ref |-> call[c].input.ref,
                       capabilities |-> call[c].request.capabilities,
                       preference |-> call[c].request.preference, start |-> call[c].request.start]]
    BY <1>6 DEF CreateSession
  <2>2. /\ TypeInv' /\ EntryInv' /\ Listed' = Listed /\ Tries(c, call'[c])
        /\ call'[c].stage = "start" /\ call'[c].handle = h
        /\ \A d \in Calls \ {c} : call'[d] = call[d]
        /\ h \in Handles /\ row[h].at = "none"
    BY <1>4, <2>1
  <2> HIDE DEF h
  <2> QED BY <1>1, <1>2, <2>1, <2>2 DEF OpenTurn, Opening
<1> QED BY <1>5, <1>6

\* A delivery that could not be started is closed, or lost.
LEMMA StartSessionStep ==
  ASSUME TypeInv, EntryInv, NEW c \in Calls, StartSession(c)
  PROVE  /\ TypeInv' /\ EntryInv' /\ OpenTurn(c) /\ call[c].stage = "start" /\ call'[c].stage = "bind"
         /\ \/ row' = row /\ lost' = lost /\ call'[c].handle = call[c].handle
            \/ /\ row' = [row EXCEPT ![call[c].handle].at = "closed"] /\ lost' = lost
               /\ call'[c].handle = 0
            \/ row' = row /\ lost' = lost \cup {call[c].handle} /\ call'[c].handle = 0
<1> DEFINE h == call[c].handle
<1>1. call[c].stage = "start" /\ play' = play /\ entries' = entries /\ call[c].stage \in Opening
  BY DEF StartSession, Opening
<1>2. call[c].error = "" /\ h \in 0..MaxRows
  BY <1>1, OpeningAt
<1>3. /\ row \in [Handles -> Row] /\ may \in Chance /\ lost \subseteq Handles
  BY DEF TypeInv, RestTyped, Chances
<1>4. CASE Goes(c, At(c, "bind")) /\ UNCHANGED <<row, may, lost>>
  <2>5. At(c, "bind") = Forward(c, "bind", h, "")
    BY <1>2, ForwardAt
  <2>1. Goes(c, Forward(c, "bind", h, ""))
    BY <1>4, <2>5 DEF Goes
  <2>2. "bind" \in Opening
    BY DEF Opening
  <2>3. RestTyped'
    BY <1>4, RestSame DEF StartSession
  <2>4. /\ TypeInv' /\ EntryInv' /\ Listed' = Listed /\ Tries(c, call'[c])
        /\ call'[c].stage = "bind" /\ call'[c].handle = h
        /\ \A d \in Calls \ {c} : call'[d] = call[d]
    BY <1>1, <1>2, <2>1, <2>2, <2>3, OpeningTurn
  <2> QED BY <1>1, <1>4, <2>2, <2>4 DEF OpenTurn
<1>5. ASSUME NEW error \in {"retryable", "final"},
             Goes(c, [At(c, "bind") EXCEPT !.handle = 0, !.error = error]),
             may.failures > 0, may' = [may EXCEPT !.failures = @ - 1],
             \/ row' = [row EXCEPT ![h].at = "closed"] /\ UNCHANGED lost
             \/ lost' = lost \cup {h} /\ UNCHANGED row
      PROVE  /\ TypeInv' /\ EntryInv' /\ Listed' = Listed /\ Tries(c, call'[c])
             /\ call'[c].stage = "bind" /\ call'[c].handle = 0
             /\ \A d \in Calls \ {c} : call'[d] = call[d]
  <2>1. 0 \in 0..MaxRows /\ "bind" \in Opening
    BY Bounded DEF Opening
  <2>2. row' \in [Handles -> Row]
    BY <1>3, <1>5 DEF Row
  <2>3. Chances'
    BY <1>3, <1>5 DEF TypeInv, RestTyped, Chances, Chance
  <2>4. lost' \subseteq Handles
    <3>1. h \in Handles
      BY <1>1, <1>2, OpeningAt, Numbered
    <3> QED BY <1>3, <1>5, <3>1
  <2>5. RestTyped'
    BY <2>2, <2>3, <2>4 DEF StartSession, TypeInv, RestTyped
  <2>6. Goes(c, Forward(c, "bind", 0, error))
    BY <1>5 DEF Forward
  <2> QED BY <1>1, <2>1, <2>5, <2>6, OpeningTurn
<1> QED BY <1>1, <1>4, <1>5 DEF StartSession, OpenTurn, Opening

\* Binding is the last step before the lock.
LEMMA BindStep ==
  ASSUME TypeInv, EntryInv, NEW c \in Calls, Bind(c)
  PROVE  /\ TypeInv' /\ EntryInv' /\ OpenTurn(c) /\ call[c].stage = "bind" /\ call'[c].stage = "install"
         /\ call'[c].handle = call[c].handle
<1> DEFINE h == call[c].handle
<1>1. call[c].stage = "bind" /\ play' = play /\ entries' = entries /\ call[c].stage \in Opening
  BY DEF Bind, Opening
<1>2. /\ call[c].error \in {"", "retryable", "final"} /\ h \in 0..MaxRows
      /\ call[c].error # "" => h = 0
  BY <1>1, OpeningAt
<1>3. Goes(c, Forward(c, "install", h, call[c].error))
  BY ForwardAt DEF Bind
<1>4. RestTyped'
  <2>1. {h} \ {0} \subseteq Handles
    BY <1>2, Numbered
  <2>2. cleanup \in Cleanup /\ Unreserved \in Nat
    BY DEF TypeInv, RestTyped, Cleanup, Unreserved
  <2>3. cleanup' \in Cleanup
    BY <2>1, <2>2 DEF Bind, Cleanup
  <2> QED BY <2>3 DEF Bind, TypeInv, RestTyped, Chances
<1>5. "install" \in Opening
  BY DEF Opening
<1>6. /\ TypeInv' /\ EntryInv' /\ Listed' = Listed /\ Tries(c, call'[c])
      /\ call'[c].stage = "install" /\ call'[c].handle = h
      /\ \A d \in Calls \ {c} : call'[d] = call[d]
  BY <1>1, <1>2, <1>3, <1>4, <1>5, OpeningTurn
<1> QED BY <1>1, <1>5, <1>6 DEF OpenTurn

\* The end of an opening: those who waited look again, and the call goes on.
InstallsTo(c, next) ==
  /\ \A d \in Calls \ {c} :
       \/ call'[d] = call[d]
       \/ /\ call[d].stage = "wait" /\ call'[d].stage = "lookup" /\ Phase(call'[d]) = "lookup"
          /\ call'[d].options = call[d].options /\ call'[d].unpin = call[d].unpin
          /\ call'[d].drop = call[d].drop /\ call'[d].old = call[d].old
          /\ call'[d].handle = call[d].handle
  /\ call'[c].options = next.options /\ call'[c].unpin = {} /\ call'[c].old = {}
  /\ call'[c].drop = next.drop /\ call'[c].handle = next.handle
  /\ Phase(call'[c]) = next.stage /\ call'[c].stage \in {"close", next.stage}

Settling == {"serve", "finish", "lookup", "abandon"}

\* Where the call goes after the lock of an opening; those that waited for it look again.
LEMMA InstallsCall ==
  ASSUME TypeInv, EntryInv, NEW c \in Calls, NEW next \in CallState, next.stage \in Settling,
         next.stale = {}, next.unpin = {}, next.old = {}, Fits(next, next.stage), Installs(c, next)
  PROVE  /\ call' \in [Calls -> CallState] /\ InstallsTo(c, next)
         /\ \A d \in Calls : call'[d] = call[d] \/ Sane(d)
<1> DEFINE stage == IF next.drop = {} THEN next.stage ELSE "close"
           r == [next EXCEPT !.next = next.stage, !.stage = stage]
           rows == [call EXCEPT ![c] = r]
           Wakes(d) == rows[d].stage = "wait" /\ rows[d].on = c
           Woke(d) == [rows[d] EXCEPT !.stage = "lookup", !.on = Nobody]
<1>1. call \in [Calls -> CallState]
  BY DEF TypeInv
<1>2. stage \in Stages /\ stage \in {"close", next.stage} /\ next.stage \in Stages /\ stage # "wait"
      /\ (stage = "close" <=> next.drop # {})
  BY DEF CallState, Stages, Cleaning, Settling
<1>3. call' = [d \in Calls |-> IF Wakes(d) THEN Woke(d) ELSE rows[d]]
  BY Zenon DEF Installs, Woken
<1> HIDE DEF stage
<1>4. r \in CallState
  BY <1>2 DEF CallState
<1>5. /\ r.stage = stage /\ r.next = next.stage /\ r.stale = {} /\ r.unpin = {} /\ r.old = {}
      /\ r.drop = next.drop /\ r.options = next.options /\ r.handle = next.handle
      /\ r.error = next.error /\ r.play = next.play /\ r.media = next.media
  BY DEF CallState
<1> HIDE DEF r
<1>6. rows \in [Calls -> CallState] /\ rows[c] = r /\ \A d \in Calls \ {c} : rows[d] = call[d]
  BY <1>1, <1>4
<1> HIDE DEF rows
<1>7. ~Wakes(c) /\ call'[c] = r
  BY <1>2, <1>3, <1>5, <1>6
<1>8. ASSUME NEW d \in Calls
      PROVE  /\ Woke(d) \in CallState /\ Woke(d).stage = "lookup" /\ Woke(d).next = rows[d].next
             /\ Woke(d).options = rows[d].options /\ Woke(d).unpin = rows[d].unpin
             /\ Woke(d).drop = rows[d].drop /\ Woke(d).old = rows[d].old /\ Woke(d).stale = rows[d].stale
             /\ Woke(d).handle = rows[d].handle /\ Woke(d).error = rows[d].error
  <2>1. rows[d] \in CallState /\ "lookup" \in Stages
    BY <1>6 DEF Stages, Fetched
  <2> QED BY <2>1 DEF CallState
<1>9. ASSUME NEW d \in Calls, Wakes(d)
      PROVE  /\ d # c /\ call'[d] = Woke(d) /\ call[d].stage = "wait" /\ Tidy(call'[d])
             /\ Phase(call'[d]) = "lookup" /\ call'[d].stale = {}
  <2>1. d # c /\ call'[d] = Woke(d) /\ rows[d] = call[d] /\ call[d].stage = "wait"
    BY <1>3, <1>6, <1>7, <1>9
  <2>2. /\ call[d] \in CallState /\ Fits(call[d], "wait") /\ call[d].next \notin Cleaning
        /\ call[d].stale = {} /\ call[d].unpin = {} /\ call[d].drop = {} /\ call[d].old = {}
    BY <2>1, CallAt DEF Cleaning
  <2> HIDE DEF Woke, Wakes
  <2>3. Fits(Woke(d), "lookup")
    BY <1>8, <2>1, <2>2 DEF Fits, Fetched, Opening, Handling
  <2>4. Tidy(Woke(d)) /\ Phase(Woke(d)) = "lookup"
    BY <1>8, <2>1, <2>2, <2>3, PlainTidy DEF Cleaning
  <2> QED BY <1>8, <2>1, <2>2, <2>4
<1> HIDE DEF Woke
<1>10. ASSUME NEW d \in Calls, ~Wakes(d), d # c PROVE call'[d] = call[d]
  BY <1>3, <1>6, <1>10
<1> HIDE DEF Wakes
<1>11. call' \in [Calls -> CallState]
  BY <1>3, <1>6, <1>8
<1>12. Phase(r) = next.stage /\ next.stage \notin Cleaning
  BY <1>2, <1>5 DEF Phase, Cleaning, Settling
<1>13. Cleans(r)
  BY <1>2, <1>5, <1>12 DEF Cleans, Cleaning, Settling
<1>14. Tidy(r)
  <2>1. Fits(r, next.stage)
    BY <1>5 DEF Fits
  <2> QED BY <1>12, <1>13, <2>1 DEF Tidy
<1>15. Sane(c)
  BY <1>5, <1>7, <1>12, <1>14 DEF Sane, Opening, Handling, Settling
<1>16. ASSUME NEW d \in Calls, Wakes(d) PROVE Sane(d)
  BY <1>9, <1>16 DEF Sane, Opening, Handling
<1>17. \A d \in Calls : call'[d] = call[d] \/ Sane(d)
  BY <1>10, <1>15, <1>16
<1>18. ASSUME NEW d \in Calls \ {c}, Wakes(d)
       PROVE  /\ call[d].stage = "wait" /\ call'[d].stage = "lookup" /\ Phase(call'[d]) = "lookup"
              /\ call'[d].options = call[d].options /\ call'[d].unpin = call[d].unpin
              /\ call'[d].drop = call[d].drop /\ call'[d].old = call[d].old
              /\ call'[d].handle = call[d].handle
  BY <1>6, <1>8, <1>9, <1>18
<1>19. InstallsTo(c, next)
  <2>1. /\ call'[c].options = next.options /\ call'[c].unpin = {} /\ call'[c].old = {}
        /\ call'[c].drop = next.drop /\ call'[c].handle = next.handle
        /\ Phase(call'[c]) = next.stage /\ call'[c].stage \in {"close", next.stage}
    BY <1>2, <1>5, <1>7, <1>12
  <2>2. \A d \in Calls \ {c} : Wakes(d) \/ call'[d] = call[d]
    BY <1>10
  <2> QED BY <1>18, <2>1, <2>2 DEF InstallsTo
<1> QED BY <1>11, <1>17, <1>19

\* An opening that no one waits for any more.
LEMMA OpeningPlays ==
  ASSUME TypeInv, EntryInv, NEW p \in Plays, NEW m \in Media,
         play' = [play EXCEPT ![p].source[m].opening = Nobody], play[p].revision > 0
  PROVE  /\ PlaysKept
         /\ \A q \in Plays : /\ play'[q].revision = play[q].revision /\ play'[q].preference = play[q].preference
                             /\ play'[q].capabilities = play[q].capabilities /\ play'[q].lease = play[q].lease
                             /\ play'[q].session = play[q].session /\ play'[q].live = play[q].live
                             /\ \A n \in Media : play'[q].source[n].start = play[q].source[n].start
<1>1. play \in [Plays -> Play] /\ play[p] \in Play /\ play[p].source \in [Media -> Source]
      /\ play[p].source[m] \in Source
  BY PlayHas DEF TypeInv
<1>2. \A q \in Plays \ {p} : play'[q] = play[q]
  BY <1>1
<1> DEFINE s == [play[p].source[m] EXCEPT !.opening = Nobody]
           source == [play[p].source EXCEPT ![m] = s]
<1>3. s \in Source
  BY <1>1 DEF Source
<1>4. play'[p] = [play[p] EXCEPT !.source = source]
  BY <1>1 DEF Play
<1>5. \A n \in Media : /\ source[n].start = play[p].source[n].start
                       /\ source[n].ref = play[p].source[n].ref
                       /\ source[n].handle = play[p].source[n].handle
                       /\ source[n].revision = play[p].source[n].revision
  BY <1>1 DEF Source
<1> HIDE DEF s
<1>6. source \in [Media -> Source]
  BY <1>1, <1>3
<1> HIDE DEF source
<1>7. play'[p] \in Play
  BY <1>1, <1>4, <1>6 DEF Play
<1>8. /\ play'[p].revision = play[p].revision /\ play'[p].preference = play[p].preference
      /\ play'[p].capabilities = play[p].capabilities /\ play'[p].lease = play[p].lease
      /\ play'[p].session = play[p].session /\ play'[p].live = play[p].live
      /\ play'[p].pinned = play[p].pinned /\ play'[p].source = source
  BY <1>1, <1>4 DEF Play
<1>9. play' \in [Plays -> Play]
  <2>1. play' = [play EXCEPT ![p] = play'[p]]
    BY <1>1
  <2> QED BY <1>1, <1>7, <2>1
<1>10. \A q \in Plays : /\ play'[q].revision = play[q].revision /\ play'[q].pinned = play[q].pinned
                        /\ play[q].revision \in Nat
                        /\ play[q].revision = 0 => play'[q] = play[q]
                        /\ \A n \in Media : /\ play'[q].source[n].ref = play[q].source[n].ref
                                            /\ play'[q].source[n].handle = play[q].source[n].handle
                                            /\ play'[q].source[n].revision = play[q].source[n].revision
  <2>1. \A q \in Plays : play[q].revision \in Nat
    BY <1>1 DEF Play
  <2> QED BY <1>2, <1>5, <1>8, <2>1
<1>11. PlaysKept
  BY <1>9, <1>10 DEF PlaysKept
<1> QED BY <1>2, <1>5, <1>8, <1>11

\* A play session but for what it has opened.
Alike(p) ==
  /\ play'[p].revision = play[p].revision /\ play'[p].preference = play[p].preference
  /\ play'[p].capabilities = play[p].capabilities /\ play'[p].lease = play[p].lease
  /\ play'[p].session = play[p].session /\ play'[p].live = play[p].live

\* The delivery goes to its binding, and what was there before to the call; or it stays with the
\* call, and all that changes is who opens the binding.
Installed(c, next) ==
  LET p == call[c].play  m == call[c].media IN
  /\ p \in Plays /\ m \in Media /\ BindingCurrent(c)
  /\ next.drop = {play[p].source[m].handle} \ {0}
  /\ play' \in [Plays -> Play] /\ \A q \in Plays \ {p} : play'[q] = play[q]
  /\ Alike(p) /\ play'[p].pinned = play[p].pinned
  /\ \A n \in Media \ {m} : play'[p].source[n] = play[p].source[n]
  /\ play'[p].source[m].handle = call[c].handle /\ play'[p].source[m].revision = call[c].revision
  /\ play'[p].source[m].start = call[c].request.start /\ play'[p].source[m].ref = play[p].source[m].ref
NotInstalled(c, next) ==
  /\ next.drop = {call[c].handle} \ {0}
  /\ PlaysKept
  /\ \A q \in Plays : Alike(q) /\ \A n \in Media : play'[q].source[n].start = play[q].source[n].start

InstallTurn(c, next) ==
  /\ call[c].stage = "install" /\ Listed' = Listed
  /\ UNCHANGED <<refs, row, cleanup, lost, stopped>>
  /\ InstallsTo(c, next) /\ next.stage \in Settling /\ next.options = call[c].options
  /\ Installed(c, next) \/ NotInstalled(c, next)

\* What an opening failed with, or found changed.
LEMMA ChangesTyped ==
  ASSUME TypeInv, EntryInv, NEW c \in Calls, call[c].stage = "install"
  PROVE  /\ Changes(c) \in CallState /\ Changes(c).stage \in Settling
         /\ Changes(c).stale = {} /\ Changes(c).unpin = {} /\ Changes(c).old = {}
         /\ Fits(Changes(c), Changes(c).stage)
         /\ Changes(c).drop = {call[c].handle} \ {0} /\ Changes(c).options = call[c].options
<1>1. /\ call[c] \in CallState /\ call[c].stage \notin Cleaning /\ call[c].handle \in 0..MaxRows
      /\ call[c].unpin = {} /\ call[c].drop = {} /\ call[c].old = {} /\ call[c].stale = {}
  BY OpeningAt DEF Opening
<1> DEFINE drop == {call[c].handle} \ {0}
           count == call[c].changes + 1
           next == [call[c] EXCEPT !.changes = count, !.drop = drop, !.error = "",
                              !.handle = 0, !.input = NoSource, !.on = Nobody]
           again == [next EXCEPT !.stage = "lookup"]
           Fails(kind) == [Failed(c, kind) EXCEPT !.drop = drop]
<1>2. drop \subseteq Handles
  BY <1>1, Numbered
<1>3. Len(call[c].options) <= 2 /\ call[c].next \notin Cleaning
  BY <1>1, CallAt DEF Fits
<1>4. next.drop = drop /\ call[c].changes \in Nat
  BY <1>1 DEF CallState
<1> HIDE DEF drop
<1>5. ASSUME NEW kind
      PROVE  /\ Fails(kind) \in CallState /\ Fails(kind).stage \in Settling
             /\ Fails(kind).stale = {} /\ Fails(kind).unpin = {} /\ Fails(kind).old = {}
             /\ Fits(Fails(kind), Fails(kind).stage)
             /\ Fails(kind).drop = drop /\ Fails(kind).options = call[c].options
  <2> DEFINE f == Failed(c, kind)
             r == [f EXCEPT !.drop = drop]
  <2>1. /\ f \in CallState /\ f.stage \in {"lookup", "abandon", "finish"}
        /\ Fits(f, f.stage) /\ f.stale = {} /\ f.unpin = {} /\ f.old = {}
        /\ f.options = call[c].options /\ f.handle = 0
    BY <1>1, FailedTyped
  <2> HIDE DEF f
  <2>2. /\ r \in CallState /\ r.stage = f.stage /\ r.stale = {} /\ r.unpin = {} /\ r.old = {}
        /\ r.drop = drop /\ r.options = f.options /\ r.handle = 0 /\ r.error = f.error
        /\ r.play = f.play /\ r.media = f.media
    BY <1>2, <2>1 DEF CallState
  <2> HIDE DEF r
  <2>3. Fits(r, r.stage)
    BY <2>1, <2>2 DEF Fits
  <2>4. r = Fails(kind)
    BY DEF r, f
  <2> QED BY <2>1, <2>2, <2>3, <2>4 DEF Settling
<1>6. /\ again \in CallState /\ again.stage \in Settling
      /\ again.stale = {} /\ again.unpin = {} /\ again.old = {} /\ Fits(again, again.stage)
      /\ again.drop = drop /\ again.options = call[c].options
  <2>1. NoSource \in Source /\ 0 \in 0..MaxRows /\ "lookup" \in Stages
    BY Bounded, PlaySessionsAssumption DEF NoSource, Source, Stages, Fetched
  <2>2. count \in Nat
    BY <1>4
  <2> HIDE DEF count
  <2>3. next \in CallState
    BY <1>1, <1>2, <2>1, <2>2 DEF CallState
  <2>4. /\ next.stale = {} /\ next.unpin = {} /\ next.old = {} /\ next.options = call[c].options
        /\ next.handle = 0 /\ next.error = ""
    <3>1. /\ next.stale = call[c].stale /\ next.unpin = call[c].unpin /\ next.old = call[c].old
          /\ next.options = call[c].options
      BY <1>1 DEF CallState
    <3>2. next.handle = 0 /\ next.error = ""
      BY <1>1 DEF CallState
    <3> QED BY <1>1, <3>1, <3>2
  <2> HIDE DEF next
  <2>5. /\ again \in CallState /\ again.stage = "lookup" /\ again.stale = {} /\ again.unpin = {}
        /\ again.old = {} /\ again.drop = drop /\ again.options = call[c].options
        /\ again.handle = 0 /\ again.error = ""
    BY <1>4, <2>1, <2>3, <2>4 DEF CallState
  <2> HIDE DEF again
  <2>6. Fits(again, "lookup")
    BY <1>3, <2>5 DEF Fits, Fetched, Opening, Handling
  <2> QED BY <2>5, <2>6 DEF Settling
<1>7. Changes(c) = again \/ \E kind : Changes(c) = Fails(kind)
  <2>1. CASE call[c].play \notin Listed \/ SourceAt(c).ref = 0
    <3>1. Changes(c) = [Failed(c, IF call[c].error = "" THEN "final" ELSE call[c].error) EXCEPT !.drop = next.drop]
      BY <2>1 DEF Changes, drop
    <3> QED BY <1>4, <3>1
  <2>2. CASE ~(call[c].play \notin Listed \/ SourceAt(c).ref = 0) /\ next.changes >= MaxChanges
    <3>1. Changes(c) = [Failed(c, "final") EXCEPT !.drop = next.drop]
      BY <2>2 DEF Changes, drop
    <3> QED BY <1>4, <3>1
  <2>3. CASE ~(call[c].play \notin Listed \/ SourceAt(c).ref = 0) /\ ~(next.changes >= MaxChanges)
    BY <2>3 DEF Changes, drop, count
  <2> QED BY <2>1, <2>2, <2>3
<1> HIDE DEF Fails, again
<1> QED BY <1>5, <1>6, <1>7 DEF drop

\* An opening is installed, or it is not and the call may try again.
LEMMA InstallStep ==
  ASSUME TypeInv, EntryInv, NEW c \in Calls, Install(c)
  PROVE  TypeInv' /\ EntryInv' /\ \E next : InstallTurn(c, next)
<1> DEFINE p == call[c].play  m == call[c].media
<1>1. /\ call[c].stage = "install" /\ call[c].stage \in Opening
      /\ UNCHANGED <<refs, row, cleanup, revoked, loggedOut, may, lost, stopped>>
  BY DEF Install, Opening
<1>2. /\ call[c] \in CallState /\ call[c].handle \in 0..MaxRows /\ call[c].stage \notin Cleaning
      /\ call[c].error # "" => call[c].handle = 0
      /\ p \in Plays /\ m \in Media /\ play[p].revision > 0
      /\ call[c].unpin = {} /\ call[c].drop = {} /\ call[c].old = {} /\ call[c].stale = {}
      /\ call[c].request \in Asked /\ call[c].revision \in Nat
  BY <1>1, OpeningAt
<1>3. /\ play \in [Plays -> Play] /\ play[p] \in Play /\ play[p].source \in [Media -> Source]
      /\ play[p].source[m] \in Source /\ SourceAt(c) = play[p].source[m]
  BY <1>2, PlayHas DEF TypeInv, SourceAt
<1>4. RestTyped'
  BY <1>1, RestSame
<1>5. ASSUME NEW next \in CallState, next.stage \in Settling, next.stale = {}, next.unpin = {}, next.old = {},
             Fits(next, next.stage), Installs(c, next),
             Listed' = Listed, Seated(entries'), play' \in [Plays -> Play],
             \A q \in Plays : play'[q].revision >= play[q].revision /\ Sound(play'[q]),
             \A q \in Listed : play'[q].pinned /\ play'[q].revision > 0
      PROVE  TypeInv' /\ EntryInv' /\ InstallsTo(c, next)
  <2>1. /\ call' \in [Calls -> CallState] /\ InstallsTo(c, next)
        /\ \A d \in Calls : call'[d] = call[d] \/ Sane(d)
    BY <1>5, InstallsCall
  <2>2. \A q \in Listed' : /\ q \in Listed \/ play[q].revision = 0
                           /\ play'[q].pinned /\ play'[q].revision > 0
    BY <1>5
  <2>3. TypeInv' /\ EntryInv'
    BY <1>4, <1>5, <2>1, <2>2, OneTurn
  <2> QED BY <2>1, <2>3
<1>6. ASSUME NEW next \in CallState, next.stage \in Settling, next.stale = {}, next.unpin = {}, next.old = {},
             Fits(next, next.stage), Installs(c, next), next.options = call[c].options,
             entries' = entries, next.drop = {call[c].handle} \ {0},
             play' = [play EXCEPT ![p].source[m].opening = Nobody] \/ play' = play
      PROVE  TypeInv' /\ EntryInv' /\ InstallTurn(c, next)
  <2>1. PlaysKept /\ \A q \in Plays : Alike(q) /\ \A n \in Media : play'[q].source[n].start = play[q].source[n].start
    <3>1. CASE play' = play
      BY <3>1, PlaysSame DEF Alike
    <3>2. CASE play' = [play EXCEPT ![p].source[m].opening = Nobody]
      BY <1>2, <3>2, OpeningPlays, Zenon DEF Alike
    <3> QED BY <1>6, <3>1, <3>2
  <2>2. /\ play' \in [Plays -> Play]
        /\ \A q \in Plays : play'[q].revision >= play[q].revision /\ Sound(play'[q])
        /\ \A q \in Listed : play'[q].pinned /\ play'[q].revision > 0
    BY <2>1, SoundKept
  <2>3. Listed' = Listed /\ Seated(entries')
    BY <1>6 DEF Listed, TypeInv
  <2>4. TypeInv' /\ EntryInv' /\ InstallsTo(c, next)
    BY <1>5, <1>6, <2>2, <2>3
  <2> QED BY <1>1, <1>6, <2>1, <2>3, <2>4 DEF InstallTurn, NotInstalled
<1>7. CASE /\ BindingCurrent(c) /\ call[c].error = ""
           /\ play' = [play EXCEPT ![p].source[m] = InstalledSource(c)] /\ entries' = Touched(p, {})
           /\ Installs(c, [Opened(c) EXCEPT !.handle = call[c].handle, !.drop = {SourceAt(c).handle} \ {0}])
  <2> DEFINE o == Opened(c)
             drop == {SourceAt(c).handle} \ {0}
             next == [o EXCEPT !.handle = call[c].handle, !.drop = drop]
             s == InstalledSource(c)
  <2>1. NoSource \in Source /\ SourceAt(c).handle \in 0..MaxRows
    BY <1>3, Bounded, PlaySessionsAssumption DEF NoSource, Source
  <2>2. drop \subseteq Handles
    BY <2>1, Numbered
  <2>3. /\ o \in CallState /\ o.stage \in {"serve", "finish"} /\ o.stale = {} /\ o.unpin = {} /\ o.old = {}
        /\ o.options = call[c].options /\ o.error = ""
    <3> DEFINE stage == IF call[c].request.kind = "stream" THEN "serve" ELSE "finish"
               r == [call[c] EXCEPT !.stage = stage, !.input = NoSource, !.on = Nobody,
                                    !.handle = SourceAt(c).handle]
    <3>1. stage \in Stages /\ stage \in {"serve", "finish"}
      BY DEF Stages, Fetched
    <3>2. o = r
      BY DEF Opened
    <3> HIDE DEF stage, o
    <3>3. r \in CallState
      BY <1>2, <2>1, <3>1 DEF CallState
    <3>4. /\ r.stage = stage /\ r.stale = call[c].stale /\ r.unpin = call[c].unpin /\ r.old = call[c].old
          /\ r.options = call[c].options /\ r.error = call[c].error
      BY <1>2 DEF CallState
    <3> HIDE DEF r
    <3> QED BY <1>2, <1>7, <3>1, <3>2, <3>3, <3>4
  <2>4. Installs(c, next)
    BY <1>7
  <2> HIDE DEF o, drop
  <2>5. /\ next \in CallState /\ next.stage = o.stage /\ next.stale = {} /\ next.unpin = {} /\ next.old = {}
        /\ next.drop = drop /\ next.options = call[c].options /\ next.error = ""
        /\ next.handle = call[c].handle
    BY <1>2, <2>2, <2>3 DEF CallState
  <2> HIDE DEF next
  <2>6. Fits(next, next.stage) /\ next.stage \in Settling
    <3>1. Len(call[c].options) <= 2
      BY <1>2, CallAt DEF Fits
    <3>2. next.stage \in {"serve", "finish"}
      BY <2>3, <2>5
    <3> QED BY <2>5, <3>1, <3>2 DEF Fits, Fetched, Opening, Handling, Settling
  <2>7. p \in Listed /\ SourceAt(c).ref # 0 /\ play[p].revision = call[c].revision
    BY <1>7 DEF BindingCurrent, OpeningCurrent
  <2>8. Seated(entries') /\ Listed' = Listed
    <3>1. Seated(entries') /\ Listed' = (Listed \ {}) \cup {p}
      BY <1>2, <1>7, TouchedListed DEF TypeInv
    <3> QED BY <2>7, <3>1
  <2>9. /\ s \in Source /\ s.handle = call[c].handle /\ s.revision = call[c].revision
        /\ s.start = call[c].request.start /\ s.ref = SourceAt(c).ref
    <3>1. call[c].request.start \in 0..1 /\ SourceAt(c) \in Source
      BY <1>2, <1>3 DEF Asked
    <3> QED BY <1>2, <3>1 DEF InstalledSource, Source
  <2> HIDE DEF s
  <2> DEFINE source == [play[p].source EXCEPT ![m] = s]
  <2>10. source \in [Media -> Source] /\ source[m] = s /\ \A n \in Media \ {m} : source[n] = play[p].source[n]
    BY <1>2, <1>3, <2>9
  <2>11. play'[p] = [play[p] EXCEPT !.source = source]
    BY <1>2, <1>3, <1>7 DEF s, Play
  <2> HIDE DEF source
  <2>12. play'[p] \in Play /\ Alike(p) /\ play'[p].pinned = play[p].pinned /\ play'[p].source = source
    <3>1. play'[p] \in Play
      BY <1>3, <2>10, <2>11 DEF Play
    <3>2. /\ play'[p].revision = play[p].revision /\ play'[p].preference = play[p].preference
          /\ play'[p].capabilities = play[p].capabilities /\ play'[p].lease = play[p].lease
          /\ play'[p].session = play[p].session /\ play'[p].live = play[p].live
          /\ play'[p].pinned = play[p].pinned /\ play'[p].source = source
      BY <1>3, <2>11 DEF Play
    <3> QED BY <3>1, <3>2 DEF Alike
  <2>13. play' \in [Plays -> Play] /\ \A q \in Plays \ {p} : play'[q] = play[q]
    <3>1. play' = [play EXCEPT ![p] = play'[p]] /\ \A q \in Plays \ {p} : play'[q] = play[q]
      BY <1>2, <1>3, <1>7, Zenon
    <3> QED BY <1>2, <1>3, <2>12, <3>1
  <2>14. \A q \in Plays : play'[q].revision >= play[q].revision /\ Sound(play'[q])
    <3>1. \A q \in Plays : play[q].revision \in Nat /\ Sound(play[q])
      BY <1>3 DEF Play, EntryInv, Sound
    <3>2. play'[p].revision = play[p].revision /\ play[p].revision \in Nat
      BY <2>12, <3>1, <1>2 DEF Alike
    <3>3. Sound(play'[p])
      <4>1. \A n \in Media : /\ play'[p].source[n].ref = 0 => play'[p].source[n].handle = 0
                             /\ play'[p].source[n].revision <= play[p].revision
        <5>1. ASSUME NEW n \in Media \ {m}
              PROVE  /\ play'[p].source[n].ref = 0 => play'[p].source[n].handle = 0
                     /\ play'[p].source[n].revision <= play[p].revision
          <6>1. n \in Media /\ play'[p].source[n] = play[p].source[n]
            BY <2>10, <2>12
          <6>2. Sound(play[p])
            BY <1>2, <3>1
          <6>3. /\ play[p].source[n].ref = 0 => play[p].source[n].handle = 0
                /\ play[p].source[n].revision <= play[p].revision
            BY <6>1, <6>2 DEF Sound
          <6> QED BY <6>1, <6>3
        <5>2. /\ play'[p].source[m].ref # 0
              /\ play'[p].source[m].revision <= play[p].revision
          BY <1>3, <2>7, <2>9, <2>10, <2>12, <3>2
        <5> QED BY <5>1, <5>2
      <4>2. play[p].revision > 0 /\ play[p].revision \in Nat /\ play'[p].revision = play[p].revision
        BY <1>2, <3>1, <3>2
      <4>3. play[p].revision # 0
        BY <4>2
      <4> QED BY <4>1, <4>2, <4>3 DEF Sound
    <3>4. play'[p].revision >= play[p].revision
      BY <3>2
    <3>5. ASSUME NEW q \in Plays, q # p PROVE play'[q].revision >= play[q].revision /\ Sound(play'[q])
      <4>1. play'[q] = play[q]
        BY <2>13, <3>5
      <4> QED BY <3>1, <4>1
    <3> QED BY <3>3, <3>4, <3>5
  <2>15. \A q \in Listed : play'[q].pinned /\ play'[q].revision > 0
    BY <2>12, <2>13, ListedSets DEF EntryInv, Alike
  <2>16. TypeInv' /\ EntryInv' /\ InstallsTo(c, next)
    BY <1>5, <2>4, <2>5, <2>6, <2>8, <2>13, <2>14, <2>15
  <2>17. Installed(c, next)
    BY <1>2, <1>3, <1>7, <2>5, <2>9, <2>10, <2>12, <2>13, Zenon DEF Installed, drop
  <2> QED BY <1>1, <2>5, <2>6, <2>8, <2>16, <2>17 DEF InstallTurn
<1>8. CASE /\ BindingCurrent(c) /\ call[c].error # ""
           /\ play' = [play EXCEPT ![p].source[m].opening = Nobody]
           /\ UNCHANGED entries /\ Installs(c, Failed(c, call[c].error))
  <2> DEFINE f == Failed(c, call[c].error)
  <2>1. /\ f \in CallState /\ f.stage \in {"lookup", "abandon", "finish"} /\ Fits(f, f.stage)
        /\ f.stale = {} /\ f.unpin = {} /\ f.drop = {} /\ f.old = {} /\ f.options = call[c].options
    BY <1>2, FailedTyped
  <2>2. f.drop = {call[c].handle} \ {0}
    BY <1>2, <1>8, <2>1
  <2>3. Installs(c, f)
    BY <1>8
  <2> HIDE DEF f
  <2>4. TypeInv' /\ EntryInv' /\ InstallTurn(c, f)
    BY <1>6, <1>8, <2>1, <2>2, <2>3 DEF Settling
  <2> QED BY <2>4
<1>9. CASE /\ ~BindingCurrent(c)
           /\ play' = IF OpeningCurrent(c) THEN [play EXCEPT ![p].source[m].opening = Nobody] ELSE play
           /\ UNCHANGED entries /\ Installs(c, Changes(c))
  <2>1. /\ Changes(c) \in CallState /\ Changes(c).stage \in Settling
        /\ Changes(c).stale = {} /\ Changes(c).unpin = {} /\ Changes(c).old = {}
        /\ Fits(Changes(c), Changes(c).stage)
        /\ Changes(c).drop = {call[c].handle} \ {0} /\ Changes(c).options = call[c].options
    BY <1>1, ChangesTyped
  <2>2. play' = [play EXCEPT ![p].source[m].opening = Nobody] \/ play' = play
    BY <1>9
  <2>3. TypeInv' /\ EntryInv' /\ InstallTurn(c, Changes(c))
    BY <1>6, <1>9, <2>1, <2>2
  <2> QED BY <2>3
<1> QED BY <1>7, <1>8, <1>9, Zenon DEF Install

-----------------------------------------------------------------------------
(* What a quiet step does to everything else. *)

\* The entry of a play session means what it did, or its deliveries are outdated.
Lasting ==
  \A p \in Plays :
    \/ play'[p].revision > play[p].revision
    \/ /\ play'[p].revision = play[p].revision
       /\ play'[p].capabilities = play[p].capabilities /\ play'[p].preference = play[p].preference
       /\ \A m \in Media : play'[p].source[m].start = play[p].source[m].start

\* It is the same session's, has not come back to life, and belongs to the event it did.
Leased ==
  \A p \in Plays : play[p].revision > 0 =>
    /\ play'[p].revision > 0
    /\ play'[p].lease = play[p].lease /\ play'[p].session = play[p].session
    /\ play'[p].live => play[p].live
    /\ \A m \in Media : play[p].source[m].ref = 0 => play'[p].source[m].ref = 0

\* Nothing is opened.
RowsKept ==
  \A h \in Handles :
    /\ row'[h].ref = row[h].ref /\ row'[h].start = row[h].start
    /\ row'[h].capabilities = row[h].capabilities /\ row'[h].preference = row[h].preference
    /\ row'[h].at = "none" <=> row[h].at = "none"
    /\ row'[h].at = "open" => row[h].at = "open"

\* Nothing enters the queue, and what leaves it is closed or given up.
QueueKept ==
  /\ \A h \in Handles : Queued(h)' => Queued(h)
  /\ \A h \in Handles : Queued(h) /\ ~Queued(h)' => row'[h].at # "open" \/ h \in lost'
  /\ cleanup.retiring => cleanup'.retiring
  /\ cleanup'.over => cleanup.over \/ \E c \in Calls : Phase(call[c]) \in Leaving
  /\ ~cleanup'.abandoned =>
       /\ ~cleanup.abandoned /\ cleanup'.reserved = cleanup.reserved
       /\ cleanup'.owned \subseteq cleanup.owned
       /\ \A h \in cleanup.owned \ cleanup'.owned : Queued(h) /\ ~Queued(h)'
       /\ cleanup'.over => cleanup.over \/ (cleanup.owned = {} /\ cleanup.reserved = 0)

\* No reference is pinned or released.
RefsKept == refs' = refs \/ (\E R : Withdraw(R)) \/ (\E r \in Refs : ExpireReference(r))

Calm == QuietStep /\ Lasting /\ RowsKept /\ QueueKept /\ RefsKept /\ lost \subseteq lost'

\* Nothing but calls and entries changes.
LEMMA NothingElse ==
  ASSUME UNCHANGED <<refs, row, cleanup, lost>>
  PROVE  RowsKept /\ QueueKept /\ RefsKept /\ lost \subseteq lost'
BY DEF RowsKept, QueueKept, RefsKept, Queued

\* No entry changes.
LEMMA SamePlays ==
  ASSUME TypeInv, play' = play
  PROVE  Lasting /\ Leased
BY DEF Lasting, Leased

\* The moves that take out entries at most are calm.
LEMMA PlainCalm ==
  ASSUME TypeInv, EntryInv, NEW c \in Calls,
         \/ ReuseCached(c) \/ Missed(c) \/ Serve(c) \/ Abandon(c)
         \/ Logout(c) \/ CloseSession(c) \/ Reap(c) \/ CloseAll(c) \/ Begin(c)
  PROVE  Calm /\ Aside /\ Leased /\ stopped' = stopped
<1>1. UNCHANGED <<refs, row, cleanup, lost>> /\ play' = play /\ stopped' = stopped
  BY Zenon DEF ReuseCached, Missed, Serve, Abandon, Logout, CloseSession, Reap, CloseAll, Begin
<1>2. RowsKept /\ QueueKept /\ RefsKept /\ lost \subseteq lost' /\ Lasting /\ Leased
  BY <1>1, NothingElse, SamePlays
<1>3. QuietStep /\ Aside
  BY ReuseCachedStep, MissedStep, ServeStep, AbandonStep, LogoutStep, CloseSessionStep, ReapStep,
     CloseAllStep, BeginStep
<1> QED BY <1>1, <1>2, <1>3 DEF Calm

\* Reuse that does not rebind is calm.
LEMMA ReuseCalm ==
  ASSUME TypeInv, EntryInv, NEW c \in Calls, Reuse(c),
         Chosen(c) = 0 \/ ~Changed(c, Chosen(c)) \/ ~CanPin(Kept(c, Chosen(c)))
  PROVE  Calm /\ Aside /\ Leased /\ stopped' = stopped
<1>1. UNCHANGED <<refs, row, cleanup, lost>> /\ play' = play /\ stopped' = stopped
  BY DEF Reuse
<1> QED BY <1>1, NothingElse, SamePlays, ReuseQuietStep DEF Calm

\* A look-up that reserves nothing is calm.
LEMMA LookupCalm ==
  ASSUME TypeInv, EntryInv, NEW c \in Calls, Lookup(c), play' = play, cleanup' = cleanup
  PROVE  Calm /\ Aside /\ Leased /\ stopped' = stopped
<1>1. UNCHANGED <<refs, row, cleanup, lost>> /\ stopped' = stopped
  BY DEF Lookup
<1> QED BY <1>1, NothingElse, SamePlays, LookupQuietStep DEF Calm

\* A change of preferences outdates the deliveries.
LEMMA PreferCalm ==
  ASSUME TypeInv, EntryInv, NEW c \in Calls, Prefer(c)
  PROVE  Calm /\ Aside /\ Leased /\ stopped' = stopped
<1>1. UNCHANGED <<refs, row, cleanup, lost>> /\ stopped' = stopped
  BY DEF Prefer
<1>2. Lasting /\ Leased
  <2>1. CASE play' = play
    BY <2>1, SamePlays
  <2>2. CASE play' # play
    <3> DEFINE p == call[c].play  preference == call[c].request.preference
    <3>1. /\ play' = [play EXCEPT ![p].preference = preference, ![p].revision = @ + 1]
          /\ p \in Plays
      BY <2>2 DEF Prefer, Alive, Current, Listed
    <3>2. play \in [Plays -> Play] /\ play[p] \in Play /\ \A q \in Plays : play[q].revision \in Nat
      BY <3>1 DEF TypeInv, Play
    <3>3. \A q \in Plays \ {p} : play'[q] = play[q]
      BY <3>1, <3>2
    <3>4. /\ play'[p].revision = play[p].revision + 1
          /\ play'[p].lease = play[p].lease /\ play'[p].session = play[p].session
          /\ play'[p].live = play[p].live /\ play'[p].source = play[p].source
      BY <3>1, <3>2 DEF Play
    <3>5. play'[p].revision > play[p].revision /\ play'[p].revision > 0
      BY <3>1, <3>2, <3>4
    <3> QED BY <3>3, <3>4, <3>5 DEF Lasting, Leased
  <2> QED BY <2>1, <2>2
<1> QED BY <1>1, <1>2, NothingElse, PreferStep DEF Calm

\* Expiry is calm.
LEMMA ExpireCalm ==
  ASSUME TypeInv, EntryInv, NEW p \in Plays, Expire(p)
  PROVE  Calm /\ Aside /\ Leased /\ stopped' = stopped
<1>1. UNCHANGED <<refs, row, cleanup, lost>> /\ stopped' = stopped
  BY DEF Expire
<1>2. play' = [play EXCEPT ![p].live = FALSE] /\ play \in [Plays -> Play] /\ play[p] \in Play
  BY DEF Expire, TypeInv
<1>3. \A q \in Plays \ {p} : play'[q] = play[q]
  BY <1>2
<1>4. /\ play'[p].revision = play[p].revision /\ play'[p].source = play[p].source
      /\ play'[p].lease = play[p].lease /\ play'[p].session = play[p].session
      /\ play'[p].capabilities = play[p].capabilities /\ play'[p].preference = play[p].preference
      /\ play'[p].live = FALSE
  BY <1>2 DEF Play
<1>5. Lasting /\ Leased
  BY <1>3, <1>4 DEF Lasting, Leased
<1> QED BY <1>1, <1>5, NothingElse, ExpireStep DEF Calm

\* A reset is calm.
LEMMA ResetCalm ==
  ASSUME TypeInv, EntryInv, NEW c \in Calls, ResetCache(c)
  PROVE  Calm /\ Aside /\ Leased /\ stopped' = stopped
<1>1. play' = play /\ cleanup' = cleanup /\ lost' = lost /\ stopped' = stopped
  BY DEF ResetCache
<1>2. RowsKept
  <2>1. row \in [Handles -> Row]
    BY DEF TypeInv, RestTyped
  <2>2. CASE row' = row
    BY <2>2 DEF RowsKept
  <2>3. CASE row' = [h \in Handles |-> [row[h] EXCEPT !.at = IF @ = "open" THEN "closed" ELSE @]]
    BY <2>1, <2>3 DEF RowsKept, Row
  <2> QED BY <2>2, <2>3 DEF ResetCache
<1>3. RefsKept
  BY DEF ResetCache, RefsKept
<1>4. QueueKept
  BY <1>1 DEF QueueKept, Queued
<1> QED BY <1>1, <1>2, <1>3, <1>4, SamePlays, ResetStep DEF Calm

\* Retiring only tells the queue.
LEMMA RetireCalm ==
  ASSUME TypeInv, EntryInv, NEW c \in Calls, Retire(c)
  PROVE  Calm /\ Aside /\ Leased /\ stopped' = stopped
<1>1. /\ play' = play /\ row' = row /\ refs' = refs /\ lost' = lost /\ stopped' = stopped
      /\ cleanup' = [cleanup EXCEPT !.retiring = TRUE]
  BY DEF Retire
<1>2. cleanup \in Cleanup
  BY DEF TypeInv, RestTyped
<1>3. /\ cleanup'.pending = cleanup.pending /\ cleanup'.owned = cleanup.owned
      /\ cleanup'.reserved = cleanup.reserved /\ cleanup'.abandoned = cleanup.abandoned
      /\ cleanup'.over = cleanup.over /\ cleanup'.retiring = TRUE
  BY <1>1, <1>2 DEF Cleanup
<1>4. QueueKept
  BY <1>3 DEF QueueKept, Queued
<1>5. RowsKept /\ RefsKept
  BY <1>1 DEF RowsKept, RefsKept
<1> QED BY <1>1, <1>4, <1>5, SamePlays, RetireStep DEF Calm

\* The generation ends when it owns nothing, or gives up what it waits for.
LEMMA DrainCalm ==
  ASSUME TypeInv, EntryInv, NEW c \in Calls, Drain(c)
  PROVE  Calm /\ Aside /\ Leased /\ stopped' = stopped
<1>1. /\ play' = play /\ row' = row /\ refs' = refs /\ stopped' = stopped /\ call[c].stage = "drain"
  BY DEF Drain
<1>2. cleanup \in Cleanup /\ Phase(call[c]) \in Leaving
  BY <1>1 DEF TypeInv, RestTyped, Phase, Cleaning, Leaving
<1>3. CASE ~Outstanding /\ cleanup' = [cleanup EXCEPT !.over = TRUE] /\ UNCHANGED lost
  <2>1. /\ cleanup'.pending = cleanup.pending /\ cleanup'.owned = cleanup.owned
        /\ cleanup'.reserved = cleanup.reserved /\ cleanup'.abandoned = cleanup.abandoned
        /\ cleanup'.retiring = cleanup.retiring
    BY <1>2, <1>3 DEF Cleanup
  <2>2. cleanup.owned = {} /\ cleanup.reserved = 0
    BY <1>2, <1>3 DEF Outstanding, Cleanup
  <2>3. QueueKept /\ lost \subseteq lost'
    BY <1>2, <1>3, <2>1, <2>2 DEF QueueKept, Queued
  <2> QED BY <2>3, <1>1, SamePlays, DrainStep DEF Calm, RowsKept, RefsKept
<1>4. CASE /\ cleanup' = [cleanup EXCEPT !.over = TRUE, !.abandoned = TRUE, !.owned = {}, !.reserved = 0,
                !.pending = [h \in Handles |-> IF h \in Waiting THEN "none" ELSE @[h]]]
           /\ lost' = lost \cup Waiting
  <2>1. /\ cleanup'.pending = [h \in Handles |-> IF h \in Waiting THEN "none" ELSE cleanup.pending[h]]
        /\ cleanup'.abandoned = TRUE /\ cleanup'.retiring = cleanup.retiring
    BY <1>2, <1>4 DEF Cleanup
  <2>2. QueueKept /\ lost \subseteq lost'
    BY <1>2, <1>4, <2>1 DEF QueueKept, Queued
  <2> QED BY <2>2, <1>1, SamePlays, DrainStep DEF Calm, RowsKept, RefsKept
<1> QED BY <1>3, <1>4 DEF Drain

\* A delivery leaves the queue.
LEMMA SettledCleanup ==
  ASSUME TypeInv, NEW h \in Handles, cleanup' = Settled(h)
  PROVE  /\ \A g \in Handles : Queued(g)' <=> (g # h /\ Queued(g))
         /\ cleanup'.owned = cleanup.owned \ {h} /\ cleanup'.reserved = cleanup.reserved
         /\ cleanup'.retiring = cleanup.retiring /\ cleanup'.abandoned = cleanup.abandoned
         /\ cleanup'.over = cleanup.over
<1>1. cleanup \in Cleanup
  BY DEF TypeInv, RestTyped
<1>2. /\ cleanup'.pending = [cleanup.pending EXCEPT ![h] = "none"]
      /\ cleanup'.owned = cleanup.owned \ {h} /\ cleanup'.reserved = cleanup.reserved
      /\ cleanup'.retiring = cleanup.retiring /\ cleanup'.abandoned = cleanup.abandoned
      /\ cleanup'.over = cleanup.over
  BY <1>1 DEF Settled, Cleanup
<1>3. \A g \in Handles : Queued(g)' <=> (g # h /\ Queued(g))
  BY <1>1, <1>2 DEF Queued, Cleanup
<1> QED BY <1>2, <1>3

\* It leaves for good when it is closed or given up.
LEMMA SettledQueue ==
  ASSUME TypeInv, NEW h \in Handles, Queued(h), cleanup' = Settled(h), row'[h].at # "open" \/ h \in lost'
  PROVE  QueueKept
<1>1. /\ \A g \in Handles : Queued(g)' <=> (g # h /\ Queued(g))
      /\ cleanup'.owned = cleanup.owned \ {h} /\ cleanup'.reserved = cleanup.reserved
      /\ cleanup'.retiring = cleanup.retiring /\ cleanup'.abandoned = cleanup.abandoned
      /\ cleanup'.over = cleanup.over
  BY SettledCleanup
<1>2. \A g \in Handles : Queued(g)' => Queued(g)
  BY <1>1
<1>3. \A g \in Handles : Queued(g) /\ ~Queued(g)' => row'[g].at # "open" \/ g \in lost'
  BY <1>1
<1>4. cleanup'.owned \subseteq cleanup.owned
  BY <1>1
<1>5. \A g \in cleanup.owned \ cleanup'.owned : Queued(g) /\ ~Queued(g)'
  BY <1>1
<1> QED BY <1>1, <1>2, <1>3, <1>4, <1>5 DEF QueueKept

\* It goes from one place of the queue to another.
LEMMA RequeuedQueue ==
  ASSUME TypeInv, NEW pending, cleanup' = [cleanup EXCEPT !.pending = pending],
         \A h \in Handles : pending[h] = "none" <=> cleanup.pending[h] = "none"
  PROVE  QueueKept
<1>1. cleanup \in Cleanup
  BY DEF TypeInv, RestTyped
<1>2. /\ cleanup'.pending = pending
      /\ cleanup'.owned = cleanup.owned /\ cleanup'.reserved = cleanup.reserved
      /\ cleanup'.retiring = cleanup.retiring /\ cleanup'.abandoned = cleanup.abandoned
      /\ cleanup'.over = cleanup.over
  BY <1>1 DEF Cleanup
<1> QED BY <1>2 DEF QueueKept, Queued

\* A delivery is closed, or not touched.
LEMMA ClosedRow ==
  ASSUME TypeInv, NEW h \in Handles, row' = [row EXCEPT ![h].at = "closed"], row[h].at # "none"
  PROVE  RowsKept /\ row'[h].at = "closed"
<1>1. row \in [Handles -> Row]
  BY DEF TypeInv, RestTyped
<1>2. \A g \in Handles \ {h} : row'[g] = row[g]
  BY <1>1
<1>3. /\ row'[h].at = "closed" /\ row'[h].ref = row[h].ref /\ row'[h].start = row[h].start
      /\ row'[h].capabilities = row[h].capabilities /\ row'[h].preference = row[h].preference
  BY <1>1 DEF Row
<1> QED BY <1>2, <1>3 DEF RowsKept

\* The queue closes what it has claimed, waits with what failed, and gives up what it retried for too long.
LEMMA WorkerCalm ==
  ASSUME TypeInv, EntryInv, NEW h \in Handles, row[h].at # "none" \/ ~Queued(h),
         CloseDelivery(h) \/ RetryDue(h) \/ Lapse(h)
  PROVE  Calm /\ Aside /\ Leased /\ stopped' = stopped
<1>1. /\ play' = play /\ refs' = refs /\ stopped' = stopped
  BY DEF CloseDelivery, RetryDue, Lapse
<1>2. cleanup \in Cleanup
  BY DEF TypeInv, RestTyped
<1>3. QuietStep /\ Aside
  BY EnvironmentStep
<1>4. ASSUME RowsKept, QueueKept, lost \subseteq lost' PROVE Calm /\ Aside /\ Leased /\ stopped' = stopped
  BY <1>1, <1>3, <1>4, SamePlays DEF Calm, RefsKept
<1>5. CASE CloseDelivery(h)
  <2>1. Queued(h)
    BY <1>5 DEF CloseDelivery, Queued
  <2>2. CASE row' = [row EXCEPT ![h].at = "closed"] /\ cleanup' = Settled(h) /\ UNCHANGED <<may, lost>>
    <3>1. RowsKept /\ row'[h].at = "closed"
      BY <2>1, <2>2, ClosedRow
    <3>2. QueueKept
      BY <2>1, <2>2, <3>1, SettledQueue
    <3> QED BY <1>4, <2>2, <3>1, <3>2
  <2>3. CASE row' = row /\ cleanup' = Settled(h) /\ lost' = lost \cup {h}
    <3>1. QueueKept
      BY <2>1, <2>3, SettledQueue
    <3> QED BY <1>4, <2>3, <3>1 DEF RowsKept
  <2>4. CASE row' = row /\ cleanup' = [cleanup EXCEPT !.pending[h] = "wait"] /\ lost' = lost
    <3> DEFINE pending == [cleanup.pending EXCEPT ![h] = "wait"]
    <3>1. \A g \in Handles : pending[g] = "none" <=> cleanup.pending[g] = "none"
      BY <1>2, <2>1 DEF Queued, Cleanup
    <3>2. cleanup' = [cleanup EXCEPT !.pending = pending]
      BY <2>4
    <3> HIDE DEF pending
    <3>3. QueueKept
      BY <3>1, <3>2, RequeuedQueue
    <3> QED BY <1>4, <2>4, <3>3 DEF RowsKept
  <2> QED BY <1>5, <2>2, <2>3, <2>4 DEF CloseDelivery
<1>6. CASE RetryDue(h)
  <2> DEFINE pending == [cleanup.pending EXCEPT ![h] = "due"]
  <2>1. \A g \in Handles : pending[g] = "none" <=> cleanup.pending[g] = "none"
    BY <1>2, <1>6 DEF RetryDue, Cleanup
  <2>2. cleanup' = [cleanup EXCEPT !.pending = pending] /\ row' = row /\ lost' = lost
    BY <1>6 DEF RetryDue
  <2> HIDE DEF pending
  <2>3. QueueKept
    BY <2>1, <2>2, RequeuedQueue
  <2> QED BY <1>4, <2>2, <2>3 DEF RowsKept
<1>7. CASE Lapse(h)
  <2>1. Queued(h) /\ cleanup' = Settled(h) /\ lost' = lost \cup {h} /\ row' = row
    BY <1>7 DEF Lapse, Queued
  <2>2. QueueKept
    BY <2>1, SettledQueue
  <2> QED BY <1>4, <2>1, <2>2 DEF RowsKept
<1> QED BY <1>5, <1>6, <1>7

\* What is due is claimed.
LEMMA ClaimDueCalm ==
  ASSUME TypeInv, EntryInv, ClaimDue
  PROVE  Calm /\ Aside /\ Leased /\ stopped' = stopped
<1>1. /\ play' = play /\ refs' = refs /\ stopped' = stopped /\ row' = row /\ lost' = lost
      /\ cleanup' = Claimed({}, FALSE)
  BY DEF ClaimDue
<1>2. cleanup \in Cleanup
  BY DEF TypeInv, RestTyped
<1>3. /\ \A h \in Handles : Queued(h)' <=> Queued(h)
      /\ cleanup'.owned = cleanup.owned /\ cleanup'.reserved = cleanup.reserved
      /\ cleanup'.retiring = cleanup.retiring /\ cleanup'.abandoned = cleanup.abandoned
      /\ cleanup'.over = cleanup.over
  <2> DEFINE pending == [h \in Handles |-> IF h \in {} \/ cleanup.pending[h] = "due"
                                              \/ (FALSE /\ cleanup.pending[h] = "wait")
                                           THEN "claimed" ELSE cleanup.pending[h]]
  <2>1. cleanup' = [cleanup EXCEPT !.owned = cleanup.owned \cup {}, !.pending = pending]
    BY <1>1 DEF Claimed
  <2>2. \A h \in Handles : pending[h] = "none" <=> cleanup.pending[h] = "none"
    BY <1>2 DEF Cleanup
  <2> HIDE DEF pending
  <2>3. /\ cleanup'.pending = pending /\ cleanup'.owned = cleanup.owned
        /\ cleanup'.reserved = cleanup.reserved /\ cleanup'.retiring = cleanup.retiring
        /\ cleanup'.abandoned = cleanup.abandoned /\ cleanup'.over = cleanup.over
    BY <1>2, <2>1 DEF Cleanup
  <2> QED BY <2>2, <2>3 DEF Queued
<1>4. QueueKept
  BY <1>3 DEF QueueKept
<1>5. QuietStep /\ Aside
  BY EnvironmentStep
<1> QED BY <1>1, <1>4, <1>5, SamePlays DEF Calm, RefsKept, RowsKept

\* References expire and rows become idle where they are.
LEMMA TimeCalm ==
  ASSUME TypeInv, EntryInv, \/ \E r \in Refs : ReferenceExpires(r)
                            \/ \E h \in Handles : RowIdle(h)
  PROVE  Calm /\ Aside /\ Leased /\ stopped' = stopped
<1>1. /\ play' = play /\ cleanup' = cleanup /\ lost' = lost /\ stopped' = stopped
  BY DEF ReferenceExpires, RowIdle
<1>2. QuietStep /\ Aside
  BY EnvironmentStep
<1>3. RowsKept
  <2>1. ASSUME NEW h \in Handles, RowIdle(h) PROVE RowsKept
    <3>1. row' = [row EXCEPT ![h].at = "closed"] /\ row[h].at # "none"
      BY <2>1 DEF RowIdle, OpenRows
    <3> QED BY <3>1, ClosedRow
  <2>2. CASE row' = row
    BY <2>2 DEF RowsKept
  <2> QED BY <2>1, <2>2 DEF ReferenceExpires
<1>4. RefsKept
  BY DEF RefsKept, ReferenceExpires, RowIdle
<1>5. QueueKept
  BY <1>1 DEF QueueKept, Queued
<1> QED BY <1>1, <1>2, <1>3, <1>4, <1>5, SamePlays DEF Calm

\* Nothing at all happens.
LEMMA StutterCalm ==
  ASSUME TypeInv, EntryInv, UNCHANGED vars
  PROVE  Calm /\ Aside /\ Leased /\ stopped' = stopped
<1>1. UNCHANGED <<refs, row, cleanup, lost, may, revoked, loggedOut>> /\ play' = play /\ call' = call
      /\ entries' = entries /\ stopped' = stopped
  BY DEF vars
<1>2. RestTyped' /\ PlaysKept
  BY <1>1, RestSame, PlaysSame
<1>3. QuietStep /\ Aside
  BY <1>1, <1>2, StillStep
<1> QED BY <1>1, <1>3, NothingElse, SamePlays DEF Calm

-----------------------------------------------------------------------------
(* Events. *)

\* A step that is not of an event leaves them alone.
LEMMA EventsAside ==
  ASSUME TypeInv, EntryInv, EventInv, Aside, Leased, stopped' = stopped,
         \A p \in Listed' : p \in Listed \/ play[p].revision = 0
  PROVE  EventInv'
<1>1. \A c \in Calls : Phase(call[c]) \in Handling => call[c].play \in Plays /\ play[call[c].play].revision > 0
  BY DEF TypeInv, Tidy, Fits, EntryInv
<1>2. ASSUME NEW c \in Calls, Phase(call'[c]) \in Handling
      PROVE  /\ Phase(call[c]) = Phase(call'[c])
             /\ call'[c].play = call[c].play /\ call'[c].media = call[c].media
             /\ call'[c].request = call[c].request
             /\ play'[call[c].play].lease = play[call[c].play].lease
             /\ play'[call[c].play].session = play[call[c].play].session
  BY <1>1, <1>2 DEF Aside, Leased
<1>3. ASSUME NEW c \in Calls
      PROVE  /\ Phase(call'[c]) \in Handling \ {"lease"} => play'[call'[c].play].lease = c
             /\ Phase(call'[c]) \in {"apply", "end"} => Owns(c, call[c].play)' /\ call'[c].media \in Media
             /\ Phase(call'[c]) = "apply" => <<call'[c].play, call'[c].media>> \notin stopped'
  <2>1. Phase(call'[c]) \in {"apply", "end"} => Phase(call'[c]) \in Handling
    BY DEF Handling
  <2> QED BY <1>2, <1>3, <2>1 DEF EventInv, Owns
<1>4. ASSUME NEW p \in Plays, NEW m \in Media, <<p, m>> \in stopped'
      PROVE  /\ play'[p].revision > 0
             /\ \/ Unbound(p, m)'
                \/ \E c \in Calls : call'[c].stage = "end" /\ call'[c].play = p /\ call'[c].media = m
  <2>1. play[p].revision > 0 /\ play'[p].revision > 0
    BY <1>4 DEF EventInv, Leased
  <2>2. CASE Unbound(p, m)
    BY <2>1, <2>2 DEF Unbound, Leased
  <2>3. ASSUME NEW c \in Calls, call[c].stage = "end", call[c].play = p, call[c].media = m
        PROVE  call'[c].stage = "end" /\ call'[c].play = p /\ call'[c].media = m
    BY <2>3 DEF Aside, Phase, Cleaning, Handling
  <2> QED BY <1>4, <2>1, <2>2, <2>3 DEF EventInv
<1>5. \A c \in Calls : Phase(call'[c]) \in {"apply", "end"} => Owns(c, call[c].play)'
  BY <1>2, <1>3 DEF Handling, Owns
<1> QED BY <1>3, <1>4, <1>5 DEF EventInv

\* A step of an event: the lease of its play session changes hands between it and nobody.
LEMMA EventsTurn ==
  ASSUME TypeInv, EntryInv, EventInv, Listed' \subseteq Listed, NEW c \in Calls,
         \A d \in Calls \ {c} : call'[d] = call[d],
         \A p \in Plays : /\ play'[p].session = play[p].session /\ play'[p].live = play[p].live
                          /\ play'[p].revision = play[p].revision /\ play'[p].source = play[p].source
                          /\ play'[p].lease = play[p].lease \/ play[p].lease \in {c, Nobody},
         Phase(call'[c]) \in Handling \ {"lease"} => play'[call'[c].play].lease = c,
         Phase(call'[c]) \in {"apply", "end"} => Owns(c, call[c].play)' /\ call'[c].media \in Media,
         Phase(call'[c]) = "apply" => <<call'[c].play, call'[c].media>> \notin stopped',
         stopped \subseteq stopped',
         \A p \in Plays, m \in Media : <<p, m>> \in stopped' \ stopped =>
           /\ play[p].revision > 0 /\ play[p].lease = c
           /\ call'[c].stage = "end" /\ call'[c].play = p /\ call'[c].media = m,
         \A p \in Plays, m \in Media :
           call[c].stage = "end" /\ call[c].play = p /\ call[c].media = m => Unbound(p, m)'
  PROVE  EventInv'
<1>1. ASSUME NEW d \in Calls \ {c}
      PROVE  /\ call'[d] = call[d]
             /\ Phase(call'[d]) \in Handling \ {"lease"} => play'[call'[d].play].lease = d
             /\ Phase(call'[d]) \in {"apply", "end"} => Owns(d, call[d].play)' /\ call'[d].media \in Media
             /\ Phase(call'[d]) = "apply" => <<call'[d].play, call'[d].media>> \notin stopped'
  <2>1. call'[d] = call[d] /\ d # Nobody
    BY PlaySessionsAssumption DEF Nobody
  <2>2. Phase(call[d]) \in Handling \ {"lease"} =>
          call[d].play \in Plays /\ play[call[d].play].lease = d
    BY DEF EventInv, TypeInv, Tidy, Fits
  <2>3. Phase(call[d]) \in Handling \ {"lease"} => play'[call[d].play].lease = d
    BY <2>1, <2>2
  <2>4. ASSUME Phase(call[d]) \in {"apply", "end"} PROVE Owns(d, call[d].play)' /\ call[d].media \in Media
    <3>1. call[d].play \in Plays /\ Owns(d, call[d].play) /\ call[d].media \in Media
      BY <2>2, <2>4 DEF Handling, EventInv
    <3> QED BY <2>1, <3>1 DEF Owns
  <2>5. ASSUME Phase(call[d]) = "apply" PROVE <<call[d].play, call[d].media>> \notin stopped'
    <3>1. <<call[d].play, call[d].media>> \notin stopped /\ call[d].media \in Media
      BY <2>5 DEF EventInv
    <3>2. call[d].play \in Plays /\ play[call[d].play].lease # c
      BY <2>2, <2>5 DEF Handling
    <3> QED BY <3>1, <3>2
  <2> QED BY <2>1, <2>3, <2>4, <2>5
<1>2. ASSUME NEW p \in Plays, NEW m \in Media, <<p, m>> \in stopped'
      PROVE  /\ play'[p].revision > 0
             /\ \/ Unbound(p, m)'
                \/ \E d \in Calls : call'[d].stage = "end" /\ call'[d].play = p /\ call'[d].media = m
  <2>1. CASE <<p, m>> \notin stopped
    BY <1>2, <2>1
  <2>2. CASE <<p, m>> \in stopped
    <3>1. play'[p].revision > 0
      BY <2>2 DEF EventInv
    <3>2. CASE Unbound(p, m)
      BY <3>1, <3>2 DEF Unbound
    <3>3. ASSUME NEW d \in Calls, call[d].stage = "end", call[d].play = p, call[d].media = m
          PROVE  \/ Unbound(p, m)'
                 \/ call'[d].stage = "end" /\ call'[d].play = p /\ call'[d].media = m
      <4>1. CASE d = c
        BY <3>3, <4>1
      <4>2. CASE d # c
        BY <3>3, <4>2
      <4> QED BY <4>1, <4>2
    <3> QED BY <2>2, <3>1, <3>2, <3>3 DEF EventInv
  <2> QED BY <2>1, <2>2
<1>3. \A d \in Calls :
        /\ Phase(call'[d]) \in Handling \ {"lease"} => play'[call'[d].play].lease = d
        /\ Phase(call'[d]) \in {"apply", "end"} => Owns(d, call[d].play)' /\ call'[d].media \in Media
        /\ Phase(call'[d]) = "apply" => <<call'[d].play, call'[d].media>> \notin stopped'
  BY <1>1
<1> QED BY <1>2, <1>3 DEF EventInv

\* The fields of a call in its next stage.
LEMMA AtFields ==
  ASSUME TypeInv, NEW c \in Calls, NEW stage \in Stages \ Cleaning, call[c].stage \notin Cleaning,
         Turned(c, At(c, stage))
  PROVE  /\ \A d \in Calls \ {c} : call'[d] = call[d]
         /\ Phase(call'[c]) = stage /\ call'[c].stage \in Cleaning \cup {stage}
         /\ call'[c].play = call[c].play /\ call'[c].media = call[c].media
         /\ call'[c].request = call[c].request
BY TurnAt DEF Turned, Keeps

\* Claiming an event does not bring back a stopped binding.
LEMMA ClaimEventEvents ==
  ASSUME TypeInv, EntryInv, EventInv, NEW c \in Calls, ClaimEvent(c)
  PROVE  Calm /\ EventInv'
<1>1. UNCHANGED <<refs, row, cleanup, lost>> /\ play' = play /\ stopped' = stopped
      /\ call[c].stage = "claim"
  BY DEF ClaimEvent
<1>2. Calm
  BY <1>1, NothingElse, SamePlays, ClaimEventStep DEF Calm
<1>3. PICK stage \in {"lease", "finish"}, next \in CallState : next.stage = stage /\ Turned(c, next)
  BY ClaimEventStep
<1>4. Phase(call'[c]) \in {"lease", "finish"} /\ \A d \in Calls \ {c} : call'[d] = call[d]
  BY <1>3 DEF Turned
<1>5. Listed' \subseteq Listed
  BY <1>2 DEF Calm, QuietStep
<1>6. EventInv'
  BY <1>1, <1>4, <1>5, EventsTurn DEF Handling
<1> QED BY <1>2, <1>6

\* Nor does giving up.
LEMMA GiveUpEvents ==
  ASSUME TypeInv, EntryInv, EventInv, NEW c \in Calls, GiveUp(c)
  PROVE  Calm /\ EventInv'
<1>1. UNCHANGED <<refs, row, cleanup, lost>> /\ play' = play /\ stopped' = stopped
  BY DEF GiveUp
<1>2. Calm
  BY <1>1, NothingElse, SamePlays, GiveUpStep DEF Calm
<1>3. Listed' \subseteq Listed
  BY <1>2 DEF Calm, QuietStep
<1>4. CASE call[c].stage = "wait"
  BY <1>1, <1>2, <1>3, <1>4, SamePlays, GiveUpStep, EventsAside
<1>5. CASE call[c].stage = "lease"
  <2>1. Phase(call'[c]) = "idle" /\ \A d \in Calls \ {c} : call'[d] = call[d]
    BY <1>5, GiveUpStep, EndedTyped DEF Turned
  <2> QED BY <1>1, <1>2, <1>3, <1>5, <2>1, EventsTurn DEF Handling
<1> QED BY <1>2, <1>4, <1>5, GiveUpStep

\* There is one event of a play session at a time: who takes the lease finds it free.
LEMMA LeaseEvents ==
  ASSUME TypeInv, EntryInv, EventInv, NEW c \in Calls, Lease(c)
  PROVE  Calm /\ EventInv'
<1> DEFINE p == call[c].play
<1>1. /\ UNCHANGED <<refs, row, cleanup, lost>> /\ stopped' = stopped
      /\ call[c].stage = "lease" /\ play[p].lease = Nobody /\ play' = [play EXCEPT ![p].lease = c]
  BY DEF Lease
<1>2. p \in Plays /\ play[p].revision > 0
  BY <1>1, CallAt DEF Cleaning, Fits, Handling, EntryInv
<1>3. /\ \A q \in Plays : /\ q # p => play'[q] = play[q]
                          /\ play'[q].session = play[q].session /\ play'[q].live = play[q].live
                          /\ play'[q].source = play[q].source
                          /\ play'[q].revision = play[q].revision
                          /\ play'[q].capabilities = play[q].capabilities
                          /\ play'[q].preference = play[q].preference
      /\ play'[p].lease = c
  BY <1>1, <1>2, LeasePlays
<1>4. Lasting
  BY <1>3 DEF Lasting
<1>5. Calm /\ Turned(c, At(c, "recheck"))
  BY <1>1, <1>4, NothingElse, LeaseStep DEF Calm
<1>6. /\ \A d \in Calls \ {c} : call'[d] = call[d]
      /\ Phase(call'[c]) = "recheck" /\ call'[c].play = p
  BY <1>1, <1>5, AtFields DEF Cleaning, Stages, Handling
<1>7. Listed' \subseteq Listed
  BY <1>5 DEF Calm, QuietStep
<1>8. \A q \in Plays : play'[q].lease = play[q].lease \/ play[q].lease \in {c, Nobody}
  BY <1>1, <1>3
<1> HIDE DEF p
<1>9. EventInv'
  BY <1>1, <1>3, <1>6, <1>7, <1>8, EventsTurn DEF Handling
<1> QED BY <1>5, <1>9

\* What is to be applied was not stopped before.
LEMMA RecheckEvents ==
  ASSUME TypeInv, EntryInv, EventInv, NEW c \in Calls, Recheck(c)
  PROVE  Calm /\ EventInv'
<1> DEFINE p == call[c].play  m == call[c].media
           stage == IF StillMeant(c) THEN "apply" ELSE "free"
<1>1. /\ UNCHANGED <<refs, row, cleanup, lost>> /\ stopped' = stopped /\ play' = play
      /\ call[c].stage = "recheck"
  BY DEF Recheck
<1>2. Calm /\ Turned(c, At(c, stage))
  BY <1>1, NothingElse, SamePlays, RecheckStep DEF Calm
<1>3. stage \in {"apply", "free"} /\ stage \in Stages \ Cleaning
  BY DEF Stages, Handling, Cleaning
<1>4. /\ \A d \in Calls \ {c} : call'[d] = call[d]
      /\ Phase(call'[c]) = stage /\ call'[c].play = p /\ call'[c].media = m
      /\ call'[c].request = call[c].request
  BY <1>1, <1>2, <1>3, AtFields DEF Cleaning
<1>5. p \in Plays /\ play[p].lease = c
  BY <1>1 DEF EventInv, Phase, Cleaning, Handling, TypeInv, Tidy, Fits
<1>6. ASSUME stage = "apply"
      PROVE  /\ Owns(c, p) /\ m \in Media /\ <<p, m>> \notin stopped
  <2>1. /\ p \in Listed /\ play[p].live /\ Owns(c, p) /\ m \in Media /\ play[p].source[m].ref # 0
    BY <1>6 DEF StillMeant, Finds, Alive, Current, Expired, Has
  <2>2. ~Unbound(p, m)
    BY <2>1 DEF Unbound
  <2>3. \A d \in Calls : call[d].stage = "end" /\ call[d].play = p => d = c
    BY <1>5 DEF EventInv, Phase, Cleaning, Handling
  <2> QED BY <1>1, <1>5, <2>1, <2>2, <2>3 DEF EventInv
<1>7. stage = "apply" => Owns(c, call[c].play)'
  BY <1>1, <1>4, <1>6 DEF Owns
<1>8. Listed' \subseteq Listed
  BY <1>2 DEF Calm, QuietStep
<1> HIDE DEF p, m, stage
<1>9. Phase(call'[c]) \in {"apply", "end"} => Owns(c, call[c].play)' /\ call'[c].media \in Media
  BY <1>3, <1>4, <1>6, <1>7
<1>10. Phase(call'[c]) = "apply" => <<call'[c].play, call'[c].media>> \notin stopped'
  BY <1>1, <1>4, <1>6
<1>11. EventInv'
  BY <1>1, <1>4, <1>5, <1>8, <1>9, <1>10, EventsTurn
<1> QED BY <1>2, <1>11

\* A stopped binding stays with the call that stopped it.
LEMMA ApplyEvents ==
  ASSUME TypeInv, EntryInv, EventInv, NEW c \in Calls, Apply(c)
  PROVE  Calm /\ EventInv'
<1> DEFINE p == call[c].play  m == call[c].media
<1>1. UNCHANGED <<refs, row, cleanup, lost>> /\ play' = play /\ call[c].stage = "apply"
  BY DEF Apply
<1>2. Calm
  BY <1>1, NothingElse, SamePlays, ApplyStep DEF Calm
<1>3. Listed' \subseteq Listed
  BY <1>2 DEF Calm, QuietStep
<1>4. p \in Plays /\ play[p].lease = c /\ Owns(c, p) /\ m \in Media /\ play[p].revision > 0
  BY <1>1 DEF EventInv, Phase, Cleaning, Handling, TypeInv, Tidy, Fits, EntryInv
<1>5. ASSUME NEW stage \in {"end", "free"}, Turned(c, At(c, stage))
      PROVE  /\ \A d \in Calls \ {c} : call'[d] = call[d]
             /\ Phase(call'[c]) = stage /\ call'[c].play = p /\ call'[c].media = m
             /\ call'[c].request = call[c].request
  <2>1. stage \in Stages \ Cleaning
    BY DEF Stages, Handling, Cleaning
  <2> QED BY <1>1, <1>5, <2>1, AtFields DEF Cleaning
<1>6. ASSUME NEW stage \in {"end", "free"}, Turned(c, At(c, stage)) PROVE Owns(c, call[c].play)'
  BY <1>1, <1>4, <1>5, <1>6 DEF Owns
<1> HIDE DEF p, m
<1>7. CASE /\ stopped' = stopped \cup {<<p, m>>}
           /\ Turned(c, At(c, "end")) /\ call'[c].stage = "end"
  <2>1. /\ \A d \in Calls \ {c} : call'[d] = call[d]
        /\ Phase(call'[c]) = "end" /\ call'[c].play = p /\ call'[c].media = m /\ Owns(c, call[c].play)'
    BY <1>5, <1>6, <1>7
  <2>2. Phase(call'[c]) \in {"apply", "end"} => Owns(c, call[c].play)' /\ call'[c].media \in Media
    BY <1>4, <2>1
  <2> QED BY <1>1, <1>2, <1>3, <1>4, <1>7, <2>1, <2>2, EventsTurn
<1>8. CASE stopped' = stopped /\ Turned(c, At(c, "free"))
  <2>1. /\ \A d \in Calls \ {c} : call'[d] = call[d]
        /\ Phase(call'[c]) = "free" /\ call'[c].play = p /\ call'[c].media = m /\ Owns(c, call[c].play)'
    BY <1>5, <1>6, <1>8
  <2> QED BY <1>1, <1>2, <1>3, <1>4, <1>8, <2>1, EventsTurn
<1> QED BY <1>7, <1>8, ApplyStep DEF p, m

\* Until it has taken the binding out.
LEMMA EndStoppedEvents ==
  ASSUME TypeInv, EntryInv, EventInv, NEW c \in Calls, EndStopped(c)
  PROVE  Calm /\ EventInv'
<1> DEFINE p == call[c].play  m == call[c].media
<1>1. /\ UNCHANGED <<refs, row, cleanup, lost>> /\ stopped' = stopped /\ play' = play
      /\ call[c].stage = "end"
  BY DEF EndStopped
<1>2. Calm /\ Turned(c, At(c, "free"))
  BY <1>1, NothingElse, SamePlays, EndStoppedStep DEF Calm
<1>3. /\ \A d \in Calls \ {c} : call'[d] = call[d]
      /\ Phase(call'[c]) = "free" /\ call'[c].play = p /\ call'[c].media = m
  BY <1>1, <1>2, AtFields DEF Cleaning, Stages, Handling
<1>4. p \in Plays /\ play[p].lease = c /\ Owns(c, p) /\ m \in Media
  BY <1>1 DEF EventInv, Phase, Cleaning, Handling, TypeInv, Tidy, Fits
<1>5. Listed' \subseteq Listed
  BY <1>2 DEF Calm, QuietStep
<1>6. ASSUME NEW q \in Plays, NEW n \in Media, q = p, n = m PROVE Unbound(q, n)'
  <2>1. CASE StillMeant(c)
    <3>1. entries' = Without({p})
      BY <2>1 DEF EndStopped, Removed
    <3>2. q \notin Listed'
      BY <1>6, <3>1, WithoutListed DEF TypeInv
    <3> QED BY <3>2 DEF Unbound
  <2>2. CASE ~StillMeant(c)
    <3>1. Unbound(q, n)
      BY <1>4, <1>6, <2>2 DEF StillMeant, Finds, Alive, Current, Expired, Has, Unbound, EntryInv
    <3> QED BY <1>1, <1>5, <3>1 DEF Unbound
  <2> QED BY <2>1, <2>2
<1>7. EventInv'
  BY <1>1, <1>3, <1>4, <1>5, <1>6, EventsTurn
<1> QED BY <1>2, <1>7

\* Setting the lease free disturbs no other event.
LEMMA ReleaseLeaseEvents ==
  ASSUME TypeInv, EntryInv, EventInv, NEW c \in Calls, ReleaseLease(c)
  PROVE  Calm /\ EventInv'
<1> DEFINE p == call[c].play
<1>1. /\ UNCHANGED <<refs, row, cleanup, lost>> /\ stopped' = stopped
      /\ call[c].stage = "free" /\ play' = [play EXCEPT ![p].lease = Nobody]
  BY DEF ReleaseLease
<1>2. p \in Plays /\ play[p].revision > 0 /\ play[p].lease = c
  BY <1>1 DEF EventInv, Phase, Cleaning, Handling, TypeInv, Tidy, Fits, EntryInv
<1>3. \A q \in Plays : /\ q # p => play'[q] = play[q]
                       /\ play'[q].session = play[q].session /\ play'[q].live = play[q].live
                       /\ play'[q].source = play[q].source
                       /\ play'[q].revision = play[q].revision
                       /\ play'[q].capabilities = play[q].capabilities
                       /\ play'[q].preference = play[q].preference
  BY <1>1, <1>2, LeasePlays
<1>4. Lasting
  BY <1>3 DEF Lasting
<1>5. Calm /\ Turned(c, Ended(c))
  BY <1>1, <1>4, NothingElse, ReleaseLeaseStep DEF Calm
<1>6. Phase(call'[c]) = "idle" /\ \A d \in Calls \ {c} : call'[d] = call[d]
  BY <1>5, EndedTyped DEF Turned
<1>7. Listed' \subseteq Listed
  BY <1>5 DEF Calm, QuietStep
<1>8. \A q \in Plays : play'[q].lease = play[q].lease \/ play[q].lease \in {c, Nobody}
  BY <1>2, <1>3
<1> HIDE DEF p
<1>9. EventInv'
  BY <1>1, <1>3, <1>6, <1>7, <1>8, EventsTurn DEF Handling
<1> QED BY <1>5, <1>9

\* The call that takes the step handles no event.
LEMMA CallAside ==
  ASSUME NEW c \in Calls, \A d \in Calls \ {c} : call'[d] = call[d],
         Phase(call[c]) \notin Handling, Phase(call'[c]) \notin Handling
  PROVE  Aside
BY DEF Aside

\* A call that cleans up goes on where it was.
LEMMA CleaningAside ==
  ASSUME NEW c \in Calls, \A d \in Calls \ {c} : call'[d] = call[d],
         Cleaned(call[c], call'[c]), call[c].stage \in Cleaning
  PROVE  Aside
BY DEF Aside, Cleaned, Cleaning

\* Detached entries are not listed, so no event means them.
LEMMA DetachEvents ==
  ASSUME TypeInv, EntryInv, EventInv, NEW c \in Calls, Detach(c)
  PROVE  EventInv'
<1>1. /\ \A d \in Calls \ {c} : call'[d] = call[d]
      /\ Cleaned(call[c], call'[c]) /\ call[c].stage \in Cleaning
      /\ \A p \in Plays \ call[c].stale : play'[p] = play[p]
      /\ \A p \in call[c].stale :
           /\ play'[p].revision = play[p].revision /\ play'[p].lease = play[p].lease
           /\ play'[p].session = play[p].session /\ play'[p].live = play[p].live
           /\ \A m \in Media : play'[p].source[m].ref = play[p].source[m].ref
  BY DetachStep, Zenon
<1>2. Leased
  BY <1>1 DEF Leased
<1>3. stopped' = stopped /\ Listed' = Listed
  BY DEF Detach, Listed
<1>4. Aside
  BY <1>1, CleaningAside
<1> QED BY <1>2, <1>3, <1>4, EventsAside

\* What a call does with its own references is no event.
LEMMA TidyingEvents ==
  ASSUME TypeInv, EntryInv, EventInv, NEW c \in Calls,
         Release(c) \/ Close(c) \/ Finish(c) \/ FetchOptions(c) \/ PinOptions(c)
  PROVE  EventInv'
<1>1. stopped' = stopped /\ Listed' = Listed /\ play' = play
  BY DEF Release, Close, Finish, FetchOptions, PinOptions, Listed
<1>2. CASE Release(c) \/ Close(c)
  <2>1. /\ \A d \in Calls \ {c} : call'[d] = call[d]
        /\ Cleaned(call[c], call'[c]) /\ call[c].stage \in Cleaning
    BY <1>2, ReleaseStep, CloseStep DEF Cleaning
  <2> QED BY <1>1, <2>1, CleaningAside, SamePlays, EventsAside
<1>3. CASE Finish(c)
  <2>1. /\ \A d \in Calls \ {c} : call'[d] = call[d]
        /\ call[c].stage = "finish" /\ call'[c] = Ended(c)
    BY <1>3, FinishStep
  <2>2. Phase(call[c]) = "finish" /\ Phase(call'[c]) = "idle"
    BY <2>1, EndedTyped DEF Phase, Cleaning
  <2>3. Aside
    BY <2>1, <2>2, CallAside DEF Handling
  <2> QED BY <1>1, <2>3, SamePlays, EventsAside
<1>4. CASE FetchOptions(c)
  <2>1. /\ \A d \in Calls \ {c} : call'[d] = call[d]
        /\ call[c].stage = "options" /\ call'[c].stage \notin Cleaning \cup Handling
    BY <1>4, FetchStep
  <2>2. Aside
    BY <2>1, CallAside DEF Handling, Phase, Cleaning
  <2> QED BY <1>1, <2>2, SamePlays, EventsAside
<1>5. CASE PinOptions(c)
  <2>1. /\ \A d \in Calls \ {c} : call'[d] = call[d]
        /\ call[c].stage = "pin" /\ call'[c].stage \in {"register", "finish"}
    BY <1>5, PinOptionsStep
  <2>2. Aside
    BY <2>1, CallAside DEF Handling, Phase, Cleaning
  <2> QED BY <1>1, <2>2, SamePlays, EventsAside
<1> QED BY <1>2, <1>3, <1>4, <1>5

\* Rebinding never binds again what was stopped.
LEMMA ReboundEvents ==
  ASSUME TypeInv, EntryInv, EventInv, NEW c \in Calls, NEW p \in Plays, ReboundTurn(c, p), stopped' = stopped
  PROVE  EventInv'
<1>1. p \in Plays /\ play[p].revision \in Nat
  BY DEF TypeInv, Play
<1>2. play'[p].revision > 0
  BY <1>1 DEF ReboundTurn
<1>3. \A m \in Media : play[p].source[m].ref = 0 => play'[p].source[m].ref = 0
  BY DEF ReboundTurn, Matched, Bindings, Has, NoSource
<1>4. Leased
  BY <1>2, <1>3 DEF Leased, ReboundTurn
<1>5. Aside
  BY CallAside DEF ReboundTurn, Handling, Phase, Cleaning
<1> QED BY <1>4, <1>5, EventsAside DEF ReboundTurn

\* A new play session was never stopped.
LEMMA RegisterEvents ==
  ASSUME TypeInv, EntryInv, EventInv, NEW c \in Calls, NEW p \in Plays, RegisterTurn(c, p), stopped' = stopped
  PROVE  EventInv'
<1>1. Aside
  BY CallAside DEF RegisterTurn, Handling, Phase, Cleaning
<1>2. Leased
  BY DEF Leased, RegisterTurn
<1>3. \A q \in Listed' : q \in Listed \/ play[q].revision = 0
  BY DEF RegisterTurn
<1> QED BY <1>1, <1>2, <1>3, EventsAside

\* A reservation is no event.
LEMMA ReserveEvents ==
  ASSUME TypeInv, EntryInv, EventInv, NEW c \in Calls, ReserveTurn(c)
  PROVE  EventInv'
<1>1. Aside
  BY CallAside DEF ReserveTurn, Handling, Phase, Cleaning
<1>2. Leased
  BY DEF Leased, ReserveTurn, PlaysKept
<1> QED BY <1>1, <1>2, EventsAside DEF ReserveTurn

\* Nor is any step of an opening.
LEMMA OpenEvents ==
  ASSUME TypeInv, EntryInv, EventInv, NEW c \in Calls, OpenTurn(c), stopped' = stopped
  PROVE  EventInv'
<1>1. Aside
  BY CallAside DEF OpenTurn, Handling, Opening, Phase, Cleaning
<1> QED BY <1>1, SamePlays, EventsAside DEF OpenTurn

\* Installing binds only what is listed and live.
LEMMA InstallEvents ==
  ASSUME TypeInv, EntryInv, EventInv, NEW c \in Calls, NEW next, InstallTurn(c, next)
  PROVE  EventInv'
<1>1. Aside
  <2>1. Phase(call[c]) \notin Handling /\ Phase(call'[c]) \notin Handling
    BY DEF InstallTurn, InstallsTo, Settling, Handling, Phase, Cleaning
  <2>2. \A d \in Calls \ {c} : \/ call'[d] = call[d]
                               \/ call[d].stage = "wait" /\ Phase(call'[d]) = "lookup"
    BY DEF InstallTurn, InstallsTo
  <2> QED BY <2>1, <2>2 DEF Aside, Phase, Cleaning, Handling
<1>2. Leased
  <2>1. CASE Installed(c, next)
    <3> DEFINE p == call[c].play  m == call[c].media
    <3>1. p \in Plays /\ m \in Media /\ play[p].source[m].ref # 0
      BY <2>1, Zenon DEF Installed, BindingCurrent, OpeningCurrent, SourceAt
    <3>2. Alike(p) /\ \A n \in Media \ {m} : play'[p].source[n] = play[p].source[n]
      BY <2>1, Zenon DEF Installed
    <3>3. \A q \in Plays \ {p} : play'[q] = play[q]
      BY <2>1, Zenon DEF Installed
    <3> HIDE DEF p, m
    <3> QED BY <3>1, <3>2, <3>3 DEF Leased, Alike
  <2>2. CASE NotInstalled(c, next)
    BY <2>2 DEF NotInstalled, Leased, Alike, PlaysKept
  <2> QED BY <2>1, <2>2 DEF InstallTurn
<1> QED BY <1>1, <1>2, EventsAside DEF InstallTurn

-----------------------------------------------------------------------------
(* Every step is calm, or moves a reference or a delivery. *)

Moves(c) ==
  \/ Detach(c) \/ Release(c) \/ Close(c) \/ Finish(c) \/ FetchOptions(c) \/ PinOptions(c)
  \/ (Reuse(c) /\ \E p \in Plays : ReboundTurn(c, p))
  \/ Register(c) \/ (Lookup(c) /\ ReserveTurn(c))
  \/ Resolve(c) \/ CreateSession(c) \/ StartSession(c) \/ Bind(c) \/ Install(c)

\* A calm step that is not of an event.
LEMMA CalmEvents ==
  ASSUME TypeInv, EntryInv, EventInv, Calm, Aside, Leased, stopped' = stopped
  PROVE  TypeInv' /\ EntryInv' /\ EventInv' /\ Calm
BY EventsAside DEF Calm, QuietStep

\* Every move of a call keeps types, entries and events.
LEMMA MovesTyped ==
  ASSUME TypeInv, EntryInv, EventInv, NEW c \in Calls, Moves(c)
  PROVE  TypeInv' /\ EntryInv' /\ EventInv'
<1>1. CASE Detach(c)
  BY <1>1, DetachStep, DetachEvents
<1>2. CASE Release(c) \/ Close(c) \/ Finish(c) \/ FetchOptions(c) \/ PinOptions(c)
  BY <1>2, TidyingEvents, ReleaseStep, CloseStep, FinishStep, FetchStep, PinOptionsStep
<1>3. ASSUME NEW p \in Plays, Reuse(c), ReboundTurn(c, p) PROVE TypeInv' /\ EntryInv' /\ EventInv'
  <2>1. stopped' = stopped
    BY <1>3 DEF Reuse
  <2>2. EventInv'
    BY <1>3, <2>1, ReboundEvents
  <2>3. Chosen(c) # 0 /\ Changed(c, Chosen(c)) /\ CanPin(Kept(c, Chosen(c)))
    <3> SUFFICES ASSUME Chosen(c) = 0 \/ ~Changed(c, Chosen(c)) \/ ~CanPin(Kept(c, Chosen(c)))
                 PROVE  FALSE
      OBVIOUS
    <3>1. PlaysKept
      BY <1>3, ReuseQuietStep DEF QuietStep
    <3>2. play'[p].revision = play[p].revision + 1 /\ play[p].revision \in Nat /\ play' = play
      BY <1>3 DEF ReboundTurn, TypeInv, Play, Reuse
    <3> QED BY <3>2
  <2> QED BY <1>3, <2>2, <2>3, ReboundStep
<1>4. CASE Register(c)
  <2>1. stopped' = stopped
    BY <1>4 DEF Register
  <2>2. PICK p \in Plays : RegisterTurn(c, p)
    BY <1>4, RegisterStep
  <2> QED BY <1>4, <2>1, <2>2, RegisterStep, RegisterEvents
<1>5. CASE Lookup(c) /\ ReserveTurn(c)
  <2>1. ~(play' = play /\ cleanup' = cleanup)
    <3>1. cleanup \in Cleanup
      BY DEF TypeInv, RestTyped
    <3>2. cleanup'.reserved # cleanup.reserved
      BY <1>5, <3>1 DEF ReserveTurn, Cleanup
    <3> QED BY <3>2
  <2> QED BY <1>5, <2>1, ReserveStep, ReserveEvents
<1>6. CASE Resolve(c) \/ CreateSession(c) \/ StartSession(c) \/ Bind(c)
  <2>1. OpenTurn(c) /\ TypeInv' /\ EntryInv'
    BY <1>6, ResolveStep, CreateSessionStep, StartSessionStep, BindStep
  <2>2. stopped' = stopped
    BY <1>6 DEF Resolve, CreateSession, StartSession, Bind
  <2> QED BY <2>1, <2>2, OpenEvents
<1>7. CASE Install(c)
  <2>1. PICK next : InstallTurn(c, next)
    BY <1>7, InstallStep
  <2> QED BY <1>7, <2>1, InstallStep, InstallEvents
<1> QED BY <1>1, <1>2, <1>3, <1>4, <1>5, <1>6, <1>7 DEF Moves

\* Every step of a call is calm or a move.
LEMMA StepTurns ==
  ASSUME TypeInv, EntryInv, EventInv, NEW c \in Calls, Step(c)
  PROVE  TypeInv' /\ EntryInv' /\ EventInv' /\ (Calm \/ Moves(c))
<1>1. CASE Detach(c) \/ Release(c) \/ Close(c) \/ Finish(c) \/ FetchOptions(c) \/ PinOptions(c)
             \/ Register(c) \/ Resolve(c) \/ CreateSession(c) \/ StartSession(c) \/ Bind(c) \/ Install(c)
  <2>1. Moves(c)
    BY <1>1 DEF Moves
  <2> QED BY <2>1, MovesTyped
<1>2. CASE ReuseCached(c) \/ Missed(c) \/ Serve(c) \/ Abandon(c)
             \/ Logout(c) \/ CloseSession(c) \/ Reap(c) \/ CloseAll(c)
  BY <1>2, PlainCalm, CalmEvents
<1>3. CASE Reuse(c)
  <2>1. CASE Chosen(c) = 0 \/ ~Changed(c, Chosen(c)) \/ ~CanPin(Kept(c, Chosen(c)))
    BY <1>3, <2>1, ReuseCalm, CalmEvents
  <2>2. CASE Chosen(c) # 0 /\ Changed(c, Chosen(c)) /\ CanPin(Kept(c, Chosen(c)))
    <3>1. ReboundTurn(c, Chosen(c)) /\ Chosen(c) \in Plays
      BY <1>3, <2>2, ReboundStep, ListedSets DEF ReboundTurn
    <3>2. Moves(c)
      BY <1>3, <3>1 DEF Moves
    <3> QED BY <3>2, MovesTyped
  <2> QED BY <2>1, <2>2
<1>4. CASE Lookup(c)
  <2>1. CASE play' = play /\ cleanup' = cleanup
    BY <1>4, <2>1, LookupCalm, CalmEvents
  <2>2. CASE ~(play' = play /\ cleanup' = cleanup)
    <3>1. Moves(c)
      BY <1>4, <2>2, ReserveStep DEF Moves
    <3> QED BY <3>1, MovesTyped
  <2> QED BY <2>1, <2>2
<1>5. CASE Prefer(c)
  BY <1>5, PreferCalm, CalmEvents
<1>6. CASE ResetCache(c)
  BY <1>6, ResetCalm, CalmEvents
<1>7. CASE Retire(c)
  BY <1>7, RetireCalm, CalmEvents
<1>8. CASE Drain(c)
  BY <1>8, DrainCalm, CalmEvents
<1>9. ASSUME ClaimEvent(c) \/ Lease(c) \/ Recheck(c) \/ Apply(c) \/ EndStopped(c) \/ ReleaseLease(c)
      PROVE  TypeInv' /\ EntryInv' /\ EventInv' /\ Calm
  <2>1. Calm /\ EventInv'
    BY <1>9, ClaimEventEvents, LeaseEvents, RecheckEvents, ApplyEvents, EndStoppedEvents, ReleaseLeaseEvents
  <2> QED BY <2>1 DEF Calm, QuietStep
<1> QED BY <1>1, <1>2, <1>3, <1>4, <1>5, <1>6, <1>7, <1>8, <1>9, Zenon DEF Step

\* So is every step.
LEMMA NextTurns ==
  ASSUME TypeInv, EntryInv, EventInv, OwnerInv, [Next]_vars
  PROVE  TypeInv' /\ EntryInv' /\ EventInv' /\ (Calm \/ \E c \in Calls : Moves(c))
<1>1. ASSUME NEW c \in Calls, Step(c)
      PROVE  TypeInv' /\ EntryInv' /\ EventInv' /\ (Calm \/ Moves(c))
  BY <1>1, StepTurns
<1>2. ASSUME NEW h \in Handles, CloseDelivery(h) \/ RetryDue(h) \/ Lapse(h)
      PROVE  TypeInv' /\ EntryInv' /\ EventInv' /\ Calm
  <2>1. row[h].at # "none" \/ ~Queued(h)
    BY DEF OwnerInv, Attended
  <2> QED BY <1>2, <2>1, WorkerCalm, CalmEvents
<1>3. CASE ClaimDue
  BY <1>3, ClaimDueCalm, CalmEvents
<1>4. ASSUME NEW c \in Calls, Begin(c) PROVE TypeInv' /\ EntryInv' /\ EventInv' /\ Calm
  BY <1>4, PlainCalm, CalmEvents
<1>5. ASSUME NEW c \in Calls, GiveUp(c) PROVE TypeInv' /\ EntryInv' /\ EventInv' /\ Calm
  BY <1>5, GiveUpEvents DEF Calm, QuietStep
<1>6. ASSUME NEW h \in Handles, RowIdle(h) PROVE TypeInv' /\ EntryInv' /\ EventInv' /\ Calm
  BY <1>6, TimeCalm, CalmEvents
<1>7. ASSUME NEW r \in Refs, ReferenceExpires(r) PROVE TypeInv' /\ EntryInv' /\ EventInv' /\ Calm
  BY <1>7, TimeCalm, CalmEvents
<1>8. ASSUME NEW p \in Plays, Expire(p) PROVE TypeInv' /\ EntryInv' /\ EventInv' /\ Calm
  BY <1>8, ExpireCalm, CalmEvents
<1>9. CASE UNCHANGED vars
  BY <1>9, StutterCalm, CalmEvents
<1> QED BY <1>1, <1>2, <1>3, <1>4, <1>5, <1>6, <1>7, <1>8, <1>9 DEF Next, Progress

-----------------------------------------------------------------------------
(* Who owns a delivery. *)

Owned(h) ==
  /\ OneOwner(h)
  /\ row[h].at = "open" /\ h \notin lost => Attended(h)
  /\ row[h].at = "none" => ~Attended(h)

\* There is one who does, and this is all.
OnlyCall(c, h) ==
  /\ \A d \in Calls : (Carries(d, h) <=> d = c) /\ h \notin call[d].drop
  /\ ~Queued(h) /\ \A p \in Plays, m \in Media : ~Serves(p, m, h)
OnlyDrop(c, h) ==
  /\ \A d \in Calls : ~Carries(d, h) /\ (h \in call[d].drop <=> d = c)
  /\ ~Queued(h) /\ \A p \in Plays, m \in Media : ~Serves(p, m, h)
OnlyPlay(q, n, h) ==
  /\ \A d \in Calls : ~Carries(d, h) /\ h \notin call[d].drop
  /\ ~Queued(h) /\ \A p \in Plays, m \in Media : Serves(p, m, h) <=> (p = q /\ m = n)
OnlyQueue(h) ==
  /\ \A d \in Calls : ~Carries(d, h) /\ h \notin call[d].drop
  /\ Queued(h) /\ \A p \in Plays, m \in Media : ~Serves(p, m, h)
NoOwner(h) ==
  /\ \A d \in Calls : ~Carries(d, h) /\ h \notin call[d].drop
  /\ ~Queued(h) /\ \A p \in Plays, m \in Media : ~Serves(p, m, h)

\* An owner is the only one.
LEMMA Sole ==
  ASSUME NEW h \in Handles, Owned(h)
  PROVE  /\ \A c \in Calls : Carries(c, h) => OnlyCall(c, h)
         /\ \A c \in Calls : h \in call[c].drop => OnlyDrop(c, h)
         /\ \A p \in Plays, m \in Media : Serves(p, m, h) => OnlyPlay(p, m, h)
         /\ Queued(h) => OnlyQueue(h)
         /\ ~Attended(h) => NoOwner(h)
         /\ Attended(h) => row[h].at # "none"
<1>1. ASSUME NEW c \in Calls, Carries(c, h) PROVE OnlyCall(c, h)
  BY <1>1 DEF Owned, OneOwner, OnlyCall
<1>2. ASSUME NEW c \in Calls, h \in call[c].drop PROVE OnlyDrop(c, h)
  BY <1>2 DEF Owned, OneOwner, OnlyDrop
<1>3. ASSUME NEW p \in Plays, NEW m \in Media, Serves(p, m, h) PROVE OnlyPlay(p, m, h)
  BY <1>3 DEF Owned, OneOwner, OnlyPlay
<1>4. ASSUME Queued(h) PROVE OnlyQueue(h)
  BY <1>4 DEF Owned, OneOwner, OnlyQueue
<1> QED BY <1>1, <1>2, <1>3, <1>4 DEF Owned, Attended, NoOwner

\* A delivery with one owner is owned, and one that is gone needs none.
LEMMA SoleOwned ==
  ASSUME NEW h \in Handles, row'[h].at # "none",
         \/ \E c \in Calls : OnlyCall(c, h)' \/ OnlyDrop(c, h)'
         \/ \E p \in Plays, m \in Media : OnlyPlay(p, m, h)'
         \/ OnlyQueue(h)'
         \/ NoOwner(h)' /\ (row'[h].at # "open" \/ h \in lost')
  PROVE  Owned(h)'
<1>1. ASSUME NEW c \in Calls, OnlyCall(c, h)' PROVE Owned(h)'
  BY <1>1 DEF Owned, OneOwner, Attended, OnlyCall
<1>2. ASSUME NEW c \in Calls, OnlyDrop(c, h)' PROVE Owned(h)'
  BY <1>2 DEF Owned, OneOwner, Attended, OnlyDrop
<1>3. ASSUME NEW p \in Plays, NEW m \in Media, OnlyPlay(p, m, h)' PROVE Owned(h)'
  BY <1>3 DEF Owned, OneOwner, Attended, OnlyPlay
<1>4. ASSUME OnlyQueue(h)' PROVE Owned(h)'
  BY <1>4 DEF Owned, OneOwner, Attended, OnlyQueue
<1>5. ASSUME NoOwner(h)' /\ (row'[h].at # "open" \/ h \in lost') PROVE Owned(h)'
  BY <1>5 DEF Owned, OneOwner, Attended, NoOwner
<1> QED BY <1>1, <1>2, <1>3, <1>4, <1>5

\* A step that moves it to nobody, and opens it for nobody.
LEMMA OwnedKept ==
  ASSUME NEW h \in Handles, Owned(h),
         \A c \in Calls : (Carries(c, h)' <=> Carries(c, h)) /\ (h \in call'[c].drop <=> h \in call[c].drop),
         \A p \in Plays, m \in Media : Serves(p, m, h)' <=> Serves(p, m, h),
         Queued(h)' => Queued(h),
         Queued(h) /\ ~Queued(h)' => row'[h].at # "open" \/ h \in lost',
         row'[h].at = "none" <=> row[h].at = "none",
         row'[h].at = "open" => row[h].at = "open", lost \subseteq lost'
  PROVE  Owned(h)'
BY DEF Owned, OneOwner, Attended

\* In a calm step the owners of a delivery stay.
LEMMA CalmOwners ==
  ASSUME TypeInv, Calm
  PROVE  /\ \A c \in Calls, h \in Handles : Carries(c, h)' <=> Carries(c, h)
         /\ \A c \in Calls : call'[c].drop = call[c].drop
         /\ \A p \in Plays, m \in Media, h \in Handles : Serves(p, m, h)' <=> Serves(p, m, h)
<1>1. ASSUME NEW c \in Calls, NEW h \in Handles PROVE Carries(c, h)' <=> Carries(c, h)
  <2>1. Passive(call[c], call'[c])
    BY DEF Calm, QuietStep, Quiet
  <2> QED BY <2>1 DEF Passive, Carries, Phase, Opening, Cleaning
<1>2. \A c \in Calls : call'[c].drop = call[c].drop
  BY DEF Calm, QuietStep, Quiet, Passive
<1>3. \A p \in Plays, m \in Media, h \in Handles : Serves(p, m, h)' <=> Serves(p, m, h)
  BY DEF Calm, QuietStep, PlaysKept, Serves
<1> QED BY <1>1, <1>2, <1>3

\* A calm step leaves deliveries with whom they are.
LEMMA CalmOwned ==
  ASSUME TypeInv, OwnerInv, Calm
  PROVE  OwnerInv'
<1>1. ASSUME NEW h \in Handles PROVE Owned(h)'
  <2>1. Owned(h)
    BY DEF OwnerInv, Owned
  <2>2. /\ Queued(h)' => Queued(h)
        /\ Queued(h) /\ ~Queued(h)' => row'[h].at # "open" \/ h \in lost'
        /\ row'[h].at = "none" <=> row[h].at = "none"
        /\ row'[h].at = "open" => row[h].at = "open"
        /\ lost \subseteq lost'
    BY DEF Calm, QueueKept, RowsKept
  <2> QED BY <2>1, <2>2, CalmOwners, OwnedKept
<1> QED BY <1>1 DEF OwnerInv, Owned

\* Moves of one call that leave the deliveries where they are.
LEMMA StillOwned ==
  ASSUME OwnerInv, NEW c \in Calls, \A d \in Calls \ {c} : call'[d] = call[d],
         \A h \in Handles : (Carries(c, h)' <=> Carries(c, h)), call'[c].drop = call[c].drop,
         \A p \in Plays, m \in Media : play'[p].source[m].handle = play[p].source[m].handle,
         \A h \in Handles : row'[h].at = row[h].at, cleanup'.pending = cleanup.pending, lost' = lost
  PROVE  OwnerInv'
<1>1. ASSUME NEW h \in Handles PROVE Owned(h)'
  <2>1. Owned(h)
    BY DEF OwnerInv, Owned
  <2>2. \A d \in Calls : (Carries(d, h)' <=> Carries(d, h)) /\ (h \in call'[d].drop <=> h \in call[d].drop)
    BY DEF Carries
  <2> QED BY <2>1, <2>2, OwnedKept DEF Serves, Queued
<1> QED BY <1>1 DEF OwnerInv, Owned

\* Finish, FetchOptions, PinOptions, Register, Lookup, Resolve and Bind move no delivery.
LEMMA StillMoves ==
  ASSUME TypeInv, EntryInv, OwnerInv, NEW c \in Calls,
         \/ Release(c) \/ Finish(c) \/ FetchOptions(c) \/ PinOptions(c) \/ Register(c)
         \/ (Lookup(c) /\ ReserveTurn(c)) \/ Resolve(c) \/ Bind(c)
  PROVE  OwnerInv'
<1>1. row' = row /\ lost' = lost
  BY Zenon DEF Release, Finish, FetchOptions, PinOptions, Register, Lookup, Resolve, Bind
<1>2. cleanup \in Cleanup
  BY DEF TypeInv, RestTyped
<1>3. CASE Release(c)
  <2>1. /\ \A d \in Calls \ {c} : call'[d] = call[d]
        /\ Cleaned(call[c], call'[c]) /\ call[c].stage \in Cleaning /\ call'[c].stage \in Cleaning
        /\ call'[c].drop = call[c].drop
    BY <1>3, ReleaseStep
  <2>2. play' = play /\ cleanup' = cleanup
    BY <1>3 DEF Release
  <2> QED BY <1>1, <2>1, <2>2, StillOwned DEF Carries, Cleaning
<1>4. CASE Finish(c)
  <2>1. /\ \A d \in Calls \ {c} : call'[d] = call[d]
        /\ call[c].stage = "finish" /\ call'[c] = Ended(c)
    BY <1>4, FinishStep
  <2>2. call[c].drop = {} /\ call'[c].drop = {} /\ call'[c].stage = "idle"
    BY <2>1, CallAt, EndedTyped DEF Cleaning
  <2>3. play' = play /\ cleanup' = cleanup
    BY <1>4 DEF Finish
  <2> QED BY <1>1, <2>1, <2>2, <2>3, StillOwned DEF Carries
<1>5. CASE FetchOptions(c)
  <2>1. /\ \A d \in Calls \ {c} : call'[d] = call[d]
        /\ call[c].stage = "options" /\ call'[c].stage \notin Opening /\ call'[c].drop = {}
    BY <1>5, FetchStep
  <2>2. call[c].drop = {}
    BY <2>1, CallAt DEF Cleaning
  <2>3. play' = play /\ cleanup' = cleanup
    BY <1>5 DEF FetchOptions
  <2> QED BY <1>1, <2>1, <2>2, <2>3, StillOwned DEF Carries, Opening
<1>6. CASE PinOptions(c)
  <2>1. /\ \A d \in Calls \ {c} : call'[d] = call[d]
        /\ call[c].stage = "pin" /\ Keeps(call[c], call'[c])
        /\ call'[c].stage \in {"register", "finish"}
    BY <1>6, PinOptionsStep
  <2>3. play' = play /\ cleanup' = cleanup
    BY <1>6 DEF PinOptions
  <2> QED BY <1>1, <2>1, <2>3, StillOwned DEF Carries, Keeps
<1>7. CASE Register(c)
  <2>1. PICK p \in Plays : RegisterTurn(c, p)
    BY <1>7, RegisterStep
  <2>2. \A q \in Plays, m \in Media : play'[q].source[m].handle = play[q].source[m].handle
    <3>1. CASE play' = play
      BY <3>1
    <3>2. CASE /\ play[p].revision = 0 /\ \A q \in Plays \ {p} : play'[q] = play[q]
               /\ \A m \in Media : play'[p].source[m].handle = 0
      <4>1. play[p] = NewPlay
        BY <3>2 DEF EntryInv
      <4>2. \A m \in Media : play[p].source[m].handle = 0
        BY <4>1 DEF NewPlay, NoSource
      <4> QED BY <3>2, <4>2
    <3> QED BY <2>1, <3>1, <3>2 DEF RegisterTurn
  <2>3. /\ \A d \in Calls \ {c} : call'[d] = call[d]
        /\ call[c].stage = "register" /\ call'[c].stage \in Cleaning \cup {"prefer", "finish"}
        /\ call[c].drop = {} /\ call'[c].drop = {} /\ cleanup' = cleanup
    BY <2>1 DEF RegisterTurn
  <2> QED BY <1>1, <2>2, <2>3, StillOwned DEF Carries, Cleaning
<1>8. CASE Lookup(c) /\ ReserveTurn(c)
  <2>1. /\ \A d \in Calls \ {c} : call'[d] = call[d]
        /\ call[c].stage = "lookup" /\ call'[c].stage \in Cleaning \cup {"resolve"}
        /\ call[c].drop = {} /\ call'[c].drop = {}
        /\ cleanup' = [cleanup EXCEPT !.reserved = @ + 1] /\ PlaysKept
    BY <1>8 DEF ReserveTurn
  <2>2. cleanup'.pending = cleanup.pending
    BY <1>2, <2>1 DEF Cleanup
  <2> QED BY <1>1, <2>1, <2>2, StillOwned DEF Carries, Cleaning, PlaysKept
<1>9. CASE Resolve(c)
  <2>1. /\ OpenTurn(c) /\ call[c].handle = 0 /\ call'[c].handle = 0
    BY <1>9, ResolveStep
  <2>2. cleanup' = cleanup
    BY <1>9 DEF Resolve
  <2>3. \A h \in Handles : h # 0
    BY Numbered
  <2> QED BY <1>1, <2>1, <2>2, <2>3, StillOwned DEF Carries, OpenTurn, Tries
<1>10. CASE Bind(c)
  <2>1. /\ OpenTurn(c) /\ call[c].stage = "bind" /\ call'[c].stage = "install"
        /\ call'[c].handle = call[c].handle
    BY <1>10, BindStep
  <2>2. cleanup'.pending = cleanup.pending
    BY <1>2, <1>10 DEF Bind, Cleanup
  <2> QED BY <1>1, <2>1, <2>2, StillOwned DEF Carries, OpenTurn, Tries
<1> QED BY <1>3, <1>4, <1>5, <1>6, <1>7, <1>8, <1>9, <1>10

\* What removed entries hold passes to the call that removed them.
LEMMA DetachOwned ==
  ASSUME TypeInv, EntryInv, OwnerInv, NEW c \in Calls, Detach(c)
  PROVE  OwnerInv'
<1> DEFINE gone == call[c].stale
           D == UNION {HandlesOf(p) : p \in gone}
<1>1. /\ call[c].stage \in Cleaning /\ call'[c].stage \in Cleaning
      /\ call'[c].drop = call[c].drop \cup D
      /\ \A d \in Calls \ {c} : call'[d] = call[d]
      /\ \A p \in Plays \ gone : play'[p] = play[p]
      /\ \A p \in gone : p \in Plays /\ \A m \in Media : play'[p].source[m].handle = 0
  BY DetachStep
<1>2. row' = row /\ cleanup' = cleanup /\ lost' = lost
  BY DEF Detach
<1>3. \A h \in Handles : h # 0
  BY Numbered
<1>4. \A d \in Calls, h \in Handles : Carries(d, h)' <=> Carries(d, h)
  BY <1>1 DEF Carries, Cleaning
<1>5. ASSUME NEW h \in Handles, h \in D PROVE Owned(h)'
  <2>1. PICK p \in gone, m \in Media : Serves(p, m, h)
    BY <1>5 DEF HandlesOf, Serves
  <2>2. OnlyPlay(p, m, h) /\ row[h].at # "none"
    BY <1>1, <2>1, Sole DEF OwnerInv, Owned, Attended
  <2>3. \A d \in Calls : ~Carries(d, h)' /\ (h \in call'[d].drop <=> d = c)
    BY <1>1, <1>4, <1>5, <2>2 DEF OnlyPlay
  <2>4. \A q \in Plays, n \in Media : ~Serves(q, n, h)'
    <3>1. ASSUME NEW q \in Plays, NEW n \in Media, q \in gone PROVE ~Serves(q, n, h)'
      BY <1>1, <1>3, <3>1 DEF Serves
    <3>2. ASSUME NEW q \in Plays, NEW n \in Media, q \notin gone PROVE ~Serves(q, n, h)'
      BY <1>1, <2>1, <2>2, <3>2 DEF Serves, OnlyPlay
    <3> QED BY <3>1, <3>2
  <2>5. OnlyDrop(c, h)'
    BY <1>2, <2>2, <2>3, <2>4 DEF OnlyDrop, OnlyPlay, Queued
  <2> QED BY <1>2, <2>2, <2>5, SoleOwned
<1>6. ASSUME NEW h \in Handles, h \notin D PROVE Owned(h)'
  <2>1. \A p \in Plays, m \in Media : Serves(p, m, h)' <=> Serves(p, m, h)
    <3>1. ASSUME NEW q \in Plays, NEW n \in Media, q \in gone PROVE ~Serves(q, n, h)' /\ ~Serves(q, n, h)
      BY <1>1, <1>3, <1>6, <3>1 DEF Serves, HandlesOf
    <3>2. ASSUME NEW q \in Plays, NEW n \in Media, q \notin gone PROVE Serves(q, n, h)' <=> Serves(q, n, h)
      BY <1>1, <3>2 DEF Serves
    <3> QED BY <3>1, <3>2
  <2>2. \A d \in Calls : h \in call'[d].drop <=> h \in call[d].drop
    BY <1>1, <1>6
  <2>3. Owned(h)
    BY DEF OwnerInv, Owned
  <2>4. Queued(h)' <=> Queued(h)
    BY <1>2 DEF Queued
  <2> QED BY <1>2, <1>4, <2>1, <2>2, <2>3, <2>4, OwnedKept
<1> QED BY <1>5, <1>6 DEF OwnerInv, Owned

\* What the queue does when a call has deliveries to close.
LEMMA ClaimedCleanup ==
  ASSUME TypeInv, NEW drop \in SUBSET Handles, NEW force, cleanup' = Claimed(drop, force)
  PROVE  /\ \A h \in Handles : Queued(h)' <=> (h \in drop \/ Queued(h))
         /\ cleanup'.owned = cleanup.owned \cup drop /\ cleanup'.reserved = cleanup.reserved
         /\ cleanup'.retiring = cleanup.retiring /\ cleanup'.abandoned = cleanup.abandoned
         /\ cleanup'.over = cleanup.over
<1>1. cleanup \in Cleanup
  BY DEF TypeInv, RestTyped
<1> DEFINE Takes(h) == h \in drop \/ cleanup.pending[h] = "due" \/ (force /\ cleanup.pending[h] = "wait")
           pending == [h \in Handles |-> IF Takes(h) THEN "claimed" ELSE cleanup.pending[h]]
<1>2. cleanup' = [cleanup EXCEPT !.owned = cleanup.owned \cup drop, !.pending = pending]
  BY DEF Claimed
<1>3. \A h \in Handles : Takes(h) => h \in drop \/ cleanup.pending[h] # "none"
  OBVIOUS
<1>4. \A h \in drop : Takes(h)
  OBVIOUS
<1> HIDE DEF Takes
<1>5. \A h \in Handles : pending[h] # "none" <=> (h \in drop \/ cleanup.pending[h] # "none")
  BY <1>3, <1>4
<1> HIDE DEF pending
<1>6. /\ cleanup'.pending = pending
      /\ cleanup'.owned = cleanup.owned \cup drop /\ cleanup'.reserved = cleanup.reserved
      /\ cleanup'.retiring = cleanup.retiring /\ cleanup'.abandoned = cleanup.abandoned
      /\ cleanup'.over = cleanup.over
  BY <1>1, <1>2 DEF Cleanup
<1> QED BY <1>5, <1>6 DEF Queued

\* They go to the queue.
LEMMA CloseOwned ==
  ASSUME TypeInv, EntryInv, OwnerInv, NEW c \in Calls, Close(c)
  PROVE  OwnerInv'
<1>1. /\ call[c].stage = "close" /\ call'[c].stage \notin {"register", "start", "bind", "install"}
      /\ call'[c].drop = {} /\ \A d \in Calls \ {c} : call'[d] = call[d]
  BY CloseStep
<1>2. row' = row /\ play' = play /\ lost' = lost
  BY DEF Close
<1>3. \A d \in Calls, h \in Handles : Carries(d, h)' <=> Carries(d, h)
  BY <1>1 DEF Carries
<1>4. \A h \in Handles : Queued(h)' <=> (h \in call[c].drop \/ Queued(h))
  <2>1. call[c].drop \in SUBSET Handles
    BY DEF TypeInv, CallState
  <2> QED BY <2>1, ClaimedCleanup DEF Close
<1>5. \A p \in Plays, m \in Media, h \in Handles : Serves(p, m, h)' <=> Serves(p, m, h)
  BY <1>2 DEF Serves
<1>6. ASSUME NEW h \in Handles, h \in call[c].drop PROVE Owned(h)'
  <2>1. OnlyDrop(c, h) /\ row[h].at # "none"
    BY <1>6, Sole DEF OwnerInv, Owned, Attended
  <2>2. OnlyQueue(h)'
    BY <1>1, <1>3, <1>4, <1>5, <1>6, <2>1 DEF OnlyDrop, OnlyQueue
  <2> QED BY <1>2, <2>1, <2>2, SoleOwned
<1>7. ASSUME NEW h \in Handles, h \notin call[c].drop PROVE Owned(h)'
  <2>1. Owned(h) /\ (Queued(h)' <=> Queued(h))
    BY <1>4, <1>7 DEF OwnerInv, Owned
  <2>2. \A d \in Calls : h \in call'[d].drop <=> h \in call[d].drop
    BY <1>1, <1>7
  <2> QED BY <1>2, <1>3, <1>5, <2>1, <2>2, OwnedKept
<1> QED BY <1>6, <1>7 DEF OwnerInv, Owned

\* What a source opened that is retired goes to the call.
LEMMA ReboundOwned ==
  ASSUME TypeInv, EntryInv, OwnerInv, NEW c \in Calls, NEW p \in Plays, ReboundTurn(c, p),
         UNCHANGED <<row, cleanup, lost>>
  PROVE  OwnerInv'
<1>1. /\ call[c].stage = "reuse" /\ call'[c].stage \in Cleaning \cup {"prefer"}
      /\ \A d \in Calls \ {c} : call'[d] = call[d]
      /\ call[c].drop = {} /\ call'[c].drop = Retired(c, p)
      /\ \A q \in Plays \ {p} : play'[q] = play[q]
      /\ \A m \in Media :
           \/ play'[p].source[m].handle = 0 /\ m \notin Matched(c, p)
           \/ m \in Matched(c, p) /\ play'[p].source[m].handle = play[p].source[m].handle
  BY DEF ReboundTurn, NoSource
<1>2. \A d \in Calls, h \in Handles : Carries(d, h)' <=> Carries(d, h)
  BY <1>1 DEF Carries, Cleaning
<1>3. \A h \in Handles : h # 0
  BY Numbered
<1>4. \A h \in Handles : h \in Retired(c, p) <=> \E m \in Media \ Matched(c, p) : Serves(p, m, h)
  <2>1. \A m \in Media, h \in Handles : Serves(p, m, h) => Has(p, m)
    BY <1>3 DEF Serves, Has, EntryInv
  <2> QED BY <1>3, <2>1 DEF Retired, Serves, Bindings, Matched
<1>5. \A h \in Handles : Queued(h)' <=> Queued(h)
  BY DEF Queued
<1>6. ASSUME NEW h \in Handles, h \in Retired(c, p) PROVE Owned(h)'
  <2>1. PICK m \in Media \ Matched(c, p) : Serves(p, m, h)
    BY <1>4, <1>6
  <2>2. OnlyPlay(p, m, h) /\ row[h].at # "none"
    BY <2>1, Sole DEF OwnerInv, Owned, Attended
  <2>3. \A q \in Plays, n \in Media : ~Serves(q, n, h)'
    BY <1>1, <1>3, <2>1, <2>2 DEF Serves, OnlyPlay
  <2>4. OnlyDrop(c, h)'
    BY <1>1, <1>2, <1>5, <1>6, <2>2, <2>3 DEF OnlyDrop, OnlyPlay
  <2> QED BY <2>2, <2>4, SoleOwned
<1>7. ASSUME NEW h \in Handles, h \notin Retired(c, p) PROVE Owned(h)'
  <2>1. \A q \in Plays, m \in Media : Serves(q, m, h)' <=> Serves(q, m, h)
    BY <1>1, <1>3, <1>4, <1>7 DEF Serves
  <2>2. \A d \in Calls : h \in call'[d].drop <=> h \in call[d].drop
    BY <1>1, <1>7
  <2>3. Owned(h)
    BY DEF OwnerInv, Owned
  <2> QED BY <1>2, <1>5, <2>1, <2>2, <2>3, OwnedKept
<1> QED BY <1>6, <1>7 DEF OwnerInv, Owned

\* A new delivery belongs to the call that opened it.
LEMMA CreateOwned ==
  ASSUME TypeInv, EntryInv, OwnerInv, NEW c \in Calls, CreateSession(c)
  PROVE  OwnerInv'
<1>1. /\ OpenTurn(c) /\ call[c].stage = "create" /\ call[c].handle = 0
      /\ \/ row' = row /\ call'[c].stage = "bind" /\ call'[c].handle = 0
         \/ \E h \in Handles :
              /\ row[h].at = "none" /\ call'[c].stage = "start" /\ call'[c].handle = h
              /\ row' = [row EXCEPT ![h] = [at |-> "open", by |-> call[c].request.session, ref |-> call[c].input.ref,
                    capabilities |-> call[c].request.capabilities,
                    preference |-> call[c].request.preference, start |-> call[c].request.start]]
  BY CreateSessionStep
<1>2. cleanup' = cleanup /\ lost' = lost
  BY DEF CreateSession
<1>3. /\ \A d \in Calls \ {c} : call'[d] = call[d]
      /\ play' = play /\ call'[c].drop = {} /\ call[c].drop = {}
  BY <1>1 DEF OpenTurn, Tries
<1>4. \A h \in Handles : h # 0
  BY Numbered
<1>5. CASE row' = row /\ call'[c].stage = "bind" /\ call'[c].handle = 0
  BY <1>1, <1>2, <1>3, <1>4, <1>5, StillOwned DEF Carries
<1>6. ASSUME NEW g \in Handles, row[g].at = "none", call'[c].stage = "start", call'[c].handle = g,
             row' = [row EXCEPT ![g] = [at |-> "open", by |-> call[c].request.session, ref |-> call[c].input.ref,
                    capabilities |-> call[c].request.capabilities,
                    preference |-> call[c].request.preference, start |-> call[c].request.start]]
      PROVE  OwnerInv'
  <2>1. row'[g].at = "open" /\ \A h \in Handles \ {g} : row'[h] = row[h]
    BY <1>6 DEF TypeInv, RestTyped
  <2>2. NoOwner(g)
    BY <1>6, Sole DEF OwnerInv, Owned
  <2>3. \A p \in Plays, m \in Media, h \in Handles : Serves(p, m, h)' <=> Serves(p, m, h)
    BY <1>3 DEF Serves
  <2>4. OnlyCall(c, g)'
    BY <1>2, <1>3, <1>6, <2>2, <2>3 DEF NoOwner, OnlyCall, Carries, Queued
  <2>5. Owned(g)'
    BY <2>1, <2>4, SoleOwned
  <2>6. ASSUME NEW h \in Handles \ {g} PROVE Owned(h)'
    <3>1. \A d \in Calls : Carries(d, h)' <=> Carries(d, h)
      BY <1>1, <1>3, <1>4, <1>6, <2>6 DEF Carries
    <3>2. Owned(h) /\ row'[h] = row[h] /\ (Queued(h)' <=> Queued(h))
      BY <1>2, <2>1 DEF OwnerInv, Owned, Queued
    <3> QED BY <1>2, <1>3, <2>3, <3>1, <3>2, OwnedKept
  <2> QED BY <2>5, <2>6 DEF OwnerInv, Owned
<1> QED BY <1>1, <1>5, <1>6

\* A delivery that does not start is closed, or given up.
LEMMA StartOwned ==
  ASSUME TypeInv, EntryInv, OwnerInv, NEW c \in Calls, StartSession(c)
  PROVE  OwnerInv'
<1> DEFINE g == call[c].handle
<1>1. /\ OpenTurn(c) /\ call[c].stage = "start" /\ call'[c].stage = "bind"
      /\ \/ row' = row /\ lost' = lost /\ call'[c].handle = g
         \/ row' = [row EXCEPT ![g].at = "closed"] /\ lost' = lost /\ call'[c].handle = 0
         \/ row' = row /\ lost' = lost \cup {g} /\ call'[c].handle = 0
  BY StartSessionStep
<1>2. cleanup' = cleanup
  BY DEF StartSession
<1>3. /\ \A d \in Calls \ {c} : call'[d] = call[d]
      /\ play' = play /\ call'[c].drop = {} /\ call[c].drop = {}
  BY <1>1 DEF OpenTurn, Tries
<1>4. (\A h \in Handles : h # 0) /\ g \in Handles
  BY <1>1, OpeningAt, Numbered DEF Opening
<1>5. CASE row' = row /\ lost' = lost /\ call'[c].handle = g
  BY <1>1, <1>2, <1>3, <1>5, StillOwned DEF Carries
<1>6. CASE /\ call'[c].handle = 0
           /\ \/ row' = [row EXCEPT ![g].at = "closed"] /\ lost' = lost
              \/ row' = row /\ lost' = lost \cup {g}
  <2>1. /\ row'[g].at # "open" \/ g \in lost'
        /\ row[g].at # "none" => row'[g].at # "none"
        /\ \A h \in Handles \ {g} : row'[h] = row[h]
        /\ lost \subseteq lost'
    BY <1>4, <1>6 DEF TypeInv, RestTyped, Row
  <2>2. \A p \in Plays, m \in Media, h \in Handles : Serves(p, m, h)' <=> Serves(p, m, h)
    BY <1>3 DEF Serves
  <2>3. OnlyCall(c, g) /\ row[g].at # "none"
    <3>1. Carries(c, g) /\ Owned(g)
      BY <1>1, <1>4 DEF Carries, OwnerInv, Owned
    <3> HIDE DEF g
    <3> QED BY <1>4, <3>1, Sole DEF Attended
  <2>4. \A d \in Calls, h \in Handles : Carries(d, h)' <=> (Carries(d, h) /\ (d # c \/ h # g))
    BY <1>1, <1>3, <1>4, <1>6 DEF Carries
  <2>5. ASSUME NEW h \in Handles, h = g PROVE Owned(h)'
    <3>1. NoOwner(h)'
      BY <1>2, <1>3, <2>2, <2>3, <2>4, <2>5 DEF NoOwner, OnlyCall, Queued
    <3> QED BY <2>1, <2>3, <2>5, <3>1, SoleOwned
  <2>6. ASSUME NEW h \in Handles, h # g PROVE Owned(h)'
    <3>1. Owned(h) /\ row'[h] = row[h] /\ (Queued(h)' <=> Queued(h))
          /\ (h \in lost' <=> h \in lost) /\ \A d \in Calls : Carries(d, h)' <=> Carries(d, h)
      BY <1>2, <1>6, <2>1, <2>4, <2>6 DEF OwnerInv, Owned, Queued
    <3>2. \A d \in Calls : h \in call'[d].drop <=> h \in call[d].drop
      BY <1>3
    <3> QED BY <2>1, <2>2, <3>1, <3>2, OwnedKept
  <2> QED BY <2>5, <2>6 DEF OwnerInv, Owned
<1> QED BY <1>1, <1>5, <1>6

\* The delivery goes to its binding, and the one before it to the call; or it stays with the call.
LEMMA InstallOwned ==
  ASSUME TypeInv, EntryInv, OwnerInv, NEW c \in Calls, NEW next, InstallTurn(c, next)
  PROVE  OwnerInv'
<1> DEFINE g == call[c].handle  p == call[c].play  m == call[c].media
<1>1. /\ call[c].stage = "install" /\ UNCHANGED <<row, cleanup, lost>>
      /\ call'[c].drop = next.drop /\ call'[c].stage \in Settling \cup {"close"}
  BY DEF InstallTurn, InstallsTo
<1>2. call[c].drop = {} /\ g \in 0..MaxRows /\ \A h \in Handles : h # 0
  BY <1>1, OpeningAt, Numbered DEF Opening
<1>3. \A d \in Calls \ {c} : /\ call'[d].drop = call[d].drop
                             /\ \A h \in Handles : Carries(d, h)' <=> Carries(d, h)
  BY DEF InstallTurn, InstallsTo, Carries
<1>4. \A h \in Handles : ~Carries(c, h)' /\ (Carries(c, h) <=> h = g)
  BY <1>1 DEF Carries, Settling
<1>5. \A h \in Handles : Queued(h)' <=> Queued(h)
  BY <1>1 DEF Queued
<1>6. ASSUME NEW h \in Handles PROVE Owned(h)
  BY DEF OwnerInv, Owned
<1>7. CASE NotInstalled(c, next)
  <2>1. next.drop = {g} \ {0} /\ \A q \in Plays, n \in Media, h \in Handles : Serves(q, n, h)' <=> Serves(q, n, h)
    BY <1>7 DEF NotInstalled, PlaysKept, Serves
  <2>2. \A h \in Handles : h \in call'[c].drop <=> h = g
    BY <1>1, <1>2, <2>1
  <2>3. ASSUME NEW h \in Handles, h = g PROVE Owned(h)'
    <3>1. OnlyCall(c, h) /\ row[h].at # "none"
      BY <1>4, <1>6, <2>3, Sole DEF Attended
    <3>2. OnlyDrop(c, h)'
      BY <1>3, <1>4, <1>5, <2>1, <2>2, <2>3, <3>1 DEF OnlyCall, OnlyDrop
    <3> QED BY <1>1, <3>1, <3>2, SoleOwned
  <2>4. ASSUME NEW h \in Handles, h # g PROVE Owned(h)'
    <3>1. \A d \in Calls : (Carries(d, h)' <=> Carries(d, h)) /\ (h \in call'[d].drop <=> h \in call[d].drop)
      BY <1>2, <1>3, <1>4, <2>2, <2>4
    <3> QED BY <1>1, <1>5, <1>6, <2>1, <3>1, OwnedKept
  <2> QED BY <2>3, <2>4 DEF OwnerInv, Owned
<1>8. CASE Installed(c, next)
  <2> DEFINE old == play[p].source[m].handle
  <2>1. /\ p \in Plays /\ m \in Media /\ next.drop = {old} \ {0}
        /\ \A q \in Plays \ {p} : play'[q] = play[q]
        /\ \A n \in Media \ {m} : play'[p].source[n] = play[p].source[n]
        /\ play'[p].source[m].handle = g
    BY <1>8, Zenon DEF Installed
  <2>2. \A h \in Handles : h \in call'[c].drop <=> h = old
    BY <1>1, <1>2, <2>1
  <2>3. \A q \in Plays, n \in Media, h \in Handles :
          Serves(q, n, h)' <=> IF q = p /\ n = m THEN h = g ELSE Serves(q, n, h)
    BY <2>1 DEF Serves
  <2>4. \A h \in Handles : Serves(p, m, h) <=> h = old
    BY DEF Serves
  <2>5. ASSUME NEW h \in Handles, h = g PROVE Owned(h)'
    <3>1. OnlyCall(c, h) /\ row[h].at # "none"
      BY <1>4, <1>6, <2>5, Sole DEF Attended
    <3>2. h # old
      BY <2>1, <2>4, <3>1 DEF OnlyCall
    <3>3. \A d \in Calls : ~Carries(d, h)' /\ h \notin call'[d].drop
      BY <1>3, <1>4, <2>2, <3>1, <3>2 DEF OnlyCall
    <3>4. ASSUME NEW q \in Plays, NEW n \in Media, q = p, n = m PROVE OnlyPlay(q, n, h)'
      BY <1>5, <2>3, <2>5, <3>1, <3>3, <3>4 DEF OnlyCall, OnlyPlay
    <3> HIDE DEF p, m
    <3>5. PICK q \in Plays, n \in Media : q = p /\ n = m
      BY <2>1
    <3> QED BY <1>1, <3>1, <3>4, <3>5, SoleOwned
  <2>6. ASSUME NEW h \in Handles, h = old PROVE Owned(h)'
    <3>1. OnlyPlay(p, m, h) /\ row[h].at # "none"
      <4>1. Serves(p, m, h)
        BY <2>4, <2>6
      <4> HIDE DEF p, m
      <4> QED BY <1>6, <2>1, <4>1, Sole DEF Attended
    <3>2. h # g
      BY <1>4, <3>1 DEF OnlyPlay
    <3>3. \A d \in Calls : ~Carries(d, h)' /\ (h \in call'[d].drop <=> d = c)
      BY <1>3, <1>4, <2>2, <2>6, <3>1, <3>2, Zenon DEF OnlyPlay
    <3>4. ASSUME NEW q \in Plays, NEW n \in Media PROVE ~Serves(q, n, h)'
      BY <2>3, <3>1, <3>2 DEF OnlyPlay
    <3>5. OnlyDrop(c, h)'
      BY <1>5, <3>1, <3>3, <3>4 DEF OnlyPlay, OnlyDrop
    <3> QED BY <1>1, <3>1, <3>5, SoleOwned
  <2>7. ASSUME NEW h \in Handles, h # g, h # old PROVE Owned(h)'
    <3>1. \A d \in Calls : (Carries(d, h)' <=> Carries(d, h)) /\ (h \in call'[d].drop <=> h \in call[d].drop)
      BY <1>2, <1>3, <1>4, <2>2, <2>7
    <3>2. \A q \in Plays, n \in Media : Serves(q, n, h)' <=> Serves(q, n, h)
      BY <2>3, <2>4, <2>7
    <3> QED BY <1>1, <1>5, <1>6, <3>1, <3>2, OwnedKept
  <2> QED BY <2>5, <2>6, <2>7 DEF OwnerInv, Owned
<1> QED BY <1>7, <1>8 DEF InstallTurn

\* Every move of a call leaves each open delivery to one owner.
LEMMA MovesOwned ==
  ASSUME TypeInv, EntryInv, OwnerInv, NEW c \in Calls, Moves(c)
  PROVE  OwnerInv'
<1>1. CASE Detach(c)
  BY <1>1, DetachOwned
<1>2. CASE Close(c)
  BY <1>2, CloseOwned
<1>3. CASE Release(c) \/ Finish(c) \/ FetchOptions(c) \/ PinOptions(c) \/ Register(c)
             \/ (Lookup(c) /\ ReserveTurn(c)) \/ Resolve(c) \/ Bind(c)
  BY <1>3, StillMoves
<1>4. CASE Reuse(c) /\ \E p \in Plays : ReboundTurn(c, p)
  <2>1. PICK p \in Plays : ReboundTurn(c, p)
    BY <1>4
  <2>2. UNCHANGED <<row, cleanup, lost>>
    BY <1>4 DEF Reuse
  <2> QED BY <2>1, <2>2, ReboundOwned
<1>5. CASE CreateSession(c)
  BY <1>5, CreateOwned
<1>6. CASE StartSession(c)
  BY <1>6, StartOwned
<1>7. CASE Install(c)
  <2>1. PICK next : InstallTurn(c, next)
    BY <1>7, InstallStep
  <2> QED BY <2>1, InstallOwned
<1> QED BY <1>1, <1>2, <1>3, <1>4, <1>5, <1>6, <1>7 DEF Moves

\* What the first theorems rest on.
CoreInv == TypeInv /\ EntryInv /\ EventInv /\ OwnerInv

\* The invariant is inductive, and every step is calm or a move of one call.
LEMMA CoreNext ==
  ASSUME CoreInv, [Next]_vars
  PROVE  CoreInv' /\ (Calm \/ \E c \in Calls : Moves(c))
<1>1. TypeInv' /\ EntryInv' /\ EventInv' /\ (Calm \/ \E c \in Calls : Moves(c))
  BY NextTurns DEF CoreInv
<1>2. OwnerInv'
  BY <1>1, CalmOwned, MovesOwned DEF CoreInv
<1> QED BY <1>1, <1>2 DEF CoreInv

-----------------------------------------------------------------------------
(* The initial states. *)

\* Nothing is known of any play session, and every call is idle.
LEMMA InitFields ==
  ASSUME Init
  PROVE  /\ \A p \in Plays : play[p] = NewPlay /\ entries[p] = 0
         /\ play = [p \in Plays |-> NewPlay] /\ entries = [p \in Plays |-> 0]
         /\ call \in [Calls -> CallState]
         /\ \A c \in Calls : /\ Tidy(call[c]) /\ call[c].stage = "idle" /\ Phase(call[c]) = "idle"
                             /\ call[c].options = <<>> /\ call[c].stale = {} /\ call[c].unpin = {}
                             /\ call[c].drop = {} /\ call[c].old = {}
         /\ Chances
<1>1. PICK program \in Programs : /\ call = [c \in Calls |-> Idle(program.calls[c])]
                                  /\ may = program.may
  BY DEF Init
<1>2. \A c \in Calls : program.calls[c] \in Seq(Request)
  BY PlaySessionsAssumption
<1>3. ASSUME NEW c \in Calls
      PROVE  /\ call[c] \in CallState /\ Tidy(call[c]) /\ call[c].stage = "idle" /\ Phase(call[c]) = "idle"
             /\ call[c].options = <<>> /\ call[c].stale = {} /\ call[c].unpin = {}
             /\ call[c].drop = {} /\ call[c].old = {}
  <2>1. call[c] = Idle(program.calls[c])
    BY <1>1
  <2>2. Idle(program.calls[c]) \in CallState /\ Tidy(Idle(program.calls[c])) /\ Phase(Idle(program.calls[c])) = "idle"
    BY <1>2, IdleTyped
  <2> DEFINE idle == Idle(program.calls[c])
  <2>3. /\ idle.stage = "idle" /\ idle.options = <<>> /\ idle.stale = {} /\ idle.unpin = {}
        /\ idle.drop = {} /\ idle.old = {}
    BY DEF Idle
  <2> HIDE DEF idle
  <2>4. call[c] = idle /\ idle \in CallState /\ Tidy(idle) /\ Phase(idle) = "idle"
    BY <2>1, <2>2 DEF idle
  <2> QED BY <2>3, <2>4
<1>4. call \in [Calls -> CallState]
  BY <1>1, <1>3
<1>5. Chances
  BY <1>1, PlaySessionsAssumption DEF Chances, Chance
<1>6. play = [p \in Plays |-> NewPlay] /\ entries = [p \in Plays |-> 0]
  BY DEF Init
<1> QED BY <1>3, <1>4, <1>5, <1>6

\* A play session that is not used yet has the type of one.
LEMMA NewPlayTyped == NewPlay \in Play
<1>1. (CHOOSE s \in Sessions : TRUE) \in Sessions /\ (CHOOSE x \in Capabilities : TRUE) \in Capabilities
  BY PlaySessionsAssumption
<1>2. NoSource \in Source
  BY PlaySessionsAssumption, Bounded DEF NoSource, Source, Nobody
<1>3. [m \in Media |-> NoSource] \in [Media -> Source]
  BY <1>2
<1> QED BY <1>1, <1>3 DEF NewPlay, Play, Nobody

\* The initial states have their types.
LEMMA InitTyped ==
  ASSUME Init
  PROVE  TypeInv
<1>1. refs \in [Refs -> Reference]
  <2>1. (CHOOSE s \in Sessions : TRUE) \in Sessions
    BY PlaySessionsAssumption
  <2> QED BY <2>1 DEF Init, InitRefs, Reference
<1>2. row \in [Handles -> Row]
  <2>1. NewPlay.capabilities \in Capabilities /\ NewPlay.session \in Sessions /\ 0 \in 0..MaxRefs
    BY NewPlayTyped, Bounded DEF Play
  <2> QED BY <2>1 DEF Init, Row
<1>3. cleanup \in Cleanup
  BY DEF Init, Cleanup
<1>4. revoked \subseteq Sessions /\ loggedOut \subseteq Sessions /\ lost \subseteq Handles
  BY DEF Init
<1>5. play \in [Plays -> Play]
  BY InitFields, NewPlayTyped
<1>6. Seated(entries)
  <2>1. 0 \in 0..MaxPlays
    BY Bounded
  <2> QED BY <2>1, InitFields DEF Seated
<1> QED BY <1>1, <1>2, <1>3, <1>4, <1>5, <1>6, InitFields DEF TypeInv, RestTyped

\* They satisfy the invariant.
LEMMA InitCore ==
  ASSUME Init
  PROVE  CoreInv
<1>1. TypeInv
  BY InitTyped
<1>2. Listed = {} /\ \A p \in Plays : play[p] = NewPlay
  BY InitFields DEF Listed
<1>3. EntryInv
  <2>1. NewPlay.revision = 0 /\ \A m \in Media : NewPlay.source[m] = NoSource
    BY DEF NewPlay
  <2>2. "idle" \notin Opening \cup Handling
    BY DEF Opening, Handling
  <2> QED BY <1>2, <2>1, <2>2, InitFields DEF EntryInv, NoSource
<1>4. EventInv
  <2>1. stopped = {}
    BY DEF Init
  <2>2. "idle" \notin Handling
    BY DEF Handling
  <2> QED BY <2>1, <2>2, InitFields DEF EventInv, Handling
<1>5. OwnerInv
  <2>1. \A p \in Plays, m \in Media : play[p].source[m].handle = 0
    <3>1. \A m \in Media : NewPlay.source[m] = NoSource
      BY DEF NewPlay
    <3>2. NoSource.handle = 0
      BY DEF NoSource
    <3> QED BY <1>2, <3>1, <3>2
  <2>2. \A h \in Handles : cleanup.pending[h] = "none" /\ row[h].at = "none" /\ h # 0
    BY Numbered DEF Init
  <2> QED BY <2>1, <2>2, InitFields DEF OwnerInv, OneOwner, Attended, Carries, Serves, Queued
<1> QED BY <1>1, <1>3, <1>4, <1>5 DEF CoreInv

-----------------------------------------------------------------------------
(* Types, and events. *)

\* Stopped events are those of bindings.
StoppedTyped == stopped \subseteq Plays \X Media

\* Only an event that is stored adds one.
LEMMA StoppedKept ==
  ASSUME [Next]_vars
  PROVE  stopped' = stopped \/ \E c \in Calls : Apply(c)
<1>1. ASSUME NEW c \in Calls, Step(c) PROVE stopped' = stopped \/ Apply(c)
  <2>1. CASE \/ Detach(c) \/ Release(c) \/ Close(c) \/ Finish(c) \/ ReuseCached(c) \/ FetchOptions(c)
             \/ Reuse(c) \/ Missed(c) \/ PinOptions(c) \/ Register(c) \/ Prefer(c)
    BY <2>1 DEF Detach, Release, Close, Finish, ReuseCached, FetchOptions, Reuse, Missed, PinOptions,
                Register, Prefer
  <2>2. CASE \/ Lookup(c) \/ Resolve(c) \/ CreateSession(c) \/ StartSession(c) \/ Bind(c) \/ Install(c)
             \/ Serve(c) \/ Abandon(c)
    BY <2>2 DEF Lookup, Resolve, CreateSession, StartSession, Bind, Install, Serve, Abandon
  <2>3. CASE \/ ClaimEvent(c) \/ Lease(c) \/ Recheck(c) \/ EndStopped(c) \/ ReleaseLease(c)
             \/ Logout(c) \/ CloseSession(c) \/ Reap(c) \/ ResetCache(c) \/ Retire(c) \/ CloseAll(c)
             \/ Drain(c)
    BY <2>3 DEF ClaimEvent, Lease, Recheck, EndStopped, ReleaseLease, Logout, CloseSession, Reap,
                ResetCache, Retire, CloseAll, Drain
  <2> QED BY <1>1, <2>1, <2>2, <2>3 DEF Step
<1>2. ASSUME NEW h \in Handles, CloseDelivery(h) \/ RetryDue(h) \/ Lapse(h) \/ RowIdle(h)
      PROVE  stopped' = stopped
  BY <1>2 DEF CloseDelivery, RetryDue, Lapse, RowIdle
<1>3. CASE \/ ClaimDue \/ \E c \in Calls : Begin(c) \/ GiveUp(c)
           \/ \E p \in Plays : Expire(p)
           \/ \E r \in Refs : ReferenceExpires(r)
  BY <1>3 DEF ClaimDue, Begin, GiveUp, Expire, ReferenceExpires
<1>4. CASE UNCHANGED vars
  BY <1>4 DEF vars
<1> QED BY <1>1, <1>2, <1>3, <1>4 DEF Next, Progress

\* It is stored for the binding it was resolved to.
LEMMA StoppedNext ==
  ASSUME CoreInv, StoppedTyped, [Next]_vars
  PROVE  StoppedTyped'
<1>1. ASSUME NEW c \in Calls, Apply(c) PROVE StoppedTyped'
  <2>1. Phase(call[c]) = "apply" /\ "apply" \in Handling
    BY <1>1 DEF Apply, Phase, Cleaning, Handling
  <2>2. call[c].play \in Plays
    BY <2>1 DEF CoreInv, TypeInv, Tidy, Fits
  <2>3. call[c].media \in Media
    BY <2>1 DEF CoreInv, EventInv
  <2> QED BY <1>1, <2>2, <2>3 DEF Apply, StoppedTyped
<1> QED BY <1>1, StoppedKept DEF StoppedTyped

\* The strengthening implies what the run checks.
LEMMA CoreTypes ==
  ASSUME CoreInv
  PROVE  (StoppedTyped => TypeOK) /\ StopIsFinal
<1>1. StoppedTyped => TypeOK
  BY DEF CoreInv, TypeInv, RestTyped, Chances, Seated, Cleanup, TypeOK, StoppedTyped, Listed
<1>2. StopIsFinal
  <2>1. \A c \in Calls : call[c].stage = "apply" => Phase(call[c]) = "apply"
    BY DEF Phase, Cleaning
  <2> QED BY <2>1 DEF CoreInv, EventInv, StopIsFinal
<1> QED BY <1>1, <1>2

\* What the first theorems rest on holds in every reachable state.
THEOREM CoreInvariant == Spec => []CoreInv
<1>1. Init => CoreInv
  BY InitCore
<1>2. CoreInv /\ [Next]_vars => CoreInv'
  BY CoreNext
<1> QED BY <1>1, <1>2, PTL DEF Spec

\* Every variable keeps its type, those of the requests and of the stored events included, and
\* the reservations that bindCleanupHandle takes back never become negative, not even after the
\* registry gave them up.
THEOREM PlayTypeCorrect == Spec => []TypeOK
<1>1. Init => StoppedTyped
  BY DEF Init, StoppedTyped
<1>2. CoreInv /\ StoppedTyped /\ [Next]_vars => StoppedTyped'
  BY StoppedNext
<1>3. CoreInv /\ StoppedTyped => TypeOK
  BY CoreTypes
<1> QED BY <1>1, <1>2, <1>3, CoreInvariant, PTL DEF Spec

\* No event is applied to a binding after its Stopped event was stored, whatever the order in
\* which the handlers get the lease (claimPlaybackEvent and handlePlaybackEvent).
THEOREM StopFinal == Spec => []StopIsFinal
<1>1. CoreInv => StopIsFinal
  BY CoreTypes
<1> QED BY <1>1, CoreInvariant, PTL

-----------------------------------------------------------------------------
(* What a delivery was opened for. *)

Carrying(r) == r.stage \in {"start", "bind", "install"} /\ r.handle # 0

\* The parts of the invariant: for a binding, for an opening, and for what was opened.
Matches(p, m) ==
  LET s == play[p].source[m] IN
  s.handle # 0 /\ s.revision = play[p].revision =>
    OpenedFor(s.handle, s.ref, s.start, play[p].capabilities, play[p].preference)
Informed(c) ==
  Phase(call[c]) \in Opening =>
    /\ call[c].revision <= play[call[c].play].revision
    /\ play[call[c].play].revision = call[c].revision =>
         /\ play[call[c].play].capabilities = call[c].request.capabilities
         /\ play[call[c].play].preference = call[c].request.preference
Fitting(c) ==
  Carrying(call[c]) =>
    OpenedFor(call[c].handle, call[c].input.ref, call[c].request.start,
              call[c].request.capabilities, call[c].request.preference)

\* A step that outdates what was opened for a play session, and one that does not.
Newer(p) == play'[p].revision > play[p].revision
Same(p) ==
  /\ play'[p].revision = play[p].revision
  /\ play'[p].capabilities = play[p].capabilities /\ play'[p].preference = play[p].preference
SameSource(p, m) ==
  /\ play'[p].source[m].handle = play[p].source[m].handle
  /\ play'[p].source[m].revision = play[p].source[m].revision
  /\ play'[p].source[m].ref = play[p].source[m].ref
  /\ play'[p].source[m].start = play[p].source[m].start
Lasts(p, m) ==
  \/ play'[p].source[m].handle = 0
  \/ Newer(p) /\ play'[p].source[m].revision = play[p].source[m].revision
  \/ Same(p) /\ SameSource(p, m)
SameRow(h) ==
  /\ row'[h].ref = row[h].ref /\ row'[h].start = row[h].start
  /\ row'[h].capabilities = row[h].capabilities /\ row'[h].preference = row[h].preference

\* A call that opens what it opened before, or nothing any more.
Asks(c) ==
  Phase(call'[c]) \in Opening =>
    /\ Phase(call[c]) \in Opening /\ call'[c].play = call[c].play
    /\ call'[c].revision = call[c].revision /\ call'[c].request = call[c].request
Brings(c) ==
  Carrying(call'[c]) =>
    /\ Carrying(call[c]) /\ call'[c].handle = call[c].handle
    /\ call'[c].input = call[c].input /\ call'[c].request = call[c].request

\* The invariant, part by part.
LEMMA DeliveryParts ==
  DeliveryInv <=> /\ \A p \in Plays, m \in Media : Matches(p, m)
                  /\ \A c \in Calls : Informed(c) /\ Fitting(c)
BY DEF DeliveryInv, Matches, Informed, Fitting, Carrying

\* A step keeps all parts where it changes none of what they are about.
LEMMA DeliveryKept ==
  ASSUME TypeInv, EntryInv, DeliveryInv, TypeInv', EntryInv',
         \A p \in Plays : Newer(p) \/ Same(p),
         \A p \in Plays, m \in Media : Lasts(p, m) \/ Matches(p, m)',
         \A h \in Handles : Attended(h) => SameRow(h),
         \A c \in Calls : Asks(c) \/ Informed(c)',
         \A c \in Calls : Brings(c) \/ Fitting(c)'
  PROVE  DeliveryInv'
<1>1. ASSUME NEW p \in Plays, NEW m \in Media, Lasts(p, m) PROVE Matches(p, m)'
  <2>1. /\ Matches(p, m) /\ play[p] \in Play /\ play'[p] \in Play
        /\ play[p].source[m] \in Source /\ play'[p].source[m] \in Source
    BY DeliveryParts DEF TypeInv, Play
  <2>2. CASE play'[p].source[m].handle = 0
    BY <2>2 DEF Matches
  <2>3. CASE Newer(p) /\ play'[p].source[m].revision = play[p].source[m].revision
    <3>1. play[p].source[m].revision <= play[p].revision
      BY DEF EntryInv
    <3>2. /\ play[p].source[m].revision \in Nat /\ play[p].revision \in Nat
          /\ play'[p].revision \in Nat /\ play'[p].revision > play[p].revision
      BY <2>1, <2>3 DEF Play, Source, Newer
    <3>3. play'[p].source[m].revision # play'[p].revision
      BY <2>3, <3>1, <3>2
    <3> QED BY <3>3 DEF Matches
  <2>4. CASE Same(p) /\ SameSource(p, m) /\ play[p].source[m].handle # 0
    <3>1. play[p].source[m].handle \in Handles
      BY <2>1, <2>4, Numbered DEF Source
    <3>2. SameRow(play[p].source[m].handle)
      BY <3>1 DEF Attended, Serves
    <3> QED BY <2>1, <2>4, <3>2, Zenon DEF Matches, OpenedFor, Same, SameSource, SameRow
  <2> QED BY <1>1, <2>2, <2>3, <2>4 DEF Lasts, SameSource
<1>2. ASSUME NEW c \in Calls, Asks(c), Phase(call'[c]) \in Opening PROVE Informed(c)'
  <2>1. /\ Phase(call[c]) \in Opening /\ call'[c].play = call[c].play
        /\ call'[c].revision = call[c].revision /\ call'[c].request = call[c].request
    BY <1>2 DEF Asks
  <2>2. /\ Informed(c) /\ call[c] \in CallState /\ call[c].play \in Plays
    BY <2>1, DeliveryParts DEF TypeInv, Tidy, Fits
  <2>3. /\ play[call[c].play] \in Play /\ play'[call[c].play] \in Play
        /\ Newer(call[c].play) \/ Same(call[c].play)
    BY <2>2 DEF TypeInv
  <2>4. /\ play[call[c].play].revision \in Nat /\ play'[call[c].play].revision \in Nat
        /\ call[c].revision \in Nat
    BY <2>2, <2>3 DEF Play, CallState
  <2>5. CASE Newer(call[c].play)
    <3>1. play'[call[c].play].revision > call[c].revision
      BY <2>1, <2>2, <2>4, <2>5 DEF Newer, Informed
    <3> QED BY <2>1, <2>4, <3>1 DEF Informed
  <2>6. CASE Same(call[c].play)
    BY <2>1, <2>2, <2>6 DEF Same, Informed
  <2> QED BY <2>3, <2>5, <2>6
<1>3. ASSUME NEW c \in Calls, Phase(call'[c]) \notin Opening PROVE Informed(c)'
  BY <1>3 DEF Informed
<1>4. ASSUME NEW c \in Calls, Brings(c) PROVE Fitting(c)'
  <2>1. CASE Carrying(call'[c])
    <3>1. /\ Carrying(call[c]) /\ call'[c].handle = call[c].handle
          /\ call'[c].input = call[c].input /\ call'[c].request = call[c].request
      BY <1>4, <2>1 DEF Brings
    <3>2. call[c].handle \in Handles
      BY <3>1, Numbered DEF TypeInv, CallState, Carrying
    <3>3. SameRow(call[c].handle)
      BY <3>1, <3>2 DEF Attended, Carries, Carrying
    <3>4. Fitting(c)
      BY DeliveryParts
    <3> QED BY <3>1, <3>3, <3>4 DEF Fitting, OpenedFor, SameRow
  <2>2. CASE ~Carrying(call'[c])
    BY <2>2 DEF Fitting
  <2> QED BY <2>1, <2>2
<1>5. \A p \in Plays, m \in Media : Matches(p, m)'
  BY <1>1
<1>6. \A c \in Calls : Informed(c)' /\ Fitting(c)'
  BY <1>2, <1>3, <1>4
<1>7. (\A p \in Plays, m \in Media : Matches(p, m)') /\ (\A c \in Calls : Informed(c)' /\ Fitting(c)')
  BY <1>5, <1>6
<1> QED BY <1>7 DEF DeliveryInv, Matches, Informed, Fitting, Carrying

\* Nothing that is open is outdated by a calm step without a new revision.
LEMMA CalmDeliveries ==
  ASSUME TypeInv, EntryInv, DeliveryInv, Calm
  PROVE  DeliveryInv'
<1>1. TypeInv' /\ EntryInv' /\ Quiet /\ PlaysKept /\ Lasting /\ RowsKept
  BY DEF Calm, QuietStep
<1>2. \A p \in Plays : Newer(p) \/ Same(p)
  BY <1>1 DEF Lasting, Newer, Same
<1>3. \A p \in Plays, m \in Media : Lasts(p, m)
  BY <1>1 DEF Lasting, PlaysKept, Newer, Same, SameSource, Lasts
<1>4. \A h \in Handles : SameRow(h)
  BY <1>1 DEF RowsKept, SameRow
<1>5. ASSUME NEW c \in Calls PROVE Asks(c) /\ Brings(c)
  <2>1. Passive(call[c], call'[c])
    BY <1>1 DEF Quiet
  <2>2. CASE Phase(call[c]) \in Opening
    BY <2>1, <2>2 DEF Passive, Asks, Brings
  <2>3. CASE Phase(call[c]) \notin Opening
    <3>1. Phase(call'[c]) \notin Opening
      BY <2>1, <2>3 DEF Passive
    <3>2. ~Carrying(call'[c])
      BY <3>1 DEF Carrying, Phase, Opening, Cleaning
    <3> QED BY <3>1, <3>2 DEF Asks, Brings
  <2> QED BY <2>2, <2>3
<1> QED BY <1>1, <1>2, <1>3, <1>4, <1>5, DeliveryKept

\* A move of one call, which leaves what others opened.
LEMMA TurnDeliveries ==
  ASSUME TypeInv, EntryInv, DeliveryInv, TypeInv', EntryInv', NEW c \in Calls,
         \A d \in Calls \ {c} : call'[d] = call[d],
         \A p \in Plays : Newer(p) \/ Same(p), \A p \in Plays, m \in Media : Lasts(p, m),
         row' = row, Asks(c) \/ Informed(c)', Brings(c) \/ Fitting(c)'
  PROVE  DeliveryInv'
<1>1. ASSUME NEW d \in Calls, d # c PROVE Asks(d) /\ Brings(d)
  BY <1>1 DEF Asks, Brings
<1>2. \A h \in Handles : SameRow(h)
  BY DEF SameRow
<1> QED BY <1>1, <1>2, DeliveryKept

\* A call that neither opens anything nor goes on to.
LEMMA NotOpening ==
  ASSUME NEW c \in Calls, Phase(call'[c]) \notin Opening
  PROVE  Asks(c) /\ Brings(c)
<1>1. ~Carrying(call'[c])
  BY DEF Carrying, Phase, Opening, Cleaning
<1> QED BY <1>1 DEF Asks, Brings

\* What is removed from an entry is not outdated.
LEMMA StillPlays ==
  ASSUME play' = play
  PROVE  (\A p \in Plays : Same(p)) /\ (\A p \in Plays, m \in Media : Lasts(p, m))
BY DEF Same, SameSource, Lasts

\* What a call removed, and what a client asked, concerns no delivery that is served.
LEMMA TidyingDeliveries ==
  ASSUME TypeInv, EntryInv, DeliveryInv, NEW c \in Calls,
         Release(c) \/ Close(c) \/ Finish(c) \/ FetchOptions(c) \/ PinOptions(c)
  PROVE  DeliveryInv'
<1>1. play' = play /\ row' = row
  BY DEF Release, Close, Finish, FetchOptions, PinOptions
<1>2. CASE Release(c)
  <2>1. /\ TypeInv' /\ EntryInv' /\ Cleaned(call[c], call'[c]) /\ call'[c].stage \in Cleaning
        /\ \A d \in Calls \ {c} : call'[d] = call[d]
    BY <1>2, ReleaseStep
  <2>2. Asks(c) /\ Brings(c)
    BY <2>1 DEF Cleaned, Asks, Brings, Carrying, Cleaning
  <2> QED BY <1>1, <2>1, <2>2, StillPlays, TurnDeliveries
<1>3. CASE Close(c)
  <2>1. /\ TypeInv' /\ EntryInv' /\ Cleaned(call[c], call'[c])
        /\ call'[c].stage \notin {"register", "start", "bind", "install"}
        /\ \A d \in Calls \ {c} : call'[d] = call[d]
    BY <1>3, CloseStep
  <2>2. Asks(c) /\ Brings(c)
    BY <2>1 DEF Cleaned, Asks, Brings, Carrying
  <2> QED BY <1>1, <2>1, <2>2, StillPlays, TurnDeliveries
<1>4. CASE Finish(c)
  <2>1. /\ TypeInv' /\ EntryInv' /\ call'[c] = Ended(c) /\ Phase(Ended(c)) = "idle"
        /\ \A d \in Calls \ {c} : call'[d] = call[d]
    BY <1>4, FinishStep, EndedTyped
  <2>2. Asks(c) /\ Brings(c)
    BY <2>1, NotOpening DEF Opening
  <2> QED BY <1>1, <2>1, <2>2, StillPlays, TurnDeliveries
<1>5. CASE FetchOptions(c)
  <2>1. /\ TypeInv' /\ EntryInv' /\ call'[c].stage \notin Cleaning \cup Opening \cup Handling \cup {"register"}
        /\ \A d \in Calls \ {c} : call'[d] = call[d]
    BY <1>5, FetchStep
  <2>2. Asks(c) /\ Brings(c)
    BY <2>1, NotOpening DEF Phase
  <2> QED BY <1>1, <2>1, <2>2, StillPlays, TurnDeliveries
<1>6. CASE PinOptions(c)
  <2>1. /\ TypeInv' /\ EntryInv' /\ call'[c].stage \in {"register", "finish"}
        /\ \A d \in Calls \ {c} : call'[d] = call[d]
    BY <1>6, PinOptionsStep
  <2>2. Asks(c) /\ Brings(c)
    BY <2>1, NotOpening DEF Phase, Cleaning, Opening
  <2> QED BY <1>1, <2>1, <2>2, StillPlays, TurnDeliveries
<1> QED BY <1>2, <1>3, <1>4, <1>5, <1>6

\* Detaching takes the deliveries from the play sessions that were removed.
LEMMA DetachDeliveries ==
  ASSUME TypeInv, EntryInv, DeliveryInv, NEW c \in Calls, Detach(c)
  PROVE  DeliveryInv'
<1>1. row' = row
  BY DEF Detach
<1>2. /\ TypeInv' /\ EntryInv' /\ Cleaned(call[c], call'[c]) /\ call'[c].stage \in Cleaning
      /\ \A d \in Calls \ {c} : call'[d] = call[d]
      /\ \A p \in Plays \ call[c].stale : play'[p] = play[p]
      /\ \A p \in call[c].stale :
           /\ play'[p].revision = play[p].revision
           /\ play'[p].capabilities = play[p].capabilities /\ play'[p].preference = play[p].preference
           /\ \A m \in Media : play'[p].source[m].handle = 0
  BY DetachStep, Zenon
<1>3. Asks(c) /\ Brings(c)
  BY <1>2 DEF Cleaned, Asks, Brings, Carrying, Cleaning
<1>4. \A p \in Plays : Same(p)
  BY <1>2 DEF Same
<1>5. \A p \in Plays, m \in Media : Lasts(p, m)
  BY <1>2 DEF Same, SameSource, Lasts
<1> QED BY <1>1, <1>2, <1>3, <1>4, <1>5, TurnDeliveries

\* Other references outdate what was opened.
LEMMA ReboundDeliveries ==
  ASSUME TypeInv, EntryInv, DeliveryInv, TypeInv', EntryInv', NEW c \in Calls, NEW p \in Plays,
         ReboundTurn(c, p), row' = row
  PROVE  DeliveryInv'
<1>1. /\ \A d \in Calls \ {c} : call'[d] = call[d]
      /\ Phase(call'[c]) = "prefer"
      /\ \A q \in Plays \ {p} : play'[q] = play[q]
      /\ play'[p].revision = play[p].revision + 1
      /\ \A m \in Media : \/ play'[p].source[m] = NoSource
                          \/ play'[p].source[m].revision = play[p].source[m].revision
  BY DEF ReboundTurn
<1>2. Asks(c) /\ Brings(c)
  BY <1>1, NotOpening DEF Opening
<1>3. Newer(p)
  <2>1. play[p].revision \in Nat
    BY DEF TypeInv, Play
  <2> QED BY <1>1, <2>1 DEF Newer
<1>4. \A q \in Plays : Newer(q) \/ Same(q)
  BY <1>1, <1>3 DEF Same
<1>5. \A q \in Plays, m \in Media : Lasts(q, m)
  <2>1. NoSource.handle = 0
    BY DEF NoSource
  <2> QED BY <1>1, <1>3, <2>1 DEF Same, SameSource, Lasts
<1> QED BY <1>1, <1>2, <1>4, <1>5, TurnDeliveries

\* A new play session has no delivery.
LEMMA RegisterDeliveries ==
  ASSUME TypeInv, EntryInv, DeliveryInv, TypeInv', EntryInv', NEW c \in Calls, NEW p \in Plays,
         RegisterTurn(c, p)
  PROVE  DeliveryInv'
<1>1. /\ row' = row /\ \A d \in Calls \ {c} : call'[d] = call[d]
      /\ Phase(call'[c]) \in {"finish", "prefer"}
  BY DEF RegisterTurn
<1>2. Asks(c) /\ Brings(c)
  BY <1>1, NotOpening DEF Opening
<1>3. CASE play' = play
  BY <1>1, <1>2, <1>3, StillPlays, TurnDeliveries
<1>4. CASE play' # play
  <2>1. /\ play[p].revision = 0 /\ play'[p].revision = 1
        /\ \A q \in Plays \ {p} : play'[q] = play[q]
        /\ \A m \in Media : play'[p].source[m].handle = 0
    BY <1>4 DEF RegisterTurn
  <2>2. \A q \in Plays : Newer(q) \/ Same(q)
    BY <2>1 DEF Newer, Same
  <2>3. \A q \in Plays, m \in Media : Lasts(q, m)
    BY <2>1 DEF Same, SameSource, Lasts
  <2> QED BY <1>1, <1>2, <2>2, <2>3, TurnDeliveries
<1> QED BY <1>3, <1>4

\* Who begins to open knows the binding as it is.
LEMMA ReserveDeliveries ==
  ASSUME TypeInv, EntryInv, DeliveryInv, TypeInv', EntryInv', NEW c \in Calls, ReserveTurn(c)
  PROVE  DeliveryInv'
<1> DEFINE p == call[c].play
<1>1. /\ row' = row /\ \A d \in Calls \ {c} : call'[d] = call[d]
      /\ p \in Plays /\ PlaysKept
      /\ \A q \in Plays : /\ play'[q].revision = play[q].revision
                          /\ play'[q].preference = play[q].preference
                          /\ play'[q].capabilities = play[q].capabilities
                          /\ \A n \in Media : play'[q].source[n].start = play[q].source[n].start
      /\ call'[c].stage \in Cleaning \cup {"resolve"}
      /\ call'[c].play = p /\ call'[c].revision = play[p].revision
      /\ call'[c].request.capabilities = play[p].capabilities
      /\ call'[c].request.preference = play[p].preference
  BY DEF ReserveTurn, Listed
<1>2. play[p].revision \in Nat
  BY <1>1 DEF TypeInv, Play
<1> HIDE DEF p
<1>3. Informed(c)'
  BY <1>1, <1>2 DEF Informed
<1>4. Brings(c)
  BY <1>1 DEF Brings, Carrying, Cleaning
<1>5. \A q \in Plays : Same(q)
  BY <1>1 DEF Same
<1>6. \A q \in Plays, m \in Media : Lasts(q, m)
  BY <1>1 DEF PlaysKept, Same, SameSource, Lasts
<1> QED BY <1>1, <1>3, <1>4, <1>5, <1>6, TurnDeliveries

\* An opening goes on for what it began with.
LEMMA OpenAsks ==
  ASSUME TypeInv, NEW c \in Calls, OpenTurn(c)
  PROVE  Asks(c) /\ play' = play /\ \A d \in Calls \ {c} : call'[d] = call[d]
<1>1. Phase(call[c]) \in Opening
  BY DEF OpenTurn, Phase, Opening, Cleaning
<1> QED BY <1>1 DEF OpenTurn, Tries, Asks

\* Resolving and binding bring no delivery.
LEMMA ResolveDeliveries ==
  ASSUME TypeInv, EntryInv, DeliveryInv, NEW c \in Calls, Resolve(c) \/ Bind(c)
  PROVE  DeliveryInv'
<1>1. row' = row
  BY DEF Resolve, Bind
<1>2. CASE Resolve(c)
  <2>1. TypeInv' /\ EntryInv' /\ OpenTurn(c) /\ call'[c].handle = 0
    BY <1>2, ResolveStep
  <2>2. Brings(c)
    BY <2>1 DEF Brings, Carrying
  <2> QED BY <1>1, <2>1, <2>2, OpenAsks, StillPlays, TurnDeliveries
<1>3. CASE Bind(c)
  <2>1. /\ TypeInv' /\ EntryInv' /\ OpenTurn(c) /\ call[c].stage = "bind"
        /\ call'[c].handle = call[c].handle
    BY <1>3, BindStep
  <2>2. Brings(c)
    BY <2>1 DEF OpenTurn, Tries, Brings, Carrying
  <2> QED BY <1>1, <2>1, <2>2, OpenAsks, StillPlays, TurnDeliveries
<1> QED BY <1>2, <1>3

\* A new row says what the call asked for; nobody had it before.
LEMMA CreateDeliveries ==
  ASSUME TypeInv, EntryInv, OwnerInv, DeliveryInv, NEW c \in Calls, CreateSession(c)
  PROVE  DeliveryInv'
<1>1. /\ TypeInv' /\ EntryInv' /\ OpenTurn(c)
      /\ \/ row' = row /\ call'[c].handle = 0
         \/ \E h \in Handles :
              /\ row[h].at = "none" /\ call'[c].handle = h
              /\ row' = [row EXCEPT ![h] = [at |-> "open", by |-> call[c].request.session, ref |-> call[c].input.ref,
                    capabilities |-> call[c].request.capabilities,
                    preference |-> call[c].request.preference, start |-> call[c].request.start]]
  BY CreateSessionStep
<1>2. CASE row' = row /\ call'[c].handle = 0
  <2>1. Brings(c)
    BY <1>2 DEF Brings, Carrying
  <2> QED BY <1>1, <1>2, <2>1, OpenAsks, StillPlays, TurnDeliveries
<1>3. ASSUME NEW h \in Handles, row[h].at = "none", call'[c].handle = h,
             row' = [row EXCEPT ![h] = [at |-> "open", by |-> call[c].request.session, ref |-> call[c].input.ref,
                    capabilities |-> call[c].request.capabilities,
                    preference |-> call[c].request.preference, start |-> call[c].request.start]]
      PROVE  DeliveryInv'
  <2>1. /\ row'[h].ref = call[c].input.ref /\ row'[h].start = call[c].request.start
        /\ row'[h].capabilities = call[c].request.capabilities
        /\ row'[h].preference = call[c].request.preference
        /\ \A g \in Handles \ {h} : row'[g] = row[g]
    BY <1>3 DEF TypeInv, RestTyped
  <2>2. call'[c].input = call[c].input /\ call'[c].request = call[c].request
    BY <1>1 DEF OpenTurn, Tries
  <2>3. Fitting(c)'
    BY <1>3, <2>1, <2>2 DEF Fitting, OpenedFor
  <2>4. ~Attended(h)
    BY <1>3 DEF OwnerInv
  <2>5. \A g \in Handles : Attended(g) => SameRow(g)
    BY <2>1, <2>4 DEF SameRow
  <2>6. \A d \in Calls \ {c} : Asks(d) /\ Brings(d)
    BY <1>1, OpenAsks DEF Asks, Brings
  <2> QED BY <1>1, <2>3, <2>5, <2>6, OpenAsks, StillPlays, DeliveryKept
<1> QED BY <1>1, <1>2, <1>3

\* Starting it changes at most that it is open.
LEMMA StartDeliveries ==
  ASSUME TypeInv, EntryInv, DeliveryInv, NEW c \in Calls, StartSession(c)
  PROVE  DeliveryInv'
<1>1. /\ TypeInv' /\ EntryInv' /\ OpenTurn(c) /\ call[c].stage = "start"
      /\ row' = row \/ row' = [row EXCEPT ![call[c].handle].at = "closed"]
      /\ call'[c].handle \in {0, call[c].handle}
  BY StartSessionStep
<1>2. \A h \in Handles : SameRow(h)
  BY <1>1 DEF TypeInv, RestTyped, Row, SameRow
<1>3. Brings(c)
  BY <1>1 DEF OpenTurn, Tries, Brings, Carrying
<1>4. \A d \in Calls \ {c} : Asks(d) /\ Brings(d)
  BY <1>1, OpenAsks DEF Asks, Brings
<1> QED BY <1>1, <1>2, <1>3, <1>4, OpenAsks, StillPlays, DeliveryKept

\* What is installed was opened for the binding as it still is.
LEMMA InstallDeliveries ==
  ASSUME TypeInv, EntryInv, DeliveryInv, TypeInv', EntryInv', NEW c \in Calls, NEW next,
         InstallTurn(c, next)
  PROVE  DeliveryInv'
<1> DEFINE p == call[c].play
           m == call[c].media
<1>1. /\ call[c].stage = "install" /\ row' = row /\ InstallsTo(c, next) /\ next.stage \in Settling
      /\ Installed(c, next) \/ NotInstalled(c, next)
  BY DEF InstallTurn
<1>2. \A d \in Calls : Asks(d) /\ Brings(d)
  <2>1. ASSUME NEW d \in Calls, d # c PROVE Asks(d) /\ Brings(d)
    <3>1. CASE call'[d] = call[d]
      BY <3>1 DEF Asks, Brings
    <3>2. CASE Phase(call'[d]) = "lookup"
      BY <3>2, NotOpening DEF Opening
    <3> QED BY <1>1, <2>1, <3>1, <3>2 DEF InstallsTo
  <2>2. Phase(call'[c]) \notin Opening
    BY <1>1 DEF InstallsTo, Settling, Opening
  <2> QED BY <2>1, <2>2, NotOpening
<1>3. \A h \in Handles : SameRow(h)
  BY <1>1 DEF SameRow
<1>4. CASE NotInstalled(c, next)
  <2>1. \A q \in Plays : Same(q)
    BY <1>4 DEF NotInstalled, Alike, Same
  <2>2. \A q \in Plays, n \in Media : Lasts(q, n)
    BY <1>4, <2>1 DEF NotInstalled, PlaysKept, SameSource, Lasts
  <2> QED BY <1>2, <1>3, <2>1, <2>2, DeliveryKept
<1>5. CASE Installed(c, next)
  <2>1. /\ p \in Plays /\ m \in Media
        /\ \A q \in Plays \ {p} : play'[q] = play[q]
        /\ Alike(p)
        /\ \A n \in Media \ {m} : play'[p].source[n] = play[p].source[n]
        /\ play'[p].source[m].handle = call[c].handle
        /\ play'[p].source[m].start = call[c].request.start
        /\ play'[p].source[m].ref = call[c].input.ref
        /\ play[p].revision = call[c].revision
    BY <1>5, Zenon DEF Installed, BindingCurrent, SourceAt
  <2>2. Informed(c) /\ Fitting(c)
    BY DeliveryParts
  <2>3. Phase(call[c]) \in Opening /\ (call[c].handle # 0 => Carrying(call[c]))
    BY <1>1 DEF Phase, Opening, Cleaning, Carrying
  <2>4. play[p].capabilities = call[c].request.capabilities /\ play[p].preference = call[c].request.preference
    BY <2>1, <2>2, <2>3 DEF Informed
  <2>5. call[c].handle # 0 =>
          OpenedFor(call[c].handle, call[c].input.ref, call[c].request.start,
                    call[c].request.capabilities, call[c].request.preference)
    BY <2>2, <2>3 DEF Fitting
  <2> HIDE DEF p, m
  <2>6. ASSUME NEW q \in Plays, NEW n \in Media, q = p, n = m PROVE Matches(q, n)'
    <3>1. play'[q].source[n].handle # 0 =>
            OpenedFor(play'[q].source[n].handle, play'[q].source[n].ref, play'[q].source[n].start,
                      play'[q].capabilities, play'[q].preference)
      BY <2>1, <2>4, <2>5, <2>6 DEF Alike
    <3> QED BY <1>1, <3>1 DEF Matches, OpenedFor
  <2>7. \A q \in Plays : Same(q)
    BY <2>1 DEF Alike, Same
  <2>8. ASSUME NEW q \in Plays, NEW n \in Media PROVE Lasts(q, n) \/ Matches(q, n)'
    <3>1. CASE q = p /\ n = m
      BY <2>6, <3>1
    <3>2. CASE ~(q = p /\ n = m)
      BY <2>1, <2>7, <3>2 DEF SameSource, Lasts
    <3> QED BY <3>1, <3>2
  <2> QED BY <1>2, <1>3, <2>7, <2>8, DeliveryKept
<1> QED BY <1>1, <1>4, <1>5

\* Every move of a call.
LEMMA MovesDeliveries ==
  ASSUME TypeInv, EntryInv, EventInv, OwnerInv, DeliveryInv, NEW c \in Calls, Moves(c)
  PROVE  DeliveryInv'
<1>1. TypeInv' /\ EntryInv'
  BY MovesTyped
<1>2. CASE Release(c) \/ Close(c) \/ Finish(c) \/ FetchOptions(c) \/ PinOptions(c)
  BY <1>2, TidyingDeliveries
<1>3. CASE Detach(c)
  BY <1>3, DetachDeliveries
<1>4. CASE Reuse(c) /\ \E p \in Plays : ReboundTurn(c, p)
  <2>1. row' = row
    BY <1>4 DEF Reuse
  <2> QED BY <1>1, <1>4, <2>1, ReboundDeliveries
<1>5. CASE Register(c)
  BY <1>1, <1>5, RegisterStep, RegisterDeliveries
<1>6. CASE Lookup(c) /\ ReserveTurn(c)
  BY <1>1, <1>6, ReserveDeliveries
<1>7. CASE Resolve(c) \/ Bind(c)
  BY <1>7, ResolveDeliveries
<1>8. CASE CreateSession(c)
  BY <1>8, CreateDeliveries
<1>9. CASE StartSession(c)
  BY <1>9, StartDeliveries
<1>10. CASE Install(c)
  <2>1. PICK next : InstallTurn(c, next)
    BY <1>10, InstallStep
  <2> QED BY <1>1, <2>1, InstallDeliveries
<1> QED BY <1>2, <1>3, <1>4, <1>5, <1>6, <1>7, <1>8, <1>9, <1>10 DEF Moves

\* Nothing was opened at first.
LEMMA InitDeliveries ==
  ASSUME Init
  PROVE  DeliveryInv
<1>1. \A p \in Plays, m \in Media : play[p].source[m].handle = 0
  <2>1. \A m \in Media : NewPlay.source[m] = NoSource
    BY DEF NewPlay
  <2>2. NoSource.handle = 0
    BY DEF NoSource
  <2> QED BY <2>1, <2>2, InitFields
<1>2. \A c \in Calls : Phase(call[c]) = "idle" /\ call[c].stage = "idle"
  BY InitFields
<1> QED BY <1>1, <1>2 DEF DeliveryInv, Opening

\* The invariant says of a listed binding what it would serve.
LEMMA DeliveriesCurrent ==
  ASSUME TypeInv, DeliveryInv
  PROVE  CurrentDelivery
<1>1. \A p \in Listed : p \in Plays
  BY DEF Listed
<1> QED BY <1>1 DEF DeliveryInv, CurrentDelivery, OpenedFor

\* What is installed, or about to be, was opened for what it says.
THEOREM DeliveryCurrent == Spec => []CurrentDelivery
<1>1. Init => CoreInv /\ DeliveryInv
  BY InitCore, InitDeliveries
<1>2. CoreInv /\ DeliveryInv /\ [Next]_vars => CoreInv' /\ DeliveryInv'
  <2>1. ASSUME CoreInv, DeliveryInv, [Next]_vars PROVE DeliveryInv'
    BY <2>1, CoreNext, CalmDeliveries, MovesDeliveries DEF CoreInv
  <2> QED BY <2>1, CoreNext
<1>3. CoreInv /\ DeliveryInv => CurrentDelivery
  BY DeliveriesCurrent DEF CoreInv
<1> QED BY <1>1, <1>2, <1>3, PTL DEF Spec

-----------------------------------------------------------------------------
(* What the registry owns. *)

Reserved == {"resolve", "create", "start", "bind"}

\* The sets that are counted are finite.
LEMMA BudgetFinite ==
  ASSUME TypeInv
  PROVE  /\ IsFiniteSet(Reserving) /\ IsFiniteSet(cleanup.owned)
         /\ Cardinality(Reserving) \in Nat /\ Cardinality(cleanup.owned) \in Nat
         /\ cleanup.reserved \in Nat /\ cleanup.owned \subseteq Handles /\ HandleLimit \in Nat \ {0}
         /\ cleanup.retiring \in BOOLEAN /\ cleanup.abandoned \in BOOLEAN /\ cleanup.over \in BOOLEAN
<1>1. /\ cleanup.reserved \in Nat /\ cleanup.owned \subseteq Handles
      /\ cleanup.retiring \in BOOLEAN /\ cleanup.abandoned \in BOOLEAN /\ cleanup.over \in BOOLEAN
  BY DEF TypeInv, RestTyped, Cleanup
<1>2. Reserving \in SUBSET Calls /\ IsFiniteSet(Calls)
  BY PlaySessionsAssumption DEF Reserving
<1>3. IsFiniteSet(Reserving) /\ IsFiniteSet(cleanup.owned)
  BY <1>1, <1>2, Bounded, FS_Subset
<1> QED BY <1>1, <1>3, Bounded, FS_CardinalityType

\* A step that adds nothing to what is counted, and reports what it gives up.
LEMMA BudgetKept ==
  ASSUME TypeInv, BudgetInv, TypeInv',
         cleanup.retiring => cleanup'.retiring,
         cleanup'.over => cleanup.over \/ \E c \in Calls : Phase(call[c]) \in Leaving,
         \A c \in Calls : Phase(call'[c]) \in Leaving => Phase(call[c]) \in Leaving \/ cleanup'.retiring,
         ~cleanup'.abandoned =>
           /\ ~cleanup.abandoned /\ cleanup'.reserved = cleanup.reserved
           /\ cleanup'.owned \subseteq cleanup.owned
           /\ cleanup'.over => cleanup.over \/ (cleanup.owned = {} /\ cleanup.reserved = 0)
           /\ Reserving' = Reserving
           /\ \A h \in Handles : Known(h)' => Known(h) /\ (h \in cleanup.owned => h \in cleanup'.owned)
  PROVE  BudgetInv'
<1>1. cleanup'.over => cleanup'.retiring
  BY DEF BudgetInv
<1>2. \A c \in Calls : Phase(call'[c]) \in Leaving => cleanup'.retiring
  BY DEF BudgetInv
<1>3. ASSUME ~cleanup'.abandoned
      PROVE  /\ cleanup'.reserved = Cardinality(Reserving')
             /\ \A h \in Handles : Known(h)' => h \in cleanup'.owned
             /\ Cardinality(cleanup'.owned) + cleanup'.reserved <= HandleLimit
             /\ cleanup'.over => cleanup'.owned = {} /\ cleanup'.reserved = 0
  <2>1. /\ ~cleanup.abandoned /\ cleanup'.reserved = cleanup.reserved
        /\ cleanup'.owned \subseteq cleanup.owned
        /\ cleanup'.over => cleanup.over \/ (cleanup.owned = {} /\ cleanup.reserved = 0)
        /\ Reserving' = Reserving
        /\ \A h \in Handles : Known(h)' => Known(h) /\ (h \in cleanup.owned => h \in cleanup'.owned)
    BY <1>3
  <2>2. /\ cleanup.reserved = Cardinality(Reserving)
        /\ \A h \in Handles : Known(h) => h \in cleanup.owned
        /\ Cardinality(cleanup.owned) + cleanup.reserved <= HandleLimit
        /\ cleanup.over => cleanup.owned = {} /\ cleanup.reserved = 0
    BY <2>1 DEF BudgetInv
  <2>3. /\ Cardinality(cleanup'.owned) \in Nat /\ Cardinality(cleanup.owned) \in Nat
        /\ Cardinality(cleanup'.owned) <= Cardinality(cleanup.owned)
    BY <2>1, BudgetFinite, FS_Subset, FS_CardinalityType
  <2>4. Cardinality(cleanup'.owned) + cleanup'.reserved <= HandleLimit
    BY <2>1, <2>2, <2>3, BudgetFinite
  <2> QED BY <2>1, <2>2, <2>4
<1> QED BY <1>1, <1>2, <1>3 DEF BudgetInv

\* Calm steps and the workers: a delivery leaves the registry when it is closed or given up.
LEMMA CalmBudget ==
  ASSUME TypeInv, EntryInv, OwnerInv, BudgetInv, Calm
  PROVE  BudgetInv'
<1>1. TypeInv' /\ Quiet /\ QueueKept
  BY DEF Calm, QuietStep
<1>2. \A c \in Calls : Passive(call[c], call'[c])
  BY <1>1 DEF Quiet
<1>3. Reserving' = Reserving
  <2>1. ASSUME NEW c \in Calls PROVE c \in Reserving' <=> c \in Reserving
    <3>1. CASE Phase(call[c]) \in Opening
      BY <1>2, <3>1 DEF Passive, Reserving
    <3>2. CASE Phase(call[c]) \notin Opening
      BY <1>2, <3>2 DEF Passive, Reserving, Opening
    <3> QED BY <3>1, <3>2
  <2> QED BY <2>1 DEF Reserving
<1>4. ASSUME NEW h \in Handles
      PROVE  /\ Known(h)' => Known(h)
             /\ Known(h)' /\ Queued(h) => Queued(h)'
  <2>1. /\ \A c \in Calls : /\ Carries(c, h)' <=> Carries(c, h)
                            /\ call'[c].drop = call[c].drop
        /\ \A p \in Plays, m \in Media : Serves(p, m, h)' <=> Serves(p, m, h)
        /\ Queued(h)' => Queued(h)
    BY <1>1, CalmOwners DEF QueueKept
  <2>2. \A c \in Calls : Carries(c, h)' /\ call'[c].stage = "install" => call[c].stage = "install"
    <3>1. ASSUME NEW c \in Calls, call'[c].stage = "install" PROVE call[c].stage = "install"
      BY <1>2, <3>1 DEF Passive, Phase, Opening, Cleaning
    <3> QED BY <3>1
  <2>3. Known(h)' => Known(h)
    BY <2>1, <2>2 DEF Known
  <2>4. Queued(h) /\ Known(h)' => Queued(h)'
    BY <2>1 DEF OwnerInv, OneOwner, Known
  <2> QED BY <2>3, <2>4
<1>5. \A h \in cleanup.owned \ cleanup'.owned : ~cleanup'.abandoned => Queued(h) /\ ~Queued(h)'
  BY <1>1 DEF QueueKept
<1>6. \A c \in Calls : Phase(call'[c]) \in Leaving => Phase(call[c]) \in Leaving \/ cleanup'.retiring
  BY <1>2 DEF Passive
<1>7. /\ cleanup.retiring => cleanup'.retiring
      /\ cleanup'.over => cleanup.over \/ \E c \in Calls : Phase(call[c]) \in Leaving
      /\ ~cleanup'.abandoned =>
           /\ ~cleanup.abandoned /\ cleanup'.reserved = cleanup.reserved
           /\ cleanup'.owned \subseteq cleanup.owned
           /\ cleanup'.over => cleanup.over \/ (cleanup.owned = {} /\ cleanup.reserved = 0)
  BY <1>1 DEF QueueKept
<1>8. ASSUME ~cleanup'.abandoned, NEW h \in Handles, Known(h)'
      PROVE  Known(h) /\ (h \in cleanup.owned => h \in cleanup'.owned)
  BY <1>4, <1>5, <1>8
<1> QED BY <1>1, <1>3, <1>6, <1>7, <1>8, BudgetKept

\* A move of one call that leaves the queue alone.
LEMMA TurnBudget ==
  ASSUME TypeInv, BudgetInv, TypeInv', cleanup' = cleanup, NEW c \in Calls,
         \A d \in Calls \ {c} : call'[d] = call[d],
         Phase(call'[c]) \in Reserved <=> Phase(call[c]) \in Reserved,
         Phase(call'[c]) \in Leaving => Phase(call[c]) \in Leaving,
         \A h \in Handles : (Carries(c, h)' /\ call'[c].stage = "install") \/ h \in call'[c].drop => Known(h),
         \A p \in Plays, m \in Media, h \in Handles : Serves(p, m, h)' => Known(h)
  PROVE  BudgetInv'
<1>1. Reserving' = Reserving
  BY DEF Reserving, Reserved
<1>2. ASSUME NEW h \in Handles, Known(h)' PROVE Known(h)
  <2>1. ASSUME NEW d \in Calls, d # c,
               (Carries(d, h)' /\ call'[d].stage = "install") \/ h \in call'[d].drop
        PROVE  Known(h)
    BY <2>1 DEF Known, Carries
  <2>2. Queued(h)' => Known(h)
    BY DEF Known, Queued
  <2> QED BY <1>2, <2>1, <2>2 DEF Known
<1>3. \A d \in Calls : Phase(call'[d]) \in Leaving => Phase(call[d]) \in Leaving
  OBVIOUS
<1> QED BY <1>1, <1>2, <1>3, BudgetKept

\* Calls that hand on what they have.
LEMMA TidyingBudget ==
  ASSUME TypeInv, EntryInv, BudgetInv, NEW c \in Calls,
         Detach(c) \/ Release(c) \/ Finish(c) \/ FetchOptions(c) \/ PinOptions(c)
  PROVE  BudgetInv'
<1>1. cleanup' = cleanup
  BY DEF Detach, Release, Finish, FetchOptions, PinOptions
<1>2. CASE Detach(c)
  <2>1. /\ TypeInv' /\ Cleaned(call[c], call'[c]) /\ call'[c].stage \in Cleaning
        /\ call'[c].drop = call[c].drop \cup UNION {HandlesOf(p) : p \in call[c].stale}
        /\ \A d \in Calls \ {c} : call'[d] = call[d]
        /\ \A p \in Plays \ call[c].stale : play'[p] = play[p]
        /\ \A p \in call[c].stale : p \in Plays /\ \A m \in Media : play'[p].source[m].handle = 0
    BY <1>2, DetachStep
  <2>2. ASSUME NEW h \in Handles, h \in call'[c].drop PROVE Known(h)
    <3>1. CASE h \in call[c].drop
      BY <3>1 DEF Known
    <3>2. ASSUME NEW p \in call[c].stale, h \in HandlesOf(p) PROVE Known(h)
      BY <2>1, <3>2 DEF HandlesOf, Known, Serves
    <3> QED BY <2>1, <2>2, <3>1, <3>2
  <2>3. ASSUME NEW p \in Plays, NEW m \in Media, NEW h \in Handles, Serves(p, m, h)' PROVE Known(h)
    BY <2>1, <2>3, Numbered DEF Serves, Known
  <2>4. call'[c].stage # "install" /\ Phase(call'[c]) = Phase(call[c])
    BY <2>1 DEF Cleaning, Cleaned
  <2> QED BY <1>1, <2>1, <2>2, <2>3, <2>4, TurnBudget
<1>3. ASSUME play' = play
      PROVE  \A p \in Plays, m \in Media, h \in Handles : Serves(p, m, h)' => Known(h)
  BY <1>3 DEF Serves, Known
<1>4. CASE Release(c)
  <2>1. /\ TypeInv' /\ Cleaned(call[c], call'[c]) /\ call'[c].stage \in Cleaning
        /\ call'[c].drop = call[c].drop
        /\ \A d \in Calls \ {c} : call'[d] = call[d]
    BY <1>4, ReleaseStep
  <2>2. play' = play
    BY <1>4 DEF Release
  <2>3. call'[c].stage # "install" /\ Phase(call'[c]) = Phase(call[c])
    BY <2>1 DEF Cleaning, Cleaned
  <2>4. \A h \in Handles : h \in call'[c].drop => Known(h)
    BY <2>1 DEF Known
  <2> QED BY <1>1, <1>3, <2>1, <2>2, <2>3, <2>4, TurnBudget
<1>5. ASSUME \A d \in Calls \ {c} : call'[d] = call[d], TypeInv', play' = play,
             call[c].stage \in {"finish", "options", "pin"}, call'[c].drop = {},
             call'[c].stage \in {"idle", "pin", "reuse", "register", "finish"}
      PROVE  BudgetInv'
  <2>1. /\ Phase(call[c]) \notin Reserved /\ Phase(call'[c]) \notin Reserved
        /\ Phase(call'[c]) \notin Leaving /\ call'[c].stage # "install"
    BY <1>5 DEF Phase, Cleaning, Reserved, Leaving
  <2> QED BY <1>1, <1>3, <1>5, <2>1, TurnBudget
<1>6. CASE Finish(c)
  <2>1. play' = play
    BY <1>6 DEF Finish
  <2> QED BY <1>5, <1>6, <2>1, FinishStep, EndedTyped
<1>7. CASE FetchOptions(c)
  <2>1. play' = play
    BY <1>7 DEF FetchOptions
  <2>2. call'[c].stage \in {"idle", "pin", "reuse"}
    <3>1. call \in [Calls -> CallState] /\ call[c] \in CallState
      BY DEF TypeInv
    <3>2. CASE Goes(c, Ended(c))
      BY <3>1, <3>2, EndedTyped DEF Goes
    <3>3. ASSUME NEW options, Goes(c, [At(c, IF call[c].media = 0 THEN "pin" ELSE "reuse") EXCEPT !.options = options])
          PROVE  call'[c].stage \in {"idle", "pin", "reuse"}
      BY <3>1, <3>3 DEF Goes, At, CallState
    <3> QED BY <1>7, <3>2, <3>3 DEF FetchOptions
  <2> QED BY <1>5, <1>7, <2>1, <2>2, FetchStep
<1>8. CASE PinOptions(c)
  <2>1. play' = play
    BY <1>8 DEF PinOptions
  <2> QED BY <1>5, <1>8, <2>1, PinOptionsStep DEF Keeps
<1> QED BY <1>2, <1>4, <1>6, <1>7, <1>8

\* What a call has to close becomes the queue's, which owned it already.
LEMMA CloseBudget ==
  ASSUME TypeInv, EntryInv, BudgetInv, NEW c \in Calls, Close(c)
  PROVE  BudgetInv'
<1>1. /\ TypeInv' /\ Cleaned(call[c], call'[c])
      /\ call'[c].stage \notin {"register", "start", "bind", "install"} /\ call'[c].drop = {}
      /\ \A d \in Calls \ {c} : call'[d] = call[d]
  BY CloseStep
<1>2. call[c].drop \in SUBSET Handles
  BY DEF TypeInv, CallState
<1>3. /\ \A h \in Handles : Queued(h)' <=> (h \in call[c].drop \/ Queued(h))
      /\ cleanup'.owned = cleanup.owned \cup call[c].drop /\ cleanup'.reserved = cleanup.reserved
      /\ cleanup'.retiring = cleanup.retiring /\ cleanup'.abandoned = cleanup.abandoned
      /\ cleanup'.over = cleanup.over
  BY <1>2, ClaimedCleanup DEF Close
<1>4. play' = play
  BY DEF Close
<1>5. \A h \in call[c].drop : Known(h)
  BY <1>2 DEF Known
<1>6. ~cleanup'.abandoned => cleanup'.owned = cleanup.owned
  BY <1>2, <1>3, <1>5 DEF BudgetInv
<1>7. Reserving' = Reserving /\ \A d \in Calls : Phase(call'[d]) = Phase(call[d])
  BY <1>1 DEF Reserving, Cleaned
<1>8. ASSUME NEW h \in Handles, Known(h)' PROVE Known(h)
  <2>1. ASSUME NEW d \in Calls, (Carries(d, h)' /\ call'[d].stage = "install") \/ h \in call'[d].drop
        PROVE  Known(h)
    BY <1>1, <2>1 DEF Known, Carries
  <2>2. ASSUME NEW p \in Plays, NEW m \in Media, Serves(p, m, h)' PROVE Known(h)
    BY <1>4, <2>2 DEF Serves, Known
  <2>3. ASSUME Queued(h)' PROVE Known(h)
    BY <1>3, <1>5, <2>3 DEF Known
  <2> QED BY <1>8, <2>1, <2>2, <2>3 DEF Known
<1> QED BY <1>1, <1>3, <1>6, <1>7, <1>8, BudgetKept

\* The deliveries of sources that were not matched were those of the play session.
LEMMA ReboundBudget ==
  ASSUME TypeInv, EntryInv, BudgetInv, TypeInv', NEW c \in Calls, NEW p \in Plays,
         ReboundTurn(c, p), cleanup' = cleanup
  PROVE  BudgetInv'
<1>1. /\ \A d \in Calls \ {c} : call'[d] = call[d]
      /\ call[c].stage = "reuse" /\ call'[c].stage \in Cleaning \cup {"prefer"} /\ Phase(call'[c]) = "prefer"
      /\ call'[c].drop = Retired(c, p)
      /\ \A q \in Plays \ {p} : play'[q] = play[q]
      /\ \A m \in Media : \/ play'[p].source[m] = NoSource
                          \/ play'[p].source[m].handle = play[p].source[m].handle
  BY DEF ReboundTurn
<1>2. \A h \in Handles : h \in call'[c].drop => Known(h)
  BY <1>1 DEF Retired, Bindings, Has, Known, Serves
<1>3. ASSUME NEW q \in Plays, NEW m \in Media, NEW h \in Handles, Serves(q, m, h)' PROVE Known(h)
  <2>1. NoSource.handle = 0
    BY DEF NoSource
  <2> QED BY <1>1, <1>3, <2>1, Numbered DEF Serves, Known
<1>4. /\ Phase(call[c]) \notin Reserved /\ Phase(call'[c]) \notin Reserved
      /\ Phase(call'[c]) \notin Leaving /\ call'[c].stage # "install"
  BY <1>1 DEF Phase, Cleaning, Reserved, Leaving
<1> QED BY <1>1, <1>2, <1>3, <1>4, TurnBudget

\* A new play session has no delivery.
LEMMA RegisterBudget ==
  ASSUME TypeInv, EntryInv, BudgetInv, TypeInv', NEW c \in Calls, NEW p \in Plays, RegisterTurn(c, p)
  PROVE  BudgetInv'
<1>1. /\ \A d \in Calls \ {c} : call'[d] = call[d]
      /\ call[c].stage = "register" /\ call'[c].stage \in Cleaning \cup {"finish", "prefer"}
      /\ Phase(call'[c]) \in {"finish", "prefer"}
      /\ call'[c].drop = {} /\ cleanup' = cleanup
      /\ \/ play' = play
         \/ /\ \A q \in Plays \ {p} : play'[q] = play[q]
            /\ \A m \in Media : play'[p].source[m].handle = 0
  BY DEF RegisterTurn
<1>2. ASSUME NEW q \in Plays, NEW m \in Media, NEW h \in Handles, Serves(q, m, h)' PROVE Known(h)
  BY <1>1, <1>2, Numbered DEF Serves, Known
<1>3. /\ Phase(call[c]) \notin Reserved /\ Phase(call'[c]) \notin Reserved
      /\ Phase(call'[c]) \notin Leaving /\ call'[c].stage # "install"
  BY <1>1 DEF Phase, Cleaning, Reserved, Leaving
<1> QED BY <1>1, <1>2, <1>3, TurnBudget

\* A reservation is made while there is room and no shutdown.
LEMMA ReserveBudget ==
  ASSUME TypeInv, EntryInv, BudgetInv, TypeInv', NEW c \in Calls, ReserveTurn(c)
  PROVE  BudgetInv'
<1>1. /\ \A d \in Calls \ {c} : call'[d] = call[d]
      /\ call[c].stage = "lookup" /\ call'[c].stage \in Cleaning \cup {"resolve"}
      /\ Phase(call'[c]) = "resolve" /\ call'[c].drop = {} /\ PlaysKept
      /\ cleanup' = [cleanup EXCEPT !.reserved = @ + 1] /\ Reservable
  BY DEF ReserveTurn
<1>2. /\ cleanup'.owned = cleanup.owned /\ cleanup'.reserved = cleanup.reserved + 1
      /\ cleanup'.retiring = cleanup.retiring /\ cleanup'.abandoned = cleanup.abandoned
      /\ cleanup'.over = cleanup.over /\ cleanup'.pending = cleanup.pending
  BY <1>1 DEF TypeInv, RestTyped, Cleanup
<1>3. ~cleanup.retiring /\ Cardinality(cleanup.owned) + cleanup.reserved < HandleLimit
  BY <1>1 DEF Reservable
<1>4. c \notin Reserving /\ Reserving' = Reserving \cup {c}
  <2>1. Phase(call[c]) = "lookup"
    BY <1>1 DEF Phase, Cleaning
  <2> QED BY <1>1, <2>1 DEF Reserving
<1>5. Cardinality(Reserving') = Cardinality(Reserving) + 1
  BY <1>4, BudgetFinite, FS_AddElement
<1>6. ASSUME NEW h \in Handles, Known(h)' PROVE Known(h)
  <2>1. ASSUME NEW d \in Calls, (Carries(d, h)' /\ call'[d].stage = "install") \/ h \in call'[d].drop
        PROVE  Known(h)
    BY <1>1, <2>1 DEF Known, Carries, Cleaning
  <2>2. ASSUME NEW p \in Plays, NEW m \in Media, Serves(p, m, h)' PROVE Known(h)
    BY <1>1, <2>2 DEF PlaysKept, Serves, Known
  <2>3. ASSUME Queued(h)' PROVE Known(h)
    BY <1>2, <2>3 DEF Queued, Known
  <2> QED BY <1>6, <2>1, <2>2, <2>3 DEF Known
<1>7. ~cleanup.over /\ \A d \in Calls : Phase(call[d]) \notin Leaving
  BY <1>3 DEF BudgetInv
<1>8. \A d \in Calls : Phase(call'[d]) \notin Leaving
  BY <1>1, <1>7 DEF Leaving
<1>9. ASSUME ~cleanup'.abandoned
      PROVE  /\ cleanup'.reserved = Cardinality(Reserving')
             /\ \A h \in Handles : Known(h)' => h \in cleanup'.owned
             /\ Cardinality(cleanup'.owned) + cleanup'.reserved <= HandleLimit
  <2>1. cleanup.reserved = Cardinality(Reserving) /\ \A h \in Handles : Known(h) => h \in cleanup.owned
    BY <1>2, <1>9 DEF BudgetInv
  <2>2. Cardinality(cleanup'.owned) + cleanup'.reserved <= HandleLimit
    <3>1. Cardinality(cleanup.owned) \in Nat /\ cleanup.reserved \in Nat /\ HandleLimit \in Nat
      BY BudgetFinite
    <3> HIDE DEF Reserving
    <3> QED BY <1>2, <1>3, <3>1
  <2> QED BY <1>2, <1>5, <1>6, <2>1, <2>2
<1> QED BY <1>2, <1>7, <1>8, <1>9 DEF BudgetInv

\* An opening keeps its reservation until what it opened is bound.
LEMMA OpenBudget ==
  ASSUME TypeInv, EntryInv, BudgetInv, NEW c \in Calls,
         Resolve(c) \/ CreateSession(c) \/ StartSession(c)
  PROVE  BudgetInv'
<1>1. cleanup' = cleanup
  BY DEF Resolve, CreateSession, StartSession
<1>2. /\ TypeInv' /\ OpenTurn(c) /\ call[c].stage \in {"resolve", "create", "start"}
      /\ call'[c].stage \in {"create", "start", "bind"}
  BY ResolveStep, CreateSessionStep, StartSessionStep
<1>3. /\ Phase(call[c]) \in Reserved /\ Phase(call'[c]) \in Reserved
      /\ Phase(call'[c]) \notin Leaving /\ call'[c].stage # "install"
  BY <1>2 DEF Phase, Cleaning, Reserved, Leaving
<1>4. \A p \in Plays, m \in Media, h \in Handles : Serves(p, m, h)' => Known(h)
  BY <1>2 DEF OpenTurn, Serves, Known
<1>5. call'[c].drop = {} /\ \A d \in Calls \ {c} : call'[d] = call[d]
  BY <1>2 DEF OpenTurn, Tries
<1> QED BY <1>1, <1>2, <1>3, <1>4, <1>5, TurnBudget

\* There the reservation becomes a delivery the registry owns.
LEMMA BindBudget ==
  ASSUME TypeInv, EntryInv, BudgetInv, NEW c \in Calls, Bind(c)
  PROVE  BudgetInv'
<1> DEFINE new == {call[c].handle} \ {0}
<1>1. /\ TypeInv' /\ OpenTurn(c) /\ call[c].stage = "bind" /\ call'[c].stage = "install"
      /\ call'[c].handle = call[c].handle
  BY BindStep
<1>2. /\ cleanup'.owned = cleanup.owned \cup new /\ cleanup'.reserved = Unreserved
      /\ cleanup'.retiring = cleanup.retiring /\ cleanup'.abandoned = cleanup.abandoned
      /\ cleanup'.over = cleanup.over /\ cleanup'.pending = cleanup.pending
  BY DEF Bind, TypeInv, RestTyped, Cleanup
<1>3. c \in Reserving /\ Reserving' = Reserving \ {c}
  <2>1. Phase(call[c]) = "bind" /\ Phase(call'[c]) = "install"
    BY <1>1 DEF Phase, Cleaning
  <2> QED BY <1>1, <2>1 DEF OpenTurn, Reserving
<1>4. Cardinality(Reserving') = Cardinality(Reserving) - 1 /\ Cardinality(Reserving) > 0
  <2>1. Cardinality(Reserving') = Cardinality(Reserving) - 1
    BY <1>3, BudgetFinite, FS_RemoveElement
  <2>2. Cardinality(Reserving) # 0
    BY <1>3, BudgetFinite, FS_EmptySet
  <2> QED BY <2>1, <2>2, BudgetFinite
<1>5. ASSUME NEW h \in Handles, Known(h)' PROVE Known(h) \/ h \in new
  <2>1. ASSUME NEW d \in Calls, (Carries(d, h)' /\ call'[d].stage = "install") \/ h \in call'[d].drop
        PROVE  Known(h) \/ h \in new
    <3>1. CASE d = c
      BY <1>1, <2>1, <3>1, Numbered DEF OpenTurn, Tries, Carries
    <3>2. CASE d # c
      BY <1>1, <2>1, <3>2 DEF OpenTurn, Carries, Known
    <3> QED BY <3>1, <3>2
  <2>2. ASSUME NEW p \in Plays, NEW m \in Media, Serves(p, m, h)' PROVE Known(h)
    BY <1>1, <2>2 DEF OpenTurn, Serves, Known
  <2>3. ASSUME Queued(h)' PROVE Known(h)
    BY <1>2, <2>3 DEF Queued, Known
  <2> QED BY <1>5, <2>1, <2>2, <2>3 DEF Known
<1>6. \A d \in Calls : Phase(call'[d]) \in Leaving => Phase(call[d]) \in Leaving
  BY <1>1 DEF OpenTurn, Phase, Cleaning, Leaving
<1>7. /\ Cardinality(cleanup.owned \cup new) \in Nat
      /\ Cardinality(cleanup.owned \cup new) <= Cardinality(cleanup.owned) + 1
  <2>1. CASE new \subseteq cleanup.owned
    <3>1. cleanup.owned \cup new = cleanup.owned
      BY <2>1
    <3>2. Cardinality(cleanup.owned) \in Nat
      BY BudgetFinite
    <3>3. Cardinality(cleanup.owned \cup new) = Cardinality(cleanup.owned)
      BY <3>1, Zenon
    <3>4. \A n \in Nat : n <= n + 1
      OBVIOUS
    <3> QED BY <3>2, <3>3, <3>4
  <2>2. CASE ~(new \subseteq cleanup.owned)
    <3>1. cleanup.owned \cup new = cleanup.owned \cup {call[c].handle} /\ call[c].handle \notin cleanup.owned
      BY <2>2
    <3>2. Cardinality(cleanup.owned \cup {call[c].handle}) = Cardinality(cleanup.owned) + 1
      BY <3>1, BudgetFinite, FS_AddElement
    <3> QED BY <3>1, <3>2, BudgetFinite
  <2> QED BY <2>1, <2>2
<1> HIDE DEF new
<1>8. ASSUME ~cleanup'.abandoned
      PROVE  /\ cleanup'.reserved = Cardinality(Reserving')
             /\ \A h \in Handles : Known(h)' => h \in cleanup'.owned
             /\ Cardinality(cleanup'.owned) + cleanup'.reserved <= HandleLimit
             /\ ~cleanup'.over
  <2>1. /\ cleanup.reserved = Cardinality(Reserving)
        /\ \A h \in Handles : Known(h) => h \in cleanup.owned
        /\ Cardinality(cleanup.owned) + cleanup.reserved <= HandleLimit
        /\ cleanup.over => cleanup.reserved = 0
    BY <1>2, <1>8 DEF BudgetInv
  <2>2. cleanup'.reserved = cleanup.reserved - 1
    BY <1>2, <1>4, <2>1 DEF Unreserved
  <2>3. ~cleanup'.over
    BY <1>2, <1>4, <2>1
  <2>4. Cardinality(cleanup'.owned) + cleanup'.reserved <= HandleLimit
    <3>1. Cardinality(cleanup.owned) \in Nat /\ cleanup.reserved \in Nat /\ HandleLimit \in Nat
      BY BudgetFinite
    <3> QED BY <1>2, <1>7, <2>1, <2>2, <3>1
  <2> QED BY <1>2, <1>4, <1>5, <2>1, <2>2, <2>3, <2>4
<1>9. cleanup'.over => cleanup'.retiring
  BY <1>2 DEF BudgetInv
<1>10. \A d \in Calls : Phase(call'[d]) \in Leaving => cleanup'.retiring
  BY <1>2, <1>6 DEF BudgetInv
<1> QED BY <1>8, <1>9, <1>10 DEF BudgetInv

\* What is installed, and what it replaces, was owned before.
LEMMA InstallBudget ==
  ASSUME TypeInv, EntryInv, BudgetInv, TypeInv', NEW c \in Calls, NEW next, InstallTurn(c, next)
  PROVE  BudgetInv'
<1> DEFINE p == call[c].play
           m == call[c].media
<1>1. /\ call[c].stage = "install" /\ cleanup' = cleanup /\ InstallsTo(c, next) /\ next.stage \in Settling
      /\ Installed(c, next) \/ NotInstalled(c, next)
  BY DEF InstallTurn
<1>2. \A d \in Calls \ {c} :
        \/ call'[d] = call[d]
        \/ /\ call[d].stage = "wait" /\ call'[d].stage = "lookup" /\ Phase(call'[d]) = "lookup"
           /\ call'[d].drop = call[d].drop
  BY <1>1 DEF InstallsTo
<1>3. Phase(call'[c]) \in Settling /\ call'[c].stage # "install" /\ call'[c].drop = next.drop
  BY <1>1 DEF InstallsTo, Settling
<1>4. Phase(call[c]) = "install" /\ \A d \in Calls : call[d].stage = "wait" => Phase(call[d]) = "wait"
  BY <1>1 DEF Phase, Cleaning
<1>5. Reserving' = Reserving
  BY <1>2, <1>3, <1>4 DEF Reserving, Settling
<1>6. \A d \in Calls : Phase(call'[d]) \in Leaving => Phase(call[d]) \in Leaving
  BY <1>2, <1>3 DEF Settling, Leaving
<1>7. ASSUME NEW h \in Handles, h = call[c].handle PROVE Known(h)
  BY <1>1, <1>7 DEF Known, Carries
<1>8. ASSUME NEW h \in Handles, h \in next.drop PROVE Known(h)
  BY <1>1, <1>7, <1>8, Zenon DEF Installed, NotInstalled, Known, Serves
<1>9. ASSUME NEW q \in Plays, NEW n \in Media, NEW h \in Handles, Serves(q, n, h)' PROVE Known(h)
  <2>1. CASE NotInstalled(c, next)
    BY <1>9, <2>1 DEF NotInstalled, PlaysKept, Serves, Known
  <2>2. CASE Installed(c, next)
    <3>1. /\ \A r \in Plays \ {p} : play'[r] = play[r]
          /\ \A k \in Media \ {m} : play'[p].source[k] = play[p].source[k]
          /\ play'[p].source[m].handle = call[c].handle
      BY <2>2, Zenon DEF Installed
    <3>2. h = call[c].handle \/ Serves(q, n, h)
      BY <1>9, <3>1 DEF Serves
    <3> QED BY <1>7, <3>2 DEF Known
  <2> QED BY <1>1, <2>1, <2>2
<1>10. ASSUME NEW h \in Handles, Known(h)' PROVE Known(h)
  <2>1. ASSUME NEW d \in Calls, (Carries(d, h)' /\ call'[d].stage = "install") \/ h \in call'[d].drop
        PROVE  Known(h)
    <3>1. CASE d = c
      BY <1>3, <1>8, <2>1, <3>1
    <3>2. CASE d # c
      BY <1>2, <2>1, <3>2 DEF Carries, Known
    <3> QED BY <3>1, <3>2
  <2>2. Queued(h)' => Known(h)
    BY <1>1 DEF Queued, Known
  <2> QED BY <1>9, <1>10, <2>1, <2>2 DEF Known
<1> QED BY <1>1, <1>5, <1>6, <1>10, BudgetKept

\* Every move of a call keeps the count.
LEMMA MovesBudget ==
  ASSUME TypeInv, EntryInv, EventInv, BudgetInv, NEW c \in Calls, Moves(c)
  PROVE  BudgetInv'
<1>1. TypeInv'
  BY MovesTyped
<1>2. CASE Detach(c) \/ Release(c) \/ Finish(c) \/ FetchOptions(c) \/ PinOptions(c)
  BY <1>2, TidyingBudget
<1>3. CASE Close(c)
  BY <1>3, CloseBudget
<1>4. CASE Reuse(c) /\ \E p \in Plays : ReboundTurn(c, p)
  <2>1. cleanup' = cleanup
    BY <1>4 DEF Reuse
  <2> QED BY <1>1, <1>4, <2>1, ReboundBudget
<1>5. CASE Register(c)
  BY <1>1, <1>5, RegisterStep, RegisterBudget
<1>6. CASE Lookup(c) /\ ReserveTurn(c)
  BY <1>1, <1>6, ReserveBudget
<1>7. CASE Resolve(c) \/ CreateSession(c) \/ StartSession(c)
  BY <1>7, OpenBudget
<1>8. CASE Bind(c)
  BY <1>8, BindBudget
<1>9. CASE Install(c)
  <2>1. PICK next : InstallTurn(c, next)
    BY <1>9, InstallStep
  <2> QED BY <1>1, <2>1, InstallBudget
<1> QED BY <1>2, <1>3, <1>4, <1>5, <1>6, <1>7, <1>8, <1>9 DEF Moves

\* Nothing was reserved at first.
LEMMA InitBudget ==
  ASSUME Init
  PROVE  BudgetInv
<1>1. \A c \in Calls : Phase(call[c]) = "idle" /\ call[c].stage = "idle" /\ call[c].drop = {}
  BY InitFields
<1>2. Reserving = {}
  BY <1>1 DEF Reserving
<1>3. Cardinality(Reserving) = 0 /\ Cardinality({}) = 0
  BY <1>2, FS_EmptySet
<1>4. /\ cleanup.owned = {} /\ cleanup.reserved = 0 /\ cleanup.over = FALSE
      /\ \A h \in Handles : cleanup.pending[h] = "none"
  BY DEF Init
<1>5. \A p \in Plays, m \in Media : play[p].source[m].handle = 0
  <2>1. \A m \in Media : NewPlay.source[m] = NoSource
    BY DEF NewPlay
  <2>2. NoSource.handle = 0
    BY DEF NoSource
  <2> QED BY <2>1, <2>2, InitFields
<1>6. \A h \in Handles : ~Known(h)
  BY <1>1, <1>4, <1>5, Numbered DEF Known, Serves, Queued
<1>7. Cardinality(cleanup.owned) + cleanup.reserved <= HandleLimit
  BY <1>3, <1>4, Bounded
<1>8. \A c \in Calls : Phase(call[c]) \notin Leaving
  BY <1>1 DEF Leaving
<1> QED BY <1>3, <1>4, <1>6, <1>7, <1>8 DEF BudgetInv

\* Who has an attended delivery is the only one who has.
LEMMA OneOfOwners ==
  ASSUME TypeInv, NEW h \in Handles, Owned(h), Attended(h)
  PROVE  Cardinality(Owners(h)) = 1
<1> DEFINE calls == {<<"call", c>> : c \in {c \in Calls : call[c].handle = h /\ call[c].stage \in {"start", "bind", "install"}}}
           drops == {<<"drop", c>> : c \in {c \in Calls : h \in call[c].drop}}
           plays == {<<"play", p>> : p \in {p \in Plays : h \in HandlesOf(p)}}
           queue == IF cleanup.pending[h] = "none" THEN {} ELSE {<<"queue", h>>}
<1>1. Owners(h) = calls \cup drops \cup plays \cup queue
  BY DEF Owners
<1>2. ASSUME NEW p \in Plays PROVE h \in HandlesOf(p) <=> \E m \in Media : Serves(p, m, h)
  BY Numbered DEF HandlesOf, Serves
<1>3. \E x : Owners(h) = {x}
  <2>1. ASSUME NEW c \in Calls, Carries(c, h) PROVE \E x : Owners(h) = {x}
    <3>1. OnlyCall(c, h)
      BY <2>1, Sole
    <3>2. calls = {<<"call", c>>}
      BY <3>1 DEF OnlyCall, Carries
    <3>3. drops = {} /\ plays = {} /\ queue = {}
      BY <1>2, <3>1 DEF OnlyCall, Queued
    <3> HIDE DEF calls, drops, plays, queue
    <3> QED BY <1>1, <3>2, <3>3
  <2>2. ASSUME NEW c \in Calls, h \in call[c].drop PROVE \E x : Owners(h) = {x}
    <3>1. OnlyDrop(c, h)
      BY <2>2, Sole
    <3>2. drops = {<<"drop", c>>}
      BY <3>1 DEF OnlyDrop
    <3>3. calls = {} /\ plays = {} /\ queue = {}
      BY <1>2, <3>1 DEF OnlyDrop, Carries, Queued
    <3> HIDE DEF calls, drops, plays, queue
    <3> QED BY <1>1, <3>2, <3>3
  <2>3. ASSUME NEW p \in Plays, NEW m \in Media, Serves(p, m, h) PROVE \E x : Owners(h) = {x}
    <3>1. OnlyPlay(p, m, h)
      BY <2>3, Sole
    <3>2. plays = {<<"play", p>>}
      BY <1>2, <2>3, <3>1 DEF OnlyPlay
    <3>3. calls = {} /\ drops = {} /\ queue = {}
      BY <3>1 DEF OnlyPlay, Carries, Queued
    <3> HIDE DEF calls, drops, plays, queue
    <3> QED BY <1>1, <3>2, <3>3
  <2>4. ASSUME Queued(h) PROVE \E x : Owners(h) = {x}
    <3>1. OnlyQueue(h)
      BY <2>4, Sole
    <3>2. queue = {<<"queue", h>>}
      BY <2>4 DEF Queued
    <3>3. calls = {} /\ drops = {} /\ plays = {}
      BY <1>2, <3>1 DEF OnlyQueue, Carries
    <3> HIDE DEF calls, drops, plays, queue
    <3> QED BY <1>1, <3>2, <3>3
  <2> QED BY <2>1, <2>2, <2>3, <2>4 DEF Attended
<1> QED BY <1>3, FS_Singleton

\* The owners, and what the registry owns, say who closes each open delivery.
LEMMA OwnedDeliveries ==
  ASSUME TypeInv, OwnerInv, BudgetInv
  PROVE  DeliveriesOwned
<1>1. ASSUME NEW h \in OpenRows \ lost PROVE h \in Handles /\ Attended(h) /\ Cardinality(Owners(h)) = 1
  <2>1. h \in Handles /\ Owned(h) /\ Attended(h)
    BY DEF OpenRows, OwnerInv, Owned
  <2> QED BY <2>1, OneOfOwners
<1>2. ASSUME ~cleanup.abandoned, cleanup.over, NEW h \in OpenRows PROVE h \in lost
  <2>1. /\ cleanup.owned = {} /\ cleanup.reserved = 0 /\ cleanup.reserved = Cardinality(Reserving)
        /\ \A g \in Handles : Known(g) => g \in cleanup.owned
    BY <1>2 DEF BudgetInv
  <2>2. Reserving = {}
    BY <2>1, BudgetFinite, FS_EmptySet
  <2> SUFFICES ASSUME h \notin lost PROVE FALSE
    OBVIOUS
  <2>3. h \in Handles /\ Attended(h) /\ ~Known(h)
    BY <1>1, <2>1
  <2>4. PICK c \in Calls : Carries(c, h) /\ call[c].stage # "install"
    BY <2>3 DEF Attended, Known
  <2>5. Phase(call[c]) \in {"start", "bind"}
    BY <2>4 DEF Carries, Phase, Cleaning
  <2> QED BY <2>2, <2>5 DEF Reserving
<1>3. ~cleanup.abandoned => Cardinality(cleanup.owned) + cleanup.reserved <= HandleLimit
  BY DEF BudgetInv
<1> QED BY <1>1, <1>2, <1>3 DEF DeliveriesOwned

\* Every open delivery has one owner, and a generation that has drained leaves none.
THEOREM DeliveriesHaveOwners == Spec => []DeliveriesOwned
<1>1. Init => CoreInv /\ BudgetInv
  BY InitCore, InitBudget
<1>2. CoreInv /\ BudgetInv /\ [Next]_vars => CoreInv' /\ BudgetInv'
  <2>1. ASSUME CoreInv, BudgetInv, [Next]_vars PROVE BudgetInv'
    BY <2>1, CoreNext, CalmBudget, MovesBudget DEF CoreInv
  <2> QED BY <2>1, CoreNext
<1>3. CoreInv /\ BudgetInv => DeliveriesOwned
  BY OwnedDeliveries DEF CoreInv
<1> QED BY <1>1, <1>2, <1>3, PTL DEF Spec

-----------------------------------------------------------------------------
(* Pins. *)

\* What may happen to a reference that nobody takes or gives back.
Ages(r) ==
  \/ refs'[r] = refs[r]
  \/ refs[r].at = "stored" /\ refs'[r].at = "withdrawn"
  \/ refs[r].at = "stored" /\ refs[r].pins = 0 /\ refs'[r].at = "gone"

\* Nobody comes to rely on a reference.
LEMMA ClaimKept ==
  ASSUME NEW r, OneClaim(r),
         \A c \in Calls : /\ r \in OptionReferences(c)' => r \in OptionReferences(c)
                          /\ Free(c, r)' => Free(c, r)
                          /\ r \in call'[c].unpin => r \in call[c].unpin
                          /\ r \in call'[c].old => r \in call[c].old,
         \A p \in Plays : Pins(p, r)' => Pins(p, r)
  PROVE  OneClaim(r)'
BY DEF OneClaim

\* Those who rely on it stay.
LEMMA CountKept ==
  ASSUME NEW r, Counted(r), Held(r)' <=> Held(r), Taken(r)' <=> Taken(r), Ages(r)
  PROVE  Counted(r)'
BY DEF Counted, Ages

\* One more relies on it, for whom it is pinned.
LEMMA CountTaken ==
  ASSUME NEW r, Counted(r), Held(r)' <=> Held(r), ~Taken(r), Taken(r)',
         refs[r].at = "stored", refs[r].pins \in Nat, refs'[r].at = "stored", refs'[r].pins = refs[r].pins + 1
  PROVE  Counted(r)'
BY DEF Counted

\* One of two who rely on it, or the only one, gives it back.
LEMMA CountGiven ==
  ASSUME NEW r \in Refs, NEW R, r \in R, Counted(r), refs' = Unpinned(R, refs), refs \in [Refs -> Reference],
         \/ (Held(r)' <=> Held(r)) /\ Taken(r) /\ ~Taken(r)'
         \/ Held(r) /\ ~Held(r)' /\ (Taken(r)' <=> Taken(r))
  PROVE  Counted(r)'
<1>1. refs[r].pins \in Nat
  BY DEF Reference
<1>2. CASE refs[r].at = "stored"
  <2>1. refs[r].pins > 0
    BY <1>1, <1>2 DEF Counted
  <2>2. refs'[r].at = "stored" /\ refs'[r].pins = refs[r].pins - 1
    BY <1>2, <2>1 DEF Unpinned, Reference
  <2> QED BY <1>1, <1>2, <2>2 DEF Counted
<1>3. CASE refs[r].at # "stored"
  <2>1. refs'[r] = refs[r]
    BY <1>3 DEF Unpinned
  <2> QED BY <1>3, <2>1 DEF Counted
<1> QED BY <1>2, <1>3

\* A pin or its release concerns the references it names.
LEMMA OtherRefs ==
  ASSUME NEW r \in Refs, NEW R, r \notin R, refs' = Unpinned(R, refs) \/ refs' = Pinned(R, refs)
  PROVE  refs'[r] = refs[r]
BY DEF Unpinned, Pinned

\* What is pinned has one pin more.
LEMMA PinnedRef ==
  ASSUME refs \in [Refs -> Reference], NEW R, NEW r \in R, CanPin(R), refs' = Pinned(R, refs)
  PROVE  /\ r \in Refs /\ refs[r].at = "stored" /\ refs[r].pins \in Nat
         /\ refs'[r].at = "stored" /\ refs'[r].pins = refs[r].pins + 1
<1>1. r \in Refs /\ refs[r].at = "stored" /\ refs[r] \in Reference
  BY DEF CanPin, Stored
<1> QED BY <1>1 DEF Pinned, Reference

\* No reference is drawn.
DrawnKept == \A r \in Refs : refs'[r].at = "new" <=> refs[r].at = "new"

\* The undrawn references remain the last ones.
LEMMA UndrawnKept ==
  ASSUME PinInv, DrawnKept
  PROVE  \A r \in Undrawn' : \A s \in Refs : s >= r => s \in Undrawn'
<1>1. Undrawn' = Undrawn
  BY DEF Undrawn, DrawnKept
<1> QED BY <1>1 DEF PinInv

\* Neither pinning nor unpinning draws a reference.
LEMMA UnpinnedDraws ==
  ASSUME refs \in [Refs -> Reference], NEW R, refs' = Unpinned(R, refs) \/ refs' = Pinned(R, refs)
  PROVE  DrawnKept
BY DEF DrawnKept, Unpinned, Pinned, Reference

\* The claims on all references stay, or get fewer before anything is pinned for them.
ClaimsSame ==
  /\ \A c \in Calls : /\ OptionReferences(c)' = OptionReferences(c)
                      /\ call'[c].unpin = call[c].unpin /\ call'[c].old = call[c].old
                      /\ call'[c].stage = "register" <=> call[c].stage = "register"
                      /\ Phase(call'[c]) \in FreeStages => Phase(call[c]) \in FreeStages
  /\ \A p \in Plays, r \in Refs : Pins(p, r)' <=> Pins(p, r)

\* Where no claim changes, references may at most age.
LEMMA PinsSame ==
  ASSUME PinInv, ClaimsSame, \A r \in Refs : Ages(r)
  PROVE  PinInv'
<1>1. ASSUME NEW r \in Refs PROVE OneClaim(r)' /\ Counted(r)'
  <2>1. OneClaim(r) /\ Counted(r)
    BY DEF PinInv
  <2>2. \A c \in Calls : Free(c, r)' => Free(c, r)
    BY DEF ClaimsSame, Free, FreeStages
  <2>3. OneClaim(r)'
    BY <2>1, <2>2, ClaimKept DEF ClaimsSame
  <2>4. (Held(r)' <=> Held(r)) /\ (Taken(r)' <=> Taken(r))
    BY DEF ClaimsSame, Held, Taken
  <2> QED BY <2>1, <2>3, <2>4, CountKept
<1>2. DrawnKept
  BY DEF Ages, DrawnKept
<1>3. \A r \in Undrawn' : \A s \in Refs : s >= r => s \in Undrawn'
  BY <1>2, UndrawnKept
<1> QED BY <1>1, <1>3 DEF PinInv

\* The play sessions pin the same.
LEMMA PinsKept ==
  ASSUME PlaysKept
  PROVE  \A p \in Plays, r \in Refs : Pins(p, r)' <=> Pins(p, r)
<1>1. ASSUME NEW p \in Plays PROVE ReferencesOf(p)' = ReferencesOf(p)
  BY DEF PlaysKept, ReferencesOf
<1> QED BY <1>1 DEF PlaysKept, Pins

\* A withdrawal is ageing.
LEMMA WithdrawnAges ==
  ASSUME TypeInv, NEW R, Withdraw(R)
  PROVE  \A r \in Refs : Ages(r)
<1>1. refs \in [Refs -> Reference]
  BY DEF TypeInv, RestTyped
<1> QED BY <1>1 DEF Withdraw, Ages, Stored, Reference

\* A calm step changes no claim, and ages only references nobody relies on or that are withdrawn.
LEMMA CalmPins ==
  ASSUME TypeInv, PinInv, Calm
  PROVE  PinInv'
<1>1. Quiet /\ PlaysKept /\ RefsKept
  BY DEF Calm, QuietStep
<1>2. ClaimsSame
  <2>1. ASSUME NEW c \in Calls
        PROVE  /\ OptionReferences(c)' = OptionReferences(c)
               /\ call'[c].unpin = call[c].unpin /\ call'[c].old = call[c].old
               /\ call'[c].stage = "register" <=> call[c].stage = "register"
               /\ Phase(call'[c]) \in FreeStages => Phase(call[c]) \in FreeStages
    <3>1. Passive(call[c], call'[c])
      BY <1>1 DEF Quiet
    <3> QED BY <3>1 DEF Passive, OptionReferences
  <2> QED BY <1>1, <2>1, PinsKept DEF ClaimsSame
<1>3. \A r \in Refs : Ages(r)
  <2>1. ASSUME NEW R, Withdraw(R) PROVE \A r \in Refs : Ages(r)
    BY <2>1, WithdrawnAges
  <2>2. ASSUME NEW s \in Refs, ExpireReference(s) PROVE \A r \in Refs : Ages(r)
    <3>1. refs \in [Refs -> Reference]
      BY DEF TypeInv, RestTyped
    <3> QED BY <2>2, <3>1 DEF ExpireReference, Ages, Stored, Reference
  <2> QED BY <1>1, <2>1, <2>2 DEF RefsKept, Ages
<1> QED BY <1>2, <1>3, PinsSame

\* Who is before the release of what it fetched is before no release of anything else.
LEMMA FreeAt ==
  ASSUME NEW c \in Calls, NEW r, call[c].stage \in FreeStages, r \in OptionReferences(c)
  PROVE  Free(c, r)
BY DEF Free, FreeStages, Phase, Cleaning

\* Detaching passes what play sessions pin to the call.
LEMMA DetachPins ==
  ASSUME TypeInv, EntryInv, PinInv, NEW c \in Calls, Detach(c)
  PROVE  PinInv'
<1> DEFINE passed == UNION {IF play[p].pinned THEN ReferencesOf(p) ELSE {} : p \in call[c].stale}
<1>1. /\ Cleaned(call[c], call'[c]) /\ call[c].stage \in Cleaning
      /\ call'[c].stage \in Cleaning /\ call'[c].old = call[c].old
      /\ call'[c].unpin = call[c].unpin \cup passed
      /\ \A d \in Calls \ {c} : call'[d] = call[d]
      /\ \A p \in Plays \ call[c].stale : play'[p] = play[p]
      /\ \A p \in call[c].stale : p \in Plays /\ play'[p].pinned = FALSE
  BY DetachStep
<1>2. refs' = refs
  BY DEF Detach
<1>3. \A d \in Calls : /\ OptionReferences(d)' = OptionReferences(d) /\ call'[d].old = call[d].old
                       /\ Phase(call'[d]) = Phase(call[d])
                       /\ call'[d].stage = "register" <=> call[d].stage = "register"
  BY <1>1 DEF Cleaned, OptionReferences, Cleaning
<1>4. \A d \in Calls, r \in Refs : Free(d, r)' <=> Free(d, r)
  BY <1>3 DEF Free
<1>5. \A r \in Refs : r \in passed <=> \E p \in call[c].stale : Pins(p, r)
  BY DEF Pins
<1>6. \A p \in Plays, r \in Refs : Pins(p, r)' <=> Pins(p, r) /\ p \notin call[c].stale
  <2>1. \A p \in Plays \ call[c].stale : ReferencesOf(p)' = ReferencesOf(p)
    BY <1>1 DEF ReferencesOf
  <2> QED BY <1>1, <2>1 DEF Pins
<1> HIDE DEF passed
<1>7. ASSUME NEW r \in Refs PROVE OneClaim(r)' /\ Counted(r)'
  <2>1. OneClaim(r) /\ Counted(r)
    BY DEF PinInv
  <2>2. Held(r)' <=> Held(r)
    BY <1>3 DEF Held
  <2>3. Ages(r)
    BY <1>2 DEF Ages
  <2>4. CASE r \in passed
    <3>1. PICK p \in call[c].stale : Pins(p, r) /\ p \in Plays
      BY <1>1, <1>5, <2>4
    <3>2. \A d \in Calls : r \in call'[d].unpin <=> d = c
      BY <1>1, <2>1, <2>4, <3>1 DEF OneClaim
    <3>3. \A d \in Calls : ~Free(d, r)' /\ r \notin call'[d].old
      BY <1>3, <1>4, <2>1, <3>1 DEF OneClaim
    <3>4. \A q \in Plays : ~Pins(q, r)'
      BY <1>6, <2>1, <3>1 DEF OneClaim
    <3>5. OneClaim(r)'
      BY <1>3, <2>1, <3>2, <3>3, <3>4 DEF OneClaim
    <3>6. Taken(r) /\ Taken(r)'
      BY <3>1, <3>2 DEF Taken
    <3> QED BY <2>1, <2>2, <2>3, <3>5, <3>6, CountKept
  <2>5. CASE r \notin passed
    <3>1. \A d \in Calls : r \in call'[d].unpin <=> r \in call[d].unpin
      BY <1>1, <2>5
    <3>2. \A p \in Plays : Pins(p, r)' <=> Pins(p, r)
      BY <1>1, <1>5, <1>6, <2>5
    <3>3. OneClaim(r)'
      BY <1>3, <1>4, <2>1, <3>1, <3>2, ClaimKept
    <3>4. Taken(r)' <=> Taken(r)
      BY <1>3, <3>1, <3>2 DEF Taken
    <3> QED BY <2>1, <2>2, <2>3, <3>3, <3>4, CountKept
  <2> QED BY <2>4, <2>5
<1>8. DrawnKept
  BY <1>2 DEF DrawnKept
<1> QED BY <1>7, <1>8, UndrawnKept DEF PinInv

\* A release of what one call alone relied on.
LEMMA GivenPins ==
  ASSUME TypeInv, PinInv, NEW c \in Calls, NEW R, refs' = Unpinned(R, refs), play' = play,
         \A d \in Calls \ {c} : call'[d] = call[d],
         \A r \in Refs : /\ r \in OptionReferences(c)' => r \in OptionReferences(c)
                         /\ Free(c, r)' => Free(c, r)
                         /\ r \in call'[c].unpin => r \in call[c].unpin
                         /\ r \in call'[c].old => r \in call[c].old,
         \A r \in Refs \ R : (Held(r)' <=> Held(r)) /\ (Taken(r)' <=> Taken(r)),
         \A r \in Refs : r \in R =>
           \/ (Held(r)' <=> Held(r)) /\ Taken(r) /\ ~Taken(r)'
           \/ Held(r) /\ ~Held(r)' /\ (Taken(r)' <=> Taken(r))
  PROVE  PinInv'
<1>1. refs \in [Refs -> Reference]
  BY DEF TypeInv, RestTyped
<1>2. ASSUME NEW r \in Refs PROVE OneClaim(r)' /\ Counted(r)'
  <2>1. OneClaim(r) /\ Counted(r)
    BY DEF PinInv
  <2>2. OneClaim(r)'
    <3>1. \A p \in Plays : Pins(p, r)' => Pins(p, r)
      BY DEF Pins, ReferencesOf
    <3>2. ASSUME NEW d \in Calls, d # c
          PROVE  /\ r \in OptionReferences(d)' => r \in OptionReferences(d)
                 /\ Free(d, r)' => Free(d, r)
      BY <3>2 DEF OptionReferences, Free
    <3> QED BY <2>1, <3>1, <3>2, ClaimKept
  <2>3. CASE r \in R
    <3>1. \/ (Held(r)' <=> Held(r)) /\ Taken(r) /\ ~Taken(r)'
          \/ Held(r) /\ ~Held(r)' /\ (Taken(r)' <=> Taken(r))
      BY <2>3
    <3> QED BY <1>1, <2>1, <2>2, <2>3, <3>1, CountGiven
  <2>4. CASE r \notin R
    <3>1. Ages(r)
      BY <2>4, OtherRefs DEF Ages
    <3>2. (Held(r)' <=> Held(r)) /\ (Taken(r)' <=> Taken(r))
      BY <2>4
    <3> QED BY <2>1, <2>2, <3>1, <3>2, CountKept
  <2> QED BY <2>2, <2>3, <2>4
<1>3. DrawnKept
  BY <1>1, UnpinnedDraws
<1> QED BY <1>2, <1>3, UndrawnKept DEF PinInv

\* Releasing gives back what the play sessions had.
LEMMA ReleasePins ==
  ASSUME TypeInv, EntryInv, PinInv, NEW c \in Calls, Release(c)
  PROVE  PinInv'
<1>1. /\ Cleaned(call[c], call'[c]) /\ call[c].stage \in Cleaning /\ call'[c].stage \in Cleaning
      /\ call'[c].unpin = {} /\ call'[c].old = call[c].old
      /\ \A d \in Calls \ {c} : call'[d] = call[d]
  BY ReleaseStep
<1>2. refs' = Unpinned(call[c].unpin, refs) /\ play' = play
  BY DEF Release
<1>3. /\ \A d \in Calls : /\ OptionReferences(d)' = OptionReferences(d) /\ call'[d].old = call[d].old
                          /\ Phase(call'[d]) = Phase(call[d])
                          /\ call'[d].stage = "register" <=> call[d].stage = "register"
      /\ \A p \in Plays, r \in Refs : Pins(p, r)' <=> Pins(p, r)
  BY <1>1, <1>2 DEF Cleaned, OptionReferences, Cleaning, Pins, ReferencesOf
<1>4. \A d \in Calls, r \in Refs : Free(d, r)' <=> Free(d, r)
  BY <1>3 DEF Free
<1>5. \A r \in Refs : Held(r)' <=> Held(r)
  BY <1>3 DEF Held
<1>6. ASSUME NEW r \in Refs, r \notin call[c].unpin PROVE Taken(r)' <=> Taken(r)
  BY <1>1, <1>3, <1>6 DEF Taken
<1>7. ASSUME NEW r \in Refs, r \in call[c].unpin PROVE Taken(r) /\ ~Taken(r)'
  <2>1. OneClaim(r)
    BY DEF PinInv
  <2>2. /\ \A p \in Plays : ~Pins(p, r)
        /\ \A d \in Calls : /\ r \notin call[d].old /\ ~Free(d, r)
                            /\ r \in call[d].unpin => d = c
    BY <1>7, <2>1 DEF OneClaim
  <2>3. \A d \in Calls : ~(call[d].stage = "register" /\ r \in OptionReferences(d))
    BY <2>2, FreeAt DEF FreeStages
  <2> QED BY <1>1, <1>3, <1>7, <2>2, <2>3 DEF Taken
<1>8. \A r \in Refs : /\ r \in OptionReferences(c)' => r \in OptionReferences(c)
                      /\ Free(c, r)' => Free(c, r)
                      /\ r \in call'[c].unpin => r \in call[c].unpin
                      /\ r \in call'[c].old => r \in call[c].old
  BY <1>1, <1>3, <1>4
<1> QED BY <1>1, <1>2, <1>5, <1>6, <1>7, <1>8, GivenPins

\* Closing gives back the references of before a rebinding.
LEMMA ClosePins ==
  ASSUME TypeInv, EntryInv, PinInv, NEW c \in Calls, Close(c)
  PROVE  PinInv'
<1>1. /\ Cleaned(call[c], call'[c]) /\ call[c].stage = "close"
      /\ call'[c].stage \notin {"register", "start", "bind", "install"}
      /\ call[c].unpin = {} /\ call'[c].unpin = {} /\ call'[c].old = {}
      /\ \A d \in Calls \ {c} : call'[d] = call[d]
  BY CloseStep
<1>2. refs' = Unpinned(call[c].old, refs) /\ play' = play
  BY DEF Close
<1>3. /\ \A d \in Calls : /\ OptionReferences(d)' = OptionReferences(d) /\ call'[d].unpin = call[d].unpin
                          /\ Phase(call'[d]) = Phase(call[d])
                          /\ call'[d].stage = "register" <=> call[d].stage = "register"
      /\ \A p \in Plays, r \in Refs : Pins(p, r)' <=> Pins(p, r)
  BY <1>1, <1>2 DEF Cleaned, OptionReferences, Pins, ReferencesOf
<1>4. \A d \in Calls, r \in Refs : Free(d, r)' <=> Free(d, r)
  BY <1>3 DEF Free
<1>5. \A r \in Refs : Held(r)' <=> Held(r)
  BY <1>3 DEF Held
<1>6. ASSUME NEW r \in Refs, r \notin call[c].old PROVE Taken(r)' <=> Taken(r)
  BY <1>1, <1>3, <1>6 DEF Taken
<1>7. ASSUME NEW r \in Refs, r \in call[c].old PROVE Taken(r) /\ ~Taken(r)'
  <2>1. OneClaim(r)
    BY DEF PinInv
  <2>2. /\ \A p \in Plays : ~Pins(p, r)
        /\ \A d \in Calls : /\ r \notin call[d].unpin /\ ~Free(d, r)
                            /\ r \in call[d].old => d = c
    BY <1>7, <2>1 DEF OneClaim
  <2>3. \A d \in Calls : ~(call[d].stage = "register" /\ r \in OptionReferences(d))
    BY <2>2, FreeAt DEF FreeStages
  <2> QED BY <1>1, <1>3, <1>7, <2>2, <2>3 DEF Taken
<1>8. \A r \in Refs : /\ r \in OptionReferences(c)' => r \in OptionReferences(c)
                      /\ Free(c, r)' => Free(c, r)
                      /\ r \in call'[c].unpin => r \in call[c].unpin
                      /\ r \in call'[c].old => r \in call[c].old
  BY <1>1, <1>3, <1>4
<1> QED BY <1>1, <1>2, <1>5, <1>6, <1>7, <1>8, GivenPins

\* At the end the pins of the options are given back.
LEMMA FinishPins ==
  ASSUME TypeInv, EntryInv, PinInv, NEW c \in Calls, Finish(c)
  PROVE  PinInv'
<1>1. /\ call[c].stage = "finish" /\ call[c].unpin = {} /\ call[c].old = {}
      /\ call'[c].stage = "idle" /\ call'[c].options = <<>> /\ call'[c].unpin = {} /\ call'[c].old = {}
      /\ \A d \in Calls \ {c} : call'[d] = call[d]
  BY FinishStep, EndedTyped, CallAt DEF Cleaning
<1>2. refs' = Unpinned(OptionReferences(c), refs) /\ play' = play
  BY DEF Finish
<1>3. /\ \A d \in Calls \ {c} : OptionReferences(d)' = OptionReferences(d)
      /\ OptionReferences(c)' = {}
      /\ \A p \in Plays, r \in Refs : Pins(p, r)' <=> Pins(p, r)
  BY <1>1, <1>2 DEF OptionReferences, Pins, ReferencesOf
<1>4. \A r \in Refs : Taken(r)' <=> Taken(r)
  BY <1>1, <1>3 DEF Taken
<1>5. ASSUME NEW r \in Refs, r \notin OptionReferences(c) PROVE Held(r)' <=> Held(r)
  BY <1>3, <1>5 DEF Held
<1>6. ASSUME NEW r \in Refs, r \in OptionReferences(c) PROVE Held(r) /\ ~Held(r)'
  <2>1. OneClaim(r)
    BY DEF PinInv
  <2> QED BY <1>3, <1>6, <2>1 DEF OneClaim, Held
<1>7. \A r \in Refs : r \notin OptionReferences(c)' /\ ~Free(c, r)'
  BY <1>3 DEF Free
<1> QED BY <1>1, <1>2, <1>4, <1>5, <1>6, <1>7, GivenPins

\* The references that were not drawn yet are the last ones.
LEMMA UndrawnAre ==
  ASSUME \A r \in Undrawn : \A s \in Refs : s >= r => s \in Undrawn
  PROVE  /\ Cardinality(Undrawn) \in Nat
         /\ \A r \in Refs : r \in Undrawn <=> r > MaxRefs - Cardinality(Undrawn)
<1> DEFINE k == Cardinality(Undrawn)
<1>1. Undrawn \in SUBSET Refs /\ IsFiniteSet(Undrawn) /\ k \in Nat /\ MaxRefs \in Nat
  <2>1. Undrawn \in SUBSET Refs
    BY DEF Undrawn
  <2> QED BY <2>1, Bounded, FS_Subset, FS_CardinalityType
<1>2. ASSUME NEW r \in Refs, r \in Undrawn PROVE r > MaxRefs - k
  <2>1. r \in 1..MaxRefs
    BY DEF Refs
  <2>2. r..MaxRefs \in SUBSET Undrawn
    BY <1>1, <1>2, <2>1 DEF Refs
  <2>3. IsFiniteSet(r..MaxRefs) /\ Cardinality(r..MaxRefs) = MaxRefs - r + 1
    <3>1. r \in Int /\ MaxRefs \in Int /\ ~(r > MaxRefs)
      BY <1>1, <2>1
    <3>2. /\ IsFiniteSet(r..MaxRefs)
          /\ Cardinality(r..MaxRefs) = IF r > MaxRefs THEN 0 ELSE MaxRefs - r + 1
      BY <3>1, FS_Interval, Zenon
    <3> QED BY <3>1, <3>2
  <2>4. Cardinality(r..MaxRefs) <= k
    BY <1>1, <2>2, FS_Subset
  <2> HIDE DEF k
  <2> QED BY <1>1, <2>1, <2>3, <2>4
<1>3. ASSUME NEW r \in Refs, r \notin Undrawn PROVE ~(r > MaxRefs - k)
  <2>1. r \in 1..MaxRefs
    BY DEF Refs
  <2>2. Undrawn \in SUBSET ((r + 1)..MaxRefs)
    <3>1. ASSUME NEW s \in Undrawn PROVE s \in (r + 1)..MaxRefs
      <4>1. s \in 1..MaxRefs /\ ~(r >= s)
        BY <1>1, <1>3 DEF Refs
      <4> QED BY <1>1, <2>1, <4>1
    <3> QED BY <3>1
  <2>3. PICK next \in Nat : next = r + 1
    BY <2>1
  <2>4. /\ IsFiniteSet(next..MaxRefs)
        /\ Cardinality(next..MaxRefs) = IF next > MaxRefs THEN 0 ELSE MaxRefs - next + 1
    BY <1>1, FS_Interval
  <2>5. Cardinality(next..MaxRefs) = MaxRefs - r
    BY <1>1, <2>1, <2>3, <2>4
  <2>6. k <= Cardinality(next..MaxRefs)
    BY <2>2, <2>3, <2>4, FS_Subset
  <2> HIDE DEF k
  <2> QED BY <1>1, <2>1, <2>5, <2>6
<1> QED BY <1>1, <1>2, <1>3

\* What is evicted for new references nobody has pinned.
LEMMA VictimsFree ==
  ASSUME NEW s, NEW n
  PROVE  \A r \in Victims(s, n) : r \in Refs /\ refs[r].at = "stored" /\ refs[r].pins = 0
BY DEF Victims, FirstOf, Evictable, OfOwner, OfUser, Stored

\* The references of the options are new: nobody relies on them.
LEMMA FetchPins ==
  ASSUME TypeInv, EntryInv, PinInv, NEW c \in Calls, FetchOptions(c)
  PROVE  PinInv'
<1>1. /\ call[c].stage = "options" /\ call[c].options = <<>>
      /\ \A d \in Calls \ {c} : call'[d] = call[d]
      /\ call'[c].stage \notin Cleaning \cup Opening \cup Handling \cup {"register"}
      /\ call'[c].unpin = {} /\ call'[c].old = {}
  BY FetchStep
<1>2. refs \in [Refs -> Reference] /\ play' = play /\ call[c].unpin = {} /\ call[c].old = {}
  BY <1>1, CallAt DEF TypeInv, RestTyped, FetchOptions, Cleaning
<1>3. OptionReferences(c) = {}
  BY <1>1 DEF OptionReferences
<1>4. /\ \A d \in Calls \ {c} : OptionReferences(d)' = OptionReferences(d)
      /\ \A p \in Plays, r \in Refs : Pins(p, r)' <=> Pins(p, r)
  BY <1>1, <1>2 DEF OptionReferences, Pins, ReferencesOf
<1>5. \A r \in Refs : Taken(r)' <=> Taken(r)
  BY <1>1, <1>2, <1>3, <1>4 DEF Taken
<1>6. ASSUME NEW r \in Refs, r \notin OptionReferences(c)' PROVE OneClaim(r)' /\ (Held(r)' <=> Held(r))
  <2>1. OneClaim(r)
    BY DEF PinInv
  <2>2. Held(r)' <=> Held(r)
    BY <1>3, <1>4, <1>6 DEF Held
  <2>3. \A d \in Calls : Free(d, r)' => Free(d, r)
    BY <1>1, <1>4, <1>6 DEF Free
  <2>4. OneClaim(r)'
    BY <1>1, <1>2, <1>4, <1>6, <2>1, <2>3, ClaimKept
  <2> QED BY <2>2, <2>4
<1>7. CASE refs' = refs /\ OptionReferences(c)' = {}
  <2>1. ASSUME NEW r \in Refs PROVE OneClaim(r)' /\ Counted(r)'
    <3>1. Counted(r) /\ Ages(r)
      BY <1>7 DEF PinInv, Ages
    <3>2. OneClaim(r)' /\ (Held(r)' <=> Held(r))
      BY <1>6, <1>7
    <3> QED BY <1>5, <3>1, <3>2, CountKept
  <2>2. DrawnKept
    BY <1>7 DEF DrawnKept
  <2> QED BY <2>1, <2>2, UndrawnKept DEF PinInv
<1>8. ASSUME NEW s \in Sessions, NEW n \in Nat, NEW pins \in 0..1, PutAll(s, n, pins),
             OptionReferences(c)' = IF pins = 1 THEN {Drawn(i) : i \in 1..n} ELSE {}
      PROVE  PinInv'
  <2> DEFINE new == {Drawn(i) : i \in 1..n}
             first == MaxRefs - Cardinality(Undrawn)
  <2>1. /\ Cardinality(Undrawn) \in Nat /\ first \in Int
        /\ \A r \in Refs : r \in Undrawn <=> r > first
    BY UndrawnAre, Bounded DEF PinInv
  <2>2. \A r \in Refs : r \in new <=> (r > first /\ r <= first + n)
    <3>1. ASSUME NEW r \in Refs, r > first, r <= first + n PROVE r \in new
      <4>1. r - first \in 1..n /\ Drawn(r - first) = r
        BY <1>8, <2>1, <3>1 DEF Refs, Drawn
      <4> QED BY <4>1
    <3>2. ASSUME NEW r \in Refs, r \in new PROVE r > first /\ r <= first + n
      BY <1>8, <2>1, <3>2 DEF Drawn, Refs
    <3> QED BY <3>1, <3>2
  <2>3. new \subseteq Undrawn
    <3>1. \A r \in new : r \in Refs
      BY <1>8, DrawnTyped DEF PutAll
    <3> QED BY <2>1, <2>2, <3>1
  <2>4. /\ \A r \in Refs : r \in new => refs'[r] = [by |-> s, at |-> "stored", pins |-> pins]
        /\ \A r \in Refs \ new : Ages(r)
    <3>1. refs' = [r \in Refs |-> IF r \in new THEN [by |-> s, at |-> "stored", pins |-> pins]
                                  ELSE IF r \in Victims(s, n) THEN [refs[r] EXCEPT !.at = "gone"] ELSE refs[r]]
      BY <1>8 DEF PutAll
    <3>2. \A r \in Refs \ new : r \in Victims(s, n) => refs'[r].at = "gone"
      BY <1>2, <3>1 DEF Reference
    <3>3. \A r \in Refs \ new : r \notin Victims(s, n) => refs'[r] = refs[r]
      BY <3>1
    <3> HIDE DEF new
    <3>4. \A r \in Refs : r \in new => refs'[r] = [by |-> s, at |-> "stored", pins |-> pins]
      BY <3>1
    <3> QED BY <3>2, <3>3, <3>4, VictimsFree DEF Ages
  <2>5. OptionReferences(c)' = IF pins = 1 THEN new ELSE {}
    BY <1>8
  <2> HIDE DEF new, first
  <2>6. ASSUME NEW r \in Refs, r \in new PROVE OneClaim(r)' /\ Counted(r)'
    <3>1. OneClaim(r) /\ Counted(r) /\ refs[r].at = "new"
      BY <2>3, <2>6 DEF PinInv, Undrawn
    <3>2. ~Held(r) /\ ~Taken(r) /\ ~Taken(r)'
      BY <1>5, <3>1 DEF Counted
    <3>3. refs'[r].at = "stored" /\ refs'[r].pins = pins
      BY <2>4, <2>6
    <3>4. CASE pins = 1
      <4>1. \A d \in Calls : r \in OptionReferences(d)' <=> d = c
        BY <1>4, <2>5, <2>6, <3>2, <3>4 DEF Held
      <4>2. Held(r)'
        BY <4>1 DEF Held
      <4>3. OneClaim(r)'
        BY <3>2, <4>1 DEF OneClaim, Taken
      <4> QED BY <3>2, <3>3, <3>4, <4>2, <4>3 DEF Counted
    <3>5. CASE pins = 0
      <4>1. OneClaim(r)' /\ ~Held(r)'
        BY <1>6, <2>5, <3>2, <3>5
      <4> QED BY <3>2, <3>3, <3>5, <4>1 DEF Counted
    <3> QED BY <3>4, <3>5
  <2>7. ASSUME NEW r \in Refs, r \notin new PROVE OneClaim(r)' /\ Counted(r)'
    <3>1. Counted(r) /\ Ages(r)
      BY <2>4, <2>7 DEF PinInv
    <3>2. OneClaim(r)' /\ (Held(r)' <=> Held(r))
      BY <1>6, <2>5, <2>7
    <3> QED BY <1>5, <3>1, <3>2, CountKept
  <2>8. \A r \in Refs : r \in Undrawn' <=> r \in Undrawn /\ r \notin new
    BY <2>4 DEF Undrawn, Ages
  <2>9. ASSUME NEW r \in Undrawn', NEW t \in Refs, t >= r PROVE t \in Undrawn'
    <3>1. r \in Refs
      BY DEF Undrawn
    <3>2. r > first /\ ~(r <= first + n) /\ r \in Int /\ t \in Int
      BY <2>1, <2>2, <2>8, <3>1 DEF Refs
    <3> QED BY <2>1, <2>2, <2>8, <2>9, <3>2
  <2> QED BY <2>6, <2>7, <2>9 DEF PinInv
<1>9. CASE \E n \in Nat : /\ PutAll(call[c].request.session, n, 1)
                         /\ OptionReferences(c)' = {Drawn(i) : i \in 1..n}
  BY <1>8, <1>9, FetchStep
<1>10. CASE \E n \in Nat : PutAll(call[c].request.session, n, 0) /\ OptionReferences(c)' = {}
  BY <1>8, <1>10, FetchStep
<1> QED BY <1>7, <1>9, <1>10, FetchStep

\* The options are pinned for the play session before it is registered.
LEMMA PinOptionsPins ==
  ASSUME TypeInv, EntryInv, PinInv, NEW c \in Calls, PinOptions(c)
  PROVE  PinInv'
<1> DEFINE new == OptionReferences(c)
<1>1. /\ call[c].stage = "pin" /\ Keeps(call[c], call'[c])
      /\ \A d \in Calls \ {c} : call'[d] = call[d]
      /\ \/ CanPin(new) /\ refs' = Pinned(new, refs) /\ call'[c].stage = "register"
         \/ refs' = refs /\ call'[c].stage = "finish"
  BY PinOptionsStep
<1>2. refs \in [Refs -> Reference] /\ play' = play
  BY DEF TypeInv, RestTyped, PinOptions
<1>3. /\ \A d \in Calls : /\ OptionReferences(d)' = OptionReferences(d)
                          /\ call'[d].unpin = call[d].unpin /\ call'[d].old = call[d].old
      /\ \A p \in Plays, r \in Refs : Pins(p, r)' <=> Pins(p, r)
  BY <1>1, <1>2 DEF Keeps, OptionReferences, Pins, ReferencesOf
<1>4. \A d \in Calls, r \in Refs : Free(d, r)' => Free(d, r)
  BY <1>1, <1>3, FreeAt DEF Free, FreeStages
<1>5. \A r \in Refs : OneClaim(r)' /\ (Held(r)' <=> Held(r))
  <2>1. ASSUME NEW r \in Refs PROVE OneClaim(r)'
    BY <1>3, <1>4, ClaimKept DEF PinInv
  <2> QED BY <1>3, <2>1 DEF Held
<1>6. CASE refs' = refs /\ call'[c].stage = "finish"
  <2>1. \A d \in Calls : call'[d].stage = "register" <=> call[d].stage = "register"
    BY <1>1, <1>6
  <2>2. \A r \in Refs : Taken(r)' <=> Taken(r)
    BY <1>3, <2>1 DEF Taken
  <2>3. \A r \in Refs : Counted(r)'
    BY <1>5, <1>6, <2>2, CountKept DEF PinInv, Ages
  <2>4. DrawnKept
    BY <1>6 DEF DrawnKept
  <2> QED BY <1>5, <2>3, <2>4, UndrawnKept DEF PinInv
<1>7. CASE CanPin(new) /\ refs' = Pinned(new, refs) /\ call'[c].stage = "register"
  <2>1. ASSUME NEW r \in Refs, r \in new PROVE Counted(r)'
    <3>1. OneClaim(r) /\ Counted(r)
      BY DEF PinInv
    <3>2. Free(c, r)
      BY <1>1, <2>1, FreeAt DEF FreeStages
    <3>3. ~Taken(r)
      <4>1. \A p \in Plays : ~Pins(p, r)
        BY <3>1, <3>2 DEF OneClaim
      <4>2. \A d \in Calls : r \notin call[d].unpin /\ r \notin call[d].old
        BY <3>1, <3>2 DEF OneClaim
      <4>3. \A d \in Calls : r \in OptionReferences(d) => d = c
        BY <2>1, <3>1 DEF OneClaim
      <4> QED BY <1>1, <4>1, <4>2, <4>3 DEF Taken
    <3>4. Taken(r)'
      BY <1>3, <1>7, <2>1 DEF Taken
    <3>5. /\ refs[r].at = "stored" /\ refs[r].pins \in Nat
          /\ refs'[r].at = "stored" /\ refs'[r].pins = refs[r].pins + 1
      BY <1>2, <1>7, <2>1, PinnedRef
    <3> QED BY <1>5, <3>1, <3>3, <3>4, <3>5, CountTaken
  <2>2. ASSUME NEW r \in Refs, r \notin new PROVE Counted(r)'
    <3>1. Counted(r)
      BY DEF PinInv
    <3>2. Ages(r)
      BY <1>7, <2>2, OtherRefs DEF Ages
    <3>3. Taken(r)' <=> Taken(r)
      BY <1>1, <1>3, <2>2 DEF Taken
    <3> QED BY <1>5, <3>1, <3>2, <3>3, CountKept
  <2>3. DrawnKept
    BY <1>2, <1>7, UnpinnedDraws
  <2> QED BY <1>5, <2>1, <2>2, <2>3, UndrawnKept DEF PinInv
<1> QED BY <1>1, <1>6, <1>7

\* The pins of the options become those of the play session, or are given back.
LEMMA RegisterPins ==
  ASSUME TypeInv, EntryInv, PinInv, NEW c \in Calls, NEW p \in Plays, RegisterTurn(c, p)
  PROVE  PinInv'
<1> DEFINE new == OptionReferences(c)
<1>1. /\ call[c].stage = "register" /\ refs' = refs
      /\ \A d \in Calls \ {c} : call'[d] = call[d]
      /\ call'[c].options = call[c].options
      /\ call[c].unpin = {} /\ call[c].old = {} /\ call'[c].old = {}
      /\ call'[c].stage \in Cleaning \cup {"finish", "prefer"} /\ Phase(call'[c]) \in {"finish", "prefer"}
  BY DEF RegisterTurn
<1>2. \A d \in Calls : OptionReferences(d)' = OptionReferences(d) /\ call'[d].old = call[d].old
  BY <1>1 DEF OptionReferences
<1>3. \A d \in Calls, r \in Refs : Free(d, r)' <=> Free(d, r) /\ d # c
  BY <1>1, <1>2 DEF Free
<1>4. \A r \in Refs : Held(r)' <=> Held(r)
  BY <1>2 DEF Held
<1>5. /\ \A q \in Plays, r \in Refs : Pins(q, r)' <=> Pins(q, r) \/ (r \in new /\ q = p /\ play' # play)
      /\ call'[c].unpin = IF play' # play THEN {} ELSE new
  <2>1. CASE play' = play
    <3>1. call'[c].unpin = new
      <4>1. play[p].revision = 1 => play[p].revision # 0
        OBVIOUS
      <4> QED BY <2>1, <4>1 DEF RegisterTurn
    <3>2. \A q \in Plays, r \in Refs : Pins(q, r)' <=> Pins(q, r)
      BY <2>1 DEF Pins, ReferencesOf
    <3> QED BY <2>1, <3>1, <3>2
  <2>2. CASE play' # play
    <3>1. /\ play[p].revision = 0 /\ \A q \in Plays \ {p} : play'[q] = play[q]
          /\ play'[p].pinned /\ {play'[p].source[m].ref : m \in Media} \ {0} = new
          /\ call'[c].unpin = {}
      BY <2>2 DEF RegisterTurn
    <3>2. ~play[p].pinned
      <4>1. play[p] = NewPlay
        BY <3>1 DEF EntryInv
      <4> QED BY <4>1 DEF NewPlay
    <3>3. ReferencesOf(p)' = new
      BY <3>1 DEF ReferencesOf
    <3>4. \A q \in Plays \ {p} : ReferencesOf(q)' = ReferencesOf(q)
      BY <3>1 DEF ReferencesOf
    <3> HIDE DEF new
    <3> QED BY <2>2, <3>1, <3>2, <3>3, <3>4 DEF Pins
  <2> QED BY <2>1, <2>2
<1> HIDE DEF new
<1>6. ASSUME NEW r \in Refs PROVE OneClaim(r)' /\ Counted(r)'
  <2>1. OneClaim(r) /\ Counted(r) /\ Ages(r)
    BY <1>1 DEF PinInv, Ages
  <2>2. CASE r \in new
    <3>1. Free(c, r) /\ r \in OptionReferences(c)
      BY <1>1, <2>2, FreeAt DEF FreeStages, new
    <3>2. /\ \A d \in Calls : /\ r \in OptionReferences(d) => d = c
                              /\ r \notin call[d].unpin /\ r \notin call[d].old
          /\ \A q \in Plays : ~Pins(q, r)
      BY <2>1, <3>1 DEF OneClaim
    <3>3. \A d \in Calls : r \notin call'[d].old /\ ~Free(d, r)'
      BY <1>2, <1>3, <3>2 DEF Free
    <3>4. \A d \in Calls : r \in call'[d].unpin <=> (d = c /\ play' = play)
      BY <1>1, <1>5, <2>2, <3>2
    <3>5. \A q \in Plays : Pins(q, r)' <=> (q = p /\ play' # play)
      BY <1>5, <2>2, <3>2
    <3>6. OneClaim(r)'
      BY <1>2, <3>2, <3>3, <3>4, <3>5 DEF OneClaim
    <3>7. Taken(r)
      BY <1>1, <3>1 DEF Taken
    <3>8. Taken(r)'
      BY <3>4, <3>5 DEF Taken
    <3> QED BY <1>4, <2>1, <3>6, <3>7, <3>8, CountKept
  <2>3. CASE r \notin new
    <3>1. \A d \in Calls : r \in call'[d].unpin <=> r \in call[d].unpin
      BY <1>1, <1>5, <2>3
    <3>2. \A q \in Plays : Pins(q, r)' <=> Pins(q, r)
      BY <1>5, <2>3
    <3>3. OneClaim(r)'
      BY <1>2, <1>3, <2>1, <3>1, <3>2, ClaimKept
    <3>4. \A d \in Calls : call'[d].stage = "register" /\ r \in OptionReferences(d)
                           <=> call[d].stage = "register" /\ r \in OptionReferences(d)
      BY <1>1, <2>3 DEF new, Cleaning
    <3>5. Taken(r)' <=> Taken(r)
      BY <1>2, <3>1, <3>2, <3>4 DEF Taken
    <3> QED BY <1>4, <2>1, <3>3, <3>5, CountKept
  <2> QED BY <2>2, <2>3
<1>7. DrawnKept
  BY <1>1 DEF DrawnKept
<1> QED BY <1>6, <1>7, UndrawnKept DEF PinInv

\* Matched sources pass to the fresh references, which are pinned for them; the references they
\* had are given back.
LEMMA ReboundPins ==
  ASSUME TypeInv, EntryInv, PinInv, NEW c \in Calls, NEW p \in Plays, ReboundTurn(c, p)
  PROVE  PinInv'
<1> DEFINE kept == Kept(c, p)
           left == ReferencesOf(p)
<1>1. /\ p \in Listed /\ call[c].stage = "reuse" /\ CanPin(kept) /\ refs' = Pinned(kept, refs)
      /\ \A q \in Plays \ {p} : play'[q] = play[q]
      /\ play'[p].pinned = play[p].pinned
      /\ \A m \in Media :
           \/ play'[p].source[m] = NoSource /\ m \notin Matched(c, p)
           \/ /\ m \in Matched(c, p)
              /\ play'[p].source[m].ref = FreshReference(c, play[p].source[m].key)
              /\ play'[p].source[m].ref \in kept /\ play'[p].source[m].ref \in Refs
      /\ \A d \in Calls \ {c} : call'[d] = call[d]
      /\ Phase(call'[c]) = "prefer" /\ call'[c].stage \in Cleaning \cup {"prefer"}
      /\ call'[c].options = call[c].options
      /\ call[c].unpin = {} /\ call[c].old = {}
      /\ call'[c].unpin = {} /\ call'[c].old = left
  BY DEF ReboundTurn
<1>2. refs \in [Refs -> Reference]
  BY DEF TypeInv, RestTyped
<1>3. \A d \in Calls : OptionReferences(d)' = OptionReferences(d) /\ call'[d].unpin = call[d].unpin
  <2>1. \A d \in Calls : call'[d].options = call[d].options /\ call'[d].unpin = call[d].unpin
    <3>1. \A d \in Calls \ {c} : call'[d] = call[d]
      BY <1>1, Zenon
    <3>2. call'[c].options = call[c].options /\ call'[c].unpin = call[c].unpin
      BY <1>1, Zenon
    <3> QED BY <3>1, <3>2
  <2> QED BY <2>1 DEF OptionReferences
<1>4. \A d \in Calls, r \in Refs : Free(d, r)' <=> Free(d, r) /\ d # c
  BY <1>1, <1>3 DEF Free
<1>5. \A r \in Refs : Held(r)' <=> Held(r)
  BY <1>3 DEF Held
<1>6. play[p].pinned /\ kept \subseteq OptionReferences(c)
  <2>1. play[p].pinned
    BY <1>1 DEF EntryInv
  <2>2. \A m \in Matched(c, p) : play[p].source[m].key \in Fresh(c)
    BY DEF Matched
  <2> QED BY <2>1, <2>2, OptionsTyped DEF Kept
<1>7. ReferencesOf(p)' = kept
  <2>1. \A m \in Matched(c, p) : m \in Media
    BY DEF Matched, Bindings
  <2>2. kept = {FreshReference(c, play[p].source[m].key) : m \in Matched(c, p)}
    BY DEF Kept
  <2>3. NoSource.ref = 0
    BY DEF NoSource
  <2>4. ReferencesOf(p)' = {play'[p].source[m].ref : m \in Media} \ {0}
    BY DEF ReferencesOf
  <2> HIDE DEF kept
  <2>5. ASSUME NEW r \in kept PROVE r \in ReferencesOf(p)'
    <3>1. PICK m \in Matched(c, p) : r = FreshReference(c, play[p].source[m].key)
      BY <2>2
    <3>2. r = play'[p].source[m].ref /\ r # 0
      BY <1>1, <2>1, <3>1, Numbered
    <3> QED BY <2>1, <2>4, <3>2
  <2>6. ReferencesOf(p)' \subseteq kept
    BY <1>1, <2>3, <2>4
  <2> QED BY <2>5, <2>6
<1>8. \A q \in Plays, r \in Refs : Pins(q, r)' <=> IF q = p THEN r \in kept ELSE Pins(q, r)
  <2>1. \A q \in Plays \ {p} : ReferencesOf(q)' = ReferencesOf(q)
    BY <1>1 DEF ReferencesOf
  <2> HIDE DEF kept
  <2>2. ASSUME NEW q \in Plays, NEW r \in Refs, q # p PROVE Pins(q, r)' <=> Pins(q, r)
    BY <1>1, <2>1, <2>2 DEF Pins
  <2>3. ASSUME NEW r \in Refs PROVE Pins(p, r)' <=> r \in kept
    BY <1>1, <1>6, <1>7 DEF Pins
  <2> QED BY <2>2, <2>3
<1>9. \A r \in Refs : Pins(p, r) <=> r \in left
  BY <1>6 DEF Pins
<1> HIDE DEF kept, left
<1>10. ASSUME NEW r \in Refs PROVE OneClaim(r)' /\ Counted(r)'
  <2>1. OneClaim(r) /\ Counted(r)
    BY DEF PinInv
  <2>2. CASE r \in kept
    <3>1. Free(c, r) /\ r \in OptionReferences(c)
      BY <1>1, <1>6, <2>2, FreeAt DEF FreeStages
    <3>2. /\ \A d \in Calls : /\ r \in OptionReferences(d) => d = c
                              /\ r \notin call[d].unpin /\ r \notin call[d].old
          /\ \A q \in Plays : ~Pins(q, r)
      BY <2>1, <3>1 DEF OneClaim
    <3>3. r \notin left
      BY <1>9, <3>2
    <3>4. \A d \in Calls : r \notin call'[d].old /\ r \notin call'[d].unpin /\ ~Free(d, r)'
      BY <1>1, <1>3, <1>4, <3>2, <3>3 DEF Free
    <3>5. \A q \in Plays : Pins(q, r)' <=> q = p
      BY <1>8, <2>2, <3>2
    <3>6. OneClaim(r)'
      BY <1>3, <3>2, <3>4, <3>5 DEF OneClaim
    <3>7. ~Taken(r) /\ Taken(r)'
      BY <1>1, <3>2, <3>5 DEF Taken
    <3>8. /\ refs[r].at = "stored" /\ refs[r].pins \in Nat
          /\ refs'[r].at = "stored" /\ refs'[r].pins = refs[r].pins + 1
      BY <1>1, <1>2, <2>2, PinnedRef
    <3> QED BY <1>5, <2>1, <3>6, <3>7, <3>8, CountTaken
  <2>3. CASE r \notin kept
    <3>1. Ages(r)
      BY <1>1, <2>3, OtherRefs DEF Ages
    <3>2. CASE r \in left
      <4>1. Pins(p, r)
        BY <1>9, <3>2
      <4>2. /\ \A q \in Plays : ~Pins(q, r)'
            /\ \A d \in Calls : r \notin call'[d].unpin /\ ~Free(d, r)'
        BY <1>3, <1>4, <1>8, <2>1, <2>3, <4>1 DEF OneClaim
      <4>3. \A d \in Calls : r \in call'[d].old <=> d = c
        BY <1>1, <2>1, <3>2, <4>1 DEF OneClaim
      <4>4. OneClaim(r)'
        BY <1>3, <2>1, <4>2, <4>3 DEF OneClaim
      <4>5. Taken(r) /\ Taken(r)'
        BY <4>1, <4>3 DEF Taken
      <4> QED BY <1>5, <2>1, <3>1, <4>4, <4>5, CountKept
    <3>3. CASE r \notin left
      <4>1. \A q \in Plays : Pins(q, r)' <=> Pins(q, r)
        BY <1>8, <1>9, <2>3, <3>3
      <4>2. \A d \in Calls : r \in call'[d].old <=> r \in call[d].old
        BY <1>1, <3>3
      <4>3. OneClaim(r)'
        BY <1>3, <1>4, <2>1, <4>1, <4>2, ClaimKept
      <4>4. \A d \in Calls : call'[d].stage = "register" <=> call[d].stage = "register"
        BY <1>1 DEF Cleaning
      <4>5. Taken(r)' <=> Taken(r)
        BY <1>3, <4>1, <4>2, <4>4 DEF Taken
      <4> QED BY <1>5, <2>1, <3>1, <4>3, <4>5, CountKept
    <3> QED BY <3>2, <3>3
  <2> QED BY <2>2, <2>3
<1>11. DrawnKept
  BY <1>1, <1>2, UnpinnedDraws
<1> QED BY <1>10, <1>11, UndrawnKept DEF PinInv

\* An opening takes and gives back no reference.
LEMMA OpenPins ==
  ASSUME TypeInv, PinInv, NEW c \in Calls, OpenTurn(c), \A r \in Refs : Ages(r)
  PROVE  PinInv'
<1>1. /\ call[c].stage \in Opening /\ call'[c].stage \in Opening /\ Tries(c, call'[c])
      /\ play' = play /\ \A d \in Calls \ {c} : call'[d] = call[d]
  BY DEF OpenTurn
<1>2. ASSUME NEW d \in Calls
      PROVE  /\ OptionReferences(d)' = OptionReferences(d)
             /\ call'[d].unpin = call[d].unpin /\ call'[d].old = call[d].old
             /\ call'[d].stage = "register" <=> call[d].stage = "register"
             /\ Phase(call'[d]) \in FreeStages => Phase(call[d]) \in FreeStages
  <2>1. CASE d = c
    BY <1>1, <2>1 DEF Tries, OptionReferences, Phase, Opening, Cleaning, FreeStages
  <2>2. CASE d # c
    BY <1>1, <2>2 DEF OptionReferences
  <2> QED BY <2>1, <2>2
<1>3. \A p \in Plays, r \in Refs : Pins(p, r)' <=> Pins(p, r)
  BY <1>1 DEF Pins, ReferencesOf
<1> QED BY <1>2, <1>3, PinsSame DEF ClaimsSame

\* A reservation takes and gives back no reference.
LEMMA ReservePins ==
  ASSUME TypeInv, PinInv, NEW c \in Calls, ReserveTurn(c)
  PROVE  PinInv'
<1>1. /\ call[c].stage = "lookup" /\ PlaysKept /\ refs' = refs
      /\ Phase(call'[c]) = "resolve" /\ call'[c].stage \in Cleaning \cup {"resolve"}
      /\ call'[c].options = call[c].options
      /\ call[c].unpin = {} /\ call[c].old = {} /\ call'[c].unpin = {} /\ call'[c].old = {}
      /\ \A d \in Calls \ {c} : call'[d] = call[d]
  BY DEF ReserveTurn
<1>2. ASSUME NEW d \in Calls
      PROVE  /\ OptionReferences(d)' = OptionReferences(d)
             /\ call'[d].unpin = call[d].unpin /\ call'[d].old = call[d].old
             /\ call'[d].stage = "register" <=> call[d].stage = "register"
             /\ Phase(call'[d]) \in FreeStages => Phase(call[d]) \in FreeStages
  BY <1>1 DEF OptionReferences, Cleaning, FreeStages
<1>3. \A r \in Refs : Ages(r)
  BY <1>1 DEF Ages
<1> QED BY <1>1, <1>2, <1>3, PinsKept, PinsSame DEF ClaimsSame

\* Nor does an installation.
LEMMA InstallPins ==
  ASSUME TypeInv, EntryInv, PinInv, NEW c \in Calls, NEW next, InstallTurn(c, next)
  PROVE  PinInv'
<1>1. /\ call[c].stage = "install" /\ refs' = refs /\ InstallsTo(c, next) /\ next.stage \in Settling
      /\ next.options = call[c].options
      /\ Installed(c, next) \/ NotInstalled(c, next)
  BY DEF InstallTurn
<1>2. call[c].unpin = {} /\ call[c].old = {}
  BY <1>1, CallAt DEF Cleaning
<1>3. ASSUME NEW d \in Calls
      PROVE  /\ OptionReferences(d)' = OptionReferences(d)
             /\ call'[d].unpin = call[d].unpin /\ call'[d].old = call[d].old
             /\ call'[d].stage = "register" <=> call[d].stage = "register"
             /\ Phase(call'[d]) \in FreeStages => Phase(call[d]) \in FreeStages
  <2>1. CASE d = c
    BY <1>1, <1>2, <2>1 DEF InstallsTo, Settling, OptionReferences, FreeStages
  <2>2. CASE d # c
    BY <1>1, <2>2 DEF InstallsTo, OptionReferences, FreeStages
  <2> QED BY <2>1, <2>2
<1>4. \A p \in Plays, r \in Refs : Pins(p, r)' <=> Pins(p, r)
  <2>1. CASE NotInstalled(c, next)
    BY <2>1, PinsKept DEF NotInstalled
  <2>2. CASE Installed(c, next)
    <3>1. \A p \in Plays : /\ play'[p].pinned = play[p].pinned
                           /\ \A m \in Media : play'[p].source[m].ref = play[p].source[m].ref
      BY <2>2, Zenon DEF Installed
    <3>2. \A p \in Plays : ReferencesOf(p)' = ReferencesOf(p)
      BY <3>1 DEF ReferencesOf
    <3> QED BY <3>1, <3>2 DEF Pins
  <2> QED BY <1>1, <2>1, <2>2
<1>5. \A r \in Refs : Ages(r)
  BY <1>1 DEF Ages
<1> QED BY <1>3, <1>4, <1>5, PinsSame DEF ClaimsSame

\* Every move of a call keeps a pin for each of those who rely on a reference.
LEMMA MovesPins ==
  ASSUME TypeInv, EntryInv, PinInv, NEW c \in Calls, Moves(c)
  PROVE  PinInv'
<1>1. CASE Detach(c)
  BY <1>1, DetachPins
<1>2. CASE Release(c) \/ Close(c) \/ Finish(c)
  BY <1>2, ReleasePins, ClosePins, FinishPins
<1>3. CASE FetchOptions(c) \/ PinOptions(c)
  BY <1>3, FetchPins, PinOptionsPins
<1>4. CASE Reuse(c) /\ \E p \in Plays : ReboundTurn(c, p)
  BY <1>4, ReboundPins
<1>5. CASE Register(c)
  <2>1. PICK p \in Plays : RegisterTurn(c, p)
    BY <1>5, RegisterStep
  <2> QED BY <2>1, RegisterPins
<1>6. CASE Lookup(c) /\ ReserveTurn(c)
  BY <1>6, ReservePins
<1>7. CASE Resolve(c)
  <2>1. OpenTurn(c)
    BY <1>7, ResolveStep
  <2>2. refs' = refs \/ \E R : Withdraw(R)
    BY <1>7 DEF Resolve
  <2>3. \A r \in Refs : Ages(r)
    <3>1. CASE refs' = refs
      BY <3>1 DEF Ages
    <3>2. CASE \E R : Withdraw(R)
      BY <3>2, WithdrawnAges
    <3> QED BY <2>2, <3>1, <3>2
  <2> QED BY <2>1, <2>3, OpenPins
<1>8. CASE CreateSession(c) \/ StartSession(c) \/ Bind(c)
  <2>1. OpenTurn(c)
    BY <1>8, CreateSessionStep, StartSessionStep, BindStep
  <2>2. refs' = refs
    BY <1>8 DEF CreateSession, StartSession, Bind
  <2>3. \A r \in Refs : Ages(r)
    BY <2>2 DEF Ages
  <2> QED BY <2>1, <2>3, OpenPins
<1>9. CASE Install(c)
  <2>1. PICK next : InstallTurn(c, next)
    BY <1>9, InstallStep
  <2> QED BY <2>1, InstallPins
<1> QED BY <1>1, <1>2, <1>3, <1>4, <1>5, <1>6, <1>7, <1>8, <1>9 DEF Moves

\* No reference was drawn at first, and nobody relies on any.
LEMMA InitPins ==
  ASSUME Init
  PROVE  PinInv
<1>1. \A r \in Refs : refs[r].at = "new"
  BY DEF Init, InitRefs
<1>2. ASSUME NEW c \in Calls
      PROVE  /\ call[c].options = <<>> /\ call[c].unpin = {} /\ call[c].old = {}
             /\ OptionReferences(c) = {}
  <2>1. call[c].options = <<>> /\ call[c].unpin = {} /\ call[c].old = {}
    BY InitFields
  <2> QED BY <2>1 DEF OptionReferences
<1>3. \A p \in Plays, r \in Refs : ~Pins(p, r)
  <2>1. NewPlay.pinned = FALSE
    BY DEF NewPlay
  <2> QED BY <2>1, InitFields DEF Pins
<1>4. \A r \in Refs : OneClaim(r)
  BY <1>2, <1>3 DEF OneClaim, Free
<1>5. \A r \in Refs : ~Held(r) /\ ~Taken(r)
  BY <1>2, <1>3 DEF Held, Taken
<1>6. \A r \in Refs : Counted(r)
  BY <1>1, <1>5 DEF Counted
<1> QED BY <1>1, <1>4, <1>6 DEF PinInv, Undrawn

\* Two things that differ are two.
LEMMA PairCounts == \A x, y : x # y => Cardinality({x, y}) = 2
<1> SUFFICES ASSUME NEW x, NEW y, x # y PROVE Cardinality({x, y}) = 2
  OBVIOUS
<1>1. IsFiniteSet({x}) /\ Cardinality({x}) = 1
  BY FS_Singleton
<1>2. y \notin {x}
  OBVIOUS
<1>3. Cardinality({x} \cup {y}) = Cardinality({x}) + 1
  BY <1>1, <1>2, FS_AddElement
<1>4. Cardinality({x} \cup {y}) = 2
  BY <1>1, <1>3
<1>5. {x, y} = {x} \cup {y}
  OBVIOUS
<1> QED BY <1>4, <1>5, Zenon

\* A reference has a pin of the call with the options, and one of whoever took it from there.
LEMMA PinsOfHolders ==
  ASSUME NEW r \in Refs, OneClaim(r)
  PROVE  /\ Cardinality(Holders(r)) = (IF Held(r) THEN 1 ELSE 0) + (IF Taken(r) THEN 1 ELSE 0)
         /\ Holders(r) # {} => Held(r) \/ Taken(r)
<1> DEFINE options == {<<"options", c>> : c \in {c \in Calls : r \in OptionReferences(c)}}
           register == {<<"register", c>> : c \in {c \in Calls : call[c].stage = "register" /\ r \in OptionReferences(c)}}
           plays == {<<"play", p>> : p \in {p \in Plays : play[p].pinned /\ r \in ReferencesOf(p)}}
           unpin == {<<"unpin", c>> : c \in {c \in Calls : r \in call[c].unpin}}
           old == {<<"old", c>> : c \in {c \in Calls : r \in call[c].old}}
           taken == register \cup plays \cup unpin \cup old
           Other(x) == \A d : x # <<"options", d>>
<1>1. Holders(r) = options \cup taken
  BY DEF Holders
<1>2. Held(r) => \E c : options = {<<"options", c>>}
  <2>1. ASSUME NEW c \in Calls, r \in OptionReferences(c) PROVE options = {<<"options", c>>}
    BY <2>1 DEF OneClaim
  <2> QED BY <2>1, Zenon DEF Held
<1>3. ~Held(r) => options = {}
  BY DEF Held
<1>4. \A c \in Calls : call[c].stage = "register" /\ r \in OptionReferences(c) => Free(c, r)
  BY FreeAt DEF FreeStages
<1>5. Taken(r) => \E x : taken = {x} /\ Other(x)
  <2>1. ASSUME NEW c \in Calls, call[c].stage = "register", r \in OptionReferences(c)
        PROVE  \E x : taken = {x} /\ Other(x)
    <3>1. register = {<<"register", c>>}
      BY <2>1 DEF OneClaim
    <3>2. unpin = {} /\ old = {}
      BY <1>4, <2>1 DEF OneClaim
    <3>3. plays = {}
      BY <1>4, <2>1 DEF OneClaim, Pins
    <3> HIDE DEF register, plays, unpin, old
    <3>4. taken = {<<"register", c>>}
      BY <3>1, <3>2, <3>3
    <3>5. Other(<<"register", c>>)
      OBVIOUS
    <3> HIDE DEF taken, Other
    <3> QED BY <3>4, <3>5
  <2>2. ASSUME NEW p \in Plays, Pins(p, r)
        PROVE  \E x : taken = {x} /\ Other(x)
    <3>1. plays = {<<"play", p>>}
      BY <2>2 DEF OneClaim, Pins
    <3>2. unpin = {} /\ old = {}
      BY <2>2 DEF OneClaim
    <3>3. register = {}
      BY <1>4, <2>2 DEF OneClaim
    <3> HIDE DEF register, plays, unpin, old
    <3>4. taken = {<<"play", p>>}
      BY <3>1, <3>2, <3>3
    <3>5. Other(<<"play", p>>)
      OBVIOUS
    <3> HIDE DEF taken, Other
    <3> QED BY <3>4, <3>5
  <2>3. ASSUME NEW c \in Calls, r \in call[c].unpin
        PROVE  \E x : taken = {x} /\ Other(x)
    <3>1. unpin = {<<"unpin", c>>}
      BY <2>3 DEF OneClaim
    <3>2. register = {} /\ old = {}
      BY <1>4, <2>3 DEF OneClaim
    <3>3. plays = {}
      BY <2>3 DEF OneClaim, Pins
    <3> HIDE DEF register, plays, unpin, old
    <3>4. taken = {<<"unpin", c>>}
      BY <3>1, <3>2, <3>3
    <3>5. Other(<<"unpin", c>>)
      OBVIOUS
    <3> HIDE DEF taken, Other
    <3> QED BY <3>4, <3>5
  <2>4. ASSUME NEW c \in Calls, r \in call[c].old
        PROVE  \E x : taken = {x} /\ Other(x)
    <3>1. old = {<<"old", c>>}
      BY <2>4 DEF OneClaim
    <3>2. register = {} /\ unpin = {}
      BY <1>4, <2>4 DEF OneClaim
    <3>3. plays = {}
      BY <2>4 DEF OneClaim, Pins
    <3> HIDE DEF register, plays, unpin, old
    <3>4. taken = {<<"old", c>>}
      BY <3>1, <3>2, <3>3
    <3>5. Other(<<"old", c>>)
      OBVIOUS
    <3> HIDE DEF taken, Other
    <3> QED BY <3>4, <3>5
  <2> QED BY <2>1, <2>2, <2>3, <2>4 DEF Taken
<1>6. ~Taken(r) => taken = {}
  <2>1. ~Taken(r) => register = {} /\ unpin = {} /\ old = {}
    BY DEF Taken
  <2>2. ~Taken(r) => plays = {}
    BY DEF Taken, Pins
  <2> QED BY <2>1, <2>2
<1> HIDE DEF options, taken
<1>7. /\ Cardinality({}) = 0
      /\ \A x : Cardinality({x}) = 1
      /\ \A x, y : x # y => Cardinality({x, y}) = 2
  BY FS_EmptySet, FS_Singleton, PairCounts
<1>8. CASE Held(r) /\ Taken(r)
  <2>1. PICK c : options = {<<"options", c>>}
    BY <1>2, <1>8
  <2>2. PICK x : taken = {x} /\ Other(x)
    BY <1>5, <1>8
  <2>3. <<"options", c>> # x
    BY <2>2
  <2>4. Holders(r) = {<<"options", c>>, x}
    BY <1>1, <2>1, <2>2
  <2>5. Cardinality({<<"options", c>>, x}) = 2
    BY <1>7, <2>3
  <2>6. Cardinality(Holders(r)) = 2
    BY <2>4, <2>5, Zenon
  <2> QED BY <1>8, <2>6
<1>9. CASE Held(r) /\ ~Taken(r)
  <2>1. PICK c : options = {<<"options", c>>}
    BY <1>2, <1>9
  <2>2. Holders(r) = {<<"options", c>>}
    BY <1>1, <1>6, <1>9, <2>1
  <2>3. Cardinality(Holders(r)) = 1
    BY <1>7, <2>2, Zenon
  <2> QED BY <1>9, <2>3
<1>10. CASE ~Held(r) /\ Taken(r)
  <2>1. PICK x : taken = {x}
    BY <1>5, <1>10
  <2>2. Holders(r) = {x}
    BY <1>1, <1>3, <1>10, <2>1
  <2>3. Cardinality(Holders(r)) = 1
    BY <1>7, <2>2, Zenon
  <2> QED BY <1>10, <2>3
<1>11. CASE ~Held(r) /\ ~Taken(r)
  <2>1. Holders(r) = {}
    BY <1>1, <1>3, <1>6, <1>11
  <2> QED BY <1>7, <1>11, <2>1
<1> QED BY <1>8, <1>9, <1>10, <1>11

\* A stored reference has one pin for each request, play session or release that relies on it,
\* and none of those is expired, evicted or new (putAllReserved, pin and unpin against register,
\* reuseCandidate and detachEntries).
THEOREM PinsAreExact == Spec => []PinsExact
<1>1. Init => CoreInv /\ PinInv
  BY InitCore, InitPins
<1>2. CoreInv /\ PinInv /\ [Next]_vars => CoreInv' /\ PinInv'
  <2>1. ASSUME CoreInv, PinInv, [Next]_vars PROVE PinInv'
    BY <2>1, CoreNext, CalmPins, MovesPins DEF CoreInv
  <2> QED BY <2>1, CoreNext
<1>3. CoreInv /\ PinInv => PinsExact
  BY PinsOfHolders DEF PinInv, Counted, PinsExact
<1> QED BY <1>1, <1>2, <1>3, PTL DEF Spec
=============================================================================
