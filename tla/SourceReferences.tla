-------------------------- MODULE SourceReferences --------------------------
(***************************************************************************)
(* The source references a server hands out: playback/source_store.go.     *)
(*                                                                         *)
(* A reference stands for one stream a provider offered.  It lives for four*)
(* hours unless it is pinned, evicted for a newer one, or withdrawn.  Every*)
(* operation runs under the store's mutex, so each is one step.  References*)
(* are numbered in the order they are drawn, which is the order they expire*)
(* in.                                                                     *)
(***************************************************************************)
EXTENDS Integers, FiniteSets

CONSTANTS
  Sessions,    \* linked logins
  OwnerOf,     \* session -> user, profile and device it belongs to
  UserOf,      \* session -> user
  MaxRefs,     \* bound: references drawn
  OwnerRefs,   \* references one owner may have
  UserRefs,    \* references one user may have
  StoredRefs   \* references in the store

ASSUME SourceReferencesAssumption ==
  /\ \A s, t \in Sessions : OwnerOf[s] = OwnerOf[t] => UserOf[s] = UserOf[t]
  /\ {MaxRefs, OwnerRefs, UserRefs, StoredRefs} \subseteq Nat \ {0}

VARIABLE refs  \* reference -> the session it was handed to, where it is, and its pins

Refs == 1..MaxRefs

\* A reference that is not stored any more has expired, was evicted, or was withdrawn while
\* somebody might still want it: by its provider or by a reset of the cache.
Reference == [by : Sessions, at : {"new", "stored", "gone", "withdrawn"}, pins : Nat]

InitRefs == refs = [r \in Refs |-> [by |-> CHOOSE s \in Sessions : TRUE, at |-> "new", pins |-> 0]]

Stored == {r \in Refs : refs[r].at = "stored"}
Undrawn == {r \in Refs : refs[r].at = "new"}

\* removeExpiredLocked, which every access runs: only what nobody has pinned expires.
ExpireReference(r) ==
  /\ r \in Stored /\ refs[r].pins = 0
  /\ refs' = [refs EXCEPT ![r].at = "gone"]

-----------------------------------------------------------------------------
(* putAllReserved: references that are reserved as they are stored.        *)

FirstOf(S, n) == {v \in S : Cardinality({x \in S : x < v}) < n}

Over(n, limit) == IF n > limit THEN n - limit ELSE 0

OfOwner(s) == {r \in Stored : OwnerOf[refs[r].by] = OwnerOf[s]}
OfUser(s) == {r \in Stored : UserOf[refs[r].by] = UserOf[s]}
Evictable(S) == {r \in S : refs[r].pins = 0}

\* How many have to go for n more: of the owner, and then of the user for the other two limits.
OwnerOverflow(s, n) == Over(Cardinality(OfOwner(s)) + n, OwnerRefs)
UserOverflow(s, n) ==
  LET o == OwnerOverflow(s, n)  u == Over(Cardinality(OfUser(s)) - o + n, UserRefs) IN
  u + Over(Cardinality(Stored) - o - u + n, StoredRefs)

\* Only what nobody has pinned is evicted, the oldest first, or nothing is stored.
Room(s, n) ==
  /\ Cardinality(Evictable(OfOwner(s))) >= OwnerOverflow(s, n)
  /\ Cardinality(Evictable(OfUser(s))) >= OwnerOverflow(s, n) + UserOverflow(s, n)
Victims(s, n) ==
  LET owner == FirstOf(Evictable(OfOwner(s)), OwnerOverflow(s, n)) IN
  owner \cup FirstOf(Evictable(OfUser(s)) \ owner, UserOverflow(s, n))

\* New references for s: the i-th of them.
Drawn(i) == MaxRefs - Cardinality(Undrawn) + i

PutAll(s, n, pins) ==
  LET out == Victims(s, n)  new == {Drawn(i) : i \in 1..n} IN
  /\ Cardinality(Undrawn) >= n /\ Room(s, n)
  /\ refs' = [r \in Refs |-> IF r \in new THEN [by |-> s, at |-> "stored", pins |-> pins]
                             ELSE IF r \in out THEN [refs[r] EXCEPT !.at = "gone"] ELSE refs[r]]

-----------------------------------------------------------------------------
(* The other operations, on the references of one session.                 *)

\* pin: all of them or none.
CanPin(R) == R # {} /\ R \subseteq Stored
Pinned(R, store) == [r \in Refs |-> IF r \in R THEN [store[r] EXCEPT !.pins = @ + 1] ELSE store[r]]

\* Slip: one release undoes every pin.
SlipUnpinned(R, store) ==
  [r \in Refs |-> IF r \in R /\ store[r].at = "stored" THEN [store[r] EXCEPT !.pins = 0] ELSE store[r]]

\* unpin: those that are still stored.
Unpinned(R, store) ==
  [r \in Refs |-> IF r \in R /\ store[r].at = "stored" /\ store[r].pins > 0
                  THEN [store[r] EXCEPT !.pins = @ - 1] ELSE store[r]]

\* expireSelection: the provider no longer offers what the reference stands for.
Withdraw(R) ==
  refs' = [r \in Refs |-> IF r \in R \cap Stored THEN [refs[r] EXCEPT !.at = "withdrawn", !.pins = 0]
                          ELSE refs[r]]
=============================================================================
