-------------------------- MODULE WatchStateProofs --------------------------
(***************************************************************************)
(* Theorems about WatchState and the tracking outbox, for any number of     *)
(* titles, any limit of the outbox, whatever the provider removes along     *)
(* with a title, and any bounds.                                            *)
(***************************************************************************)
EXTENDS WatchState, FiniteSetTheorems, WellFoundedInduction, TLAPS

-----------------------------------------------------------------------------
(* The largest of a set of numbers.                                        *)

LEMMA Smallest ==
  ASSUME NEW S, S \subseteq Nat, S # {}
  PROVE  \E m \in S : \A y \in S : m <= y
<1>1. PICK m \in S : \A y \in S : <<y, m>> \notin OpToRel(<, Nat)
  BY WFMin, NatLessThanWellFounded, Zenon
<1>2. \A y \in S : ~(y < m)
  BY <1>1, Zenon DEF OpToRel
<1> QED
  BY <1>2

LEMMA Largest ==
  ASSUME NEW S, S \subseteq Nat, S # {}, NEW n \in Nat, \A x \in S : x <= n
  PROVE  /\ Max(S) \in S
         /\ \A x \in S : x <= Max(S)
<1> DEFINE Bounds == {b \in Nat : \A x \in S : x <= b}
<1>1. PICK m \in Bounds : \A b \in Bounds : m <= b
  BY Smallest
<1>2. m \in S
  <2> SUFFICES ASSUME m \notin S PROVE FALSE
    OBVIOUS
  <2>1. m # 0
    <3>1. PICK x \in S : TRUE
      OBVIOUS
    <3> QED
      BY <3>1
  <2>2. m - 1 \in Bounds
    BY <2>1
  <2> QED
    BY <2>2, <1>1
<1>3. \A x \in S : m >= x
  OBVIOUS
<1> QED
  BY <1>2, <1>3 DEF Max

-----------------------------------------------------------------------------
(* Counting: of the rows kept, those that a new row replaces go.            *)

LEMMA ImageCount ==
  ASSUME NEW S, IsFiniteSet(S), NEW f
  PROVE  /\ IsFiniteSet({f[x] : x \in S})
         /\ Cardinality({f[x] : x \in S}) <= Cardinality(S)
<1> DEFINE g == [x \in S |-> f[x]]
<1>1. g \in Surjection(S, {f[x] : x \in S})
  BY DEF Surjection
<1> QED
  BY <1>1, FS_Surjection

\* `new` is K without what each e in E replaces, P[e], and with I[e] added; the e in M replace
\* nothing.
Replacement(K, E, P, I, M, new) ==
  /\ \A e \in E : P[e] \subseteq K
  /\ \A e, f \in E : e # f => P[e] \cap P[f] = {}
  /\ M = {e \in E : P[e] = {}}
  /\ new = (K \ UNION {P[e] : e \in E}) \cup {I[e] : e \in E}

LEMMA ReplacedCount ==
  ASSUME NEW K, IsFiniteSet(K), NEW E, IsFiniteSet(E), NEW P, NEW I, NEW M, NEW new,
         Replacement(K, E, P, I, M, new)
  PROVE  /\ IsFiniteSet(new)
         /\ Cardinality(new) <= Cardinality(K) + Cardinality(M)
<1> USE DEF Replacement
<1> DEFINE U == UNION {P[e] : e \in E}
           N == E \ M
           g == [e \in N |-> CHOOSE k \in P[e] : TRUE]
           Image == {I[e] : e \in E}
<1>0. M = {e \in E : P[e] = {}} /\ new = (K \ U) \cup Image
  OBVIOUS
<1>1. U \subseteq K /\ IsFiniteSet(U)
  BY FS_Subset
<1>2. IsFiniteSet(M) /\ IsFiniteSet(N) /\ Cardinality(E) = Cardinality(M) + Cardinality(N)
  <2>1. IsFiniteSet(M) /\ IsFiniteSet(N)
    BY <1>0, FS_Subset
  <2>2. M \cup N = E /\ M \cap N = {}
    BY <1>0
  <2>3. Cardinality(M \cup N) = Cardinality(M) + Cardinality(N) - Cardinality(M \cap N)
    BY <2>1, FS_Union
  <2>4. Cardinality(M) \in Nat /\ Cardinality(N) \in Nat /\ Cardinality({}) = 0
    BY <2>1, FS_CardinalityType, FS_EmptySet
  <2> HIDE DEF N
  <2>5. Cardinality(M \cup N) = Cardinality(E) /\ Cardinality(M \cap N) = 0
    BY <2>2, <2>4, Zenon
  <2> QED
    BY <2>1, <2>3, <2>4, <2>5
<1>3. Cardinality(N) <= Cardinality(U)
  <2>1. g \in [N -> U]
    OBVIOUS
  <2>2. \A e, f \in N : g[e] = g[f] => e = f
    OBVIOUS
  <2> HIDE DEF g, N, U
  <2>3. g \in Injection(N, U)
    BY <2>1, <2>2 DEF Injection, IsInjective
  <2> QED
    BY <2>3, <1>1, FS_Injection
<1>4. IsFiniteSet(K \ U) /\ Cardinality(K \ U) = Cardinality(K) - Cardinality(U)
  <2>1. IsFiniteSet(K \ U)
    BY FS_Subset
  <2>2. (K \ U) \cup U = K /\ (K \ U) \cap U = {}
    BY <1>1
  <2>3. Cardinality((K \ U) \cup U)
          = Cardinality(K \ U) + Cardinality(U) - Cardinality((K \ U) \cap U)
    BY <2>1, <1>1, FS_Union
  <2>4. Cardinality(K \ U) \in Nat /\ Cardinality(U) \in Nat /\ Cardinality({}) = 0
    BY <2>1, <1>1, FS_CardinalityType, FS_EmptySet
  <2> HIDE DEF U
  <2>5. /\ Cardinality((K \ U) \cup U) = Cardinality(K)
        /\ Cardinality((K \ U) \cap U) = 0
    BY <2>2, <2>4, Zenon
  <2> QED
    BY <2>1, <2>3, <2>4, <2>5
<1>5. IsFiniteSet(Image) /\ Cardinality(Image) <= Cardinality(E)
  BY ImageCount
<1> HIDE DEF U, N, Image
<1>6. /\ IsFiniteSet((K \ U) \cup Image)
      /\ Cardinality((K \ U) \cup Image)
           = Cardinality(K \ U) + Cardinality(Image) - Cardinality((K \ U) \cap Image)
  BY <1>4, <1>5, FS_Union
<1>7. Cardinality((K \ U) \cap Image) \in Nat
  BY <1>4, FS_Subset, FS_CardinalityType
<1>8. /\ Cardinality(U) \in Nat /\ Cardinality(M) \in Nat /\ Cardinality(N) \in Nat
      /\ Cardinality(K \ U) \in Nat /\ Cardinality(Image) \in Nat /\ Cardinality(K) \in Nat
      /\ Cardinality(E) \in Nat
  BY <1>1, <1>2, <1>4, <1>5, FS_CardinalityType
<1>9. Cardinality((K \ U) \cup Image) <= Cardinality(K) + Cardinality(M)
  BY <1>2, <1>3, <1>4, <1>5, <1>6, <1>7, <1>8
<1> QED
  BY <1>0, <1>6, <1>9

-----------------------------------------------------------------------------
(* The outbox: the part of the inductive invariant about [heads, rows,      *)
(* clock, ok], stated of any such record so that it can be used of the      *)
(* outbox half way through a seeding.                                       *)

RowTyped(r, s, types) ==
  /\ r = [id |-> r.id, title |-> r.title, type |-> r.type, key |-> r.key, value |-> r.value,
          seq |-> r.seq, lease |-> r.lease, due |-> r.due]
  /\ r.title \in Titles /\ r.type \in types
  /\ r.seq \in 1..s.clock
  /\ r.lease \in {"none", "held", "expired"} /\ r.due \in BOOLEAN
  /\ s.heads[r.title][r.type].at >= r.seq
  /\ \E n \in 1..s.clock : r.id = <<r.title, n>>

HeadsTyped(s) == \A t \in Titles, type \in Types : s.heads[t][type].at \in 0..s.clock

Shaped(s) ==
  /\ s = [heads |-> s.heads, rows |-> s.rows, clock |-> s.clock, ok |-> s.ok]
  /\ s.clock \in Nat \ {0}

Bounded(s) == IsFiniteSet(s.rows) /\ Cardinality(s.rows) <= OutboxLimit

IdsUnique(s) == \A r, q \in s.rows : r.id = q.id => r = q

OnePending(s) ==
  \A r, q \in s.rows :
    r.lease = "none" /\ q.lease = "none" /\ r.title = q.title /\ r.type = q.type => r = q

\* A row nobody has leased yet, or whose attempt failed, is not superseded.
PendingCurrent(s) == \A r \in s.rows : r.lease = "none" => Current(s.heads, r)

LibraryApart(s) == \A t \in Titles : ~s.heads[t]["library"].affects

OutboxInv(s, types) ==
  /\ Shaped(s) /\ HeadsTyped(s) /\ Bounded(s) /\ LibraryApart(s)
  /\ \A r \in s.rows : RowTyped(r, s, types)
  /\ IdsUnique(s) /\ OnePending(s) /\ PendingCurrent(s)

\* What is queued at once: one event of a title.
EventsSound(events) ==
  /\ IsFiniteSet(events)
  /\ \A e \in events : e.title \in Titles /\ e.type \in Types
  /\ \A e, f \in events : e.title = f.title => e = f

\* What enqueuing does to the rows there are: the leased ones stay, a new row has an id nobody
\* else has or had, but for the pending row it replaces, and a current row stays or gives way
\* to a newer one of its title.
Replaces(q, s) ==
  /\ q.lease = "none"
  /\ q.seq \in Nat /\ q.seq > s.clock
  /\ \/ \E n \in Nat : n > s.clock /\ q.id = <<q.title, n>>
     \/ \E p \in s.rows : p.lease = "none" /\ p.id = q.id

Succeeds(q, r, heads) ==
  /\ q.title = r.title /\ q.seq >= r.seq
  /\ Current(heads, q)
  /\ q = r \/ q.lease = "none"

\* The row q is of the type of r, or a newer one of a type that overrides it.
InPlace(q, r, s) == q.type = r.type \/ (q.type \in Overrides[r.type] /\ q.seq > s.clock)

Extends(s, n) ==
  /\ n.clock >= s.clock
  /\ \A r \in s.rows : r.lease # "none" => r \in n.rows
  /\ \A q \in n.rows : q \in s.rows \/ Replaces(q, s)
  /\ \A r \in s.rows : Current(s.heads, r) =>
       \E q \in n.rows : Succeeds(q, r, n.heads) /\ InPlace(q, r, s)

LEMMA ExtendsItself ==
  ASSUME NEW s, NEW types, OutboxInv(s, types)
  PROVE  Extends(s, s)
BY DEF Extends, Succeeds, InPlace, OutboxInv, Shaped, RowTyped

LEMMA ExtendsOn ==
  ASSUME NEW s, NEW m, NEW n, NEW types \in SUBSET Types, OutboxInv(s, types),
         OutboxInv(m, types), OutboxInv(n, types), Extends(s, m), Extends(m, n)
  PROVE  Extends(s, n)
<1>1. s.clock \in Nat /\ m.clock \in Nat /\ n.clock \in Nat /\ n.clock >= s.clock
  BY DEF Extends, OutboxInv, Shaped
<1>2. \A r \in s.rows : r.lease # "none" => r \in n.rows
  BY DEF Extends
<1>3. ASSUME NEW q \in n.rows, q \notin s.rows PROVE Replaces(q, s)
  <2>1. CASE q \in m.rows
    BY <1>3, <2>1 DEF Extends
  <2>2. CASE q \notin m.rows
    <3>1. Replaces(q, m)
      BY <1>3, <2>2 DEF Extends
    <3>2. q.lease = "none" /\ q.seq \in Nat /\ q.seq > s.clock
      BY <3>1, <1>1 DEF Replaces, Extends
    <3>3. CASE \E k \in Nat : k > m.clock /\ q.id = <<q.title, k>>
      <4>1. \E k \in Nat : k > s.clock /\ q.id = <<q.title, k>>
        BY <3>3, <1>1 DEF Extends
      <4> QED
        BY <4>1, <3>2 DEF Replaces
    <3>4. CASE \E p \in m.rows : p.lease = "none" /\ p.id = q.id
      <4>1. PICK p \in m.rows : p.lease = "none" /\ p.id = q.id
        BY <3>4
      <4>2. q.title = p.title
        BY <4>1 DEF OutboxInv, RowTyped
      <4>3. p \in s.rows \/ Replaces(p, s)
        BY DEF Extends
      <4> QED
        BY <4>1, <4>2, <4>3, <3>2 DEF Replaces
    <3> QED
      BY <3>1, <3>3, <3>4 DEF Replaces
  <2> QED
    BY <2>1, <2>2
<1>4. ASSUME NEW r \in s.rows, Current(s.heads, r)
      PROVE  \E q \in n.rows : Succeeds(q, r, n.heads) /\ InPlace(q, r, s)
  <2>1. PICK p \in m.rows : Succeeds(p, r, m.heads) /\ InPlace(p, r, s)
    BY <1>4 DEF Extends
  <2>2. PICK q \in n.rows : Succeeds(q, p, n.heads) /\ InPlace(q, p, m)
    BY <2>1 DEF Extends, Succeeds
  <2>3. r.seq \in Nat /\ p.seq \in Nat /\ q.seq \in Nat
    BY DEF OutboxInv, RowTyped
  <2>4. Succeeds(q, r, n.heads)
    BY <2>1, <2>2, <2>3 DEF Succeeds
  <2>5. r.type \in Types /\ p.type \in Types /\ q.type \in Types
    BY DEF OutboxInv, RowTyped
  <2>6. InPlace(q, r, s)
    <3>1. q.seq >= p.seq /\ m.clock >= s.clock
      BY <2>2 DEF Succeeds, Extends
    <3>2. CASE p.type = r.type
      BY <1>1, <2>2, <2>3, <3>1, <3>2 DEF InPlace
    <3>3. CASE p.type \in Overrides[r.type] /\ p.seq > s.clock
      <4>1. q.type = p.type \/ q.type = r.type
        BY <2>2, <2>5, <3>3 DEF InPlace, Overrides, Types
      <4> QED
        BY <1>1, <2>3, <3>1, <3>3, <4>1 DEF InPlace
    <3> QED
      BY <2>1, <3>2, <3>3 DEF InPlace
  <2> QED
    BY <2>4, <2>6
<1> QED
  BY <1>1, <1>2, <1>3, <1>4 DEF Extends

-----------------------------------------------------------------------------
(* Enqueue.                                                                *)

LEMMA RefusedShape ==
  ASSUME NEW s, Shaped(s)
  PROVE  LET n == [s EXCEPT !.ok = FALSE] IN
         n.heads = s.heads /\ n.rows = s.rows /\ n.clock = s.clock /\ Shaped(n)
<1> DEFINE h == s.heads  r == s.rows  c == s.clock  ok == s.ok
           n == [s EXCEPT !.ok = FALSE]
<1>1. s = [heads |-> h, rows |-> r, clock |-> c, ok |-> ok] /\ c \in Nat \ {0}
  BY DEF Shaped
<1> HIDE DEF h, r, c, ok
<1>2. n = [heads |-> h, rows |-> r, clock |-> c, ok |-> FALSE]
  <2> DEFINE v == FALSE
  <2> HIDE DEF v
  <2>1. [s EXCEPT !.ok = v] = [heads |-> h, rows |-> r, clock |-> c, ok |-> v]
    BY <1>1
  <2> QED
    BY <2>1, Zenon DEF v
<1>3. s.heads = h /\ s.rows = r /\ s.clock = c
  BY <1>1
<1> HIDE DEF n
<1>4. n.heads = h /\ n.rows = r /\ n.clock = c /\ n.ok = FALSE
  BY <1>2
<1>5. Shaped(n)
  BY <1>1, <1>2, <1>4 DEF Shaped
<1> QED
  BY <1>3, <1>4, <1>5 DEF n

LEMMA EnqueueKeeps ==
  ASSUME NEW s, NEW connected, NEW types \in SUBSET Types, OutboxInv(s, types),
         NEW events, EventsSound(events)
  PROVE  /\ OutboxInv(Enqueue(s, connected, types, events), types)
         /\ Extends(s, Enqueue(s, connected, types, events))
<1> DEFINE now == s.clock + 1
           enabled == {e \in events : connected /\ e.type \in types}
           heads == [t \in Titles |-> [type \in Types |->
                      IF \E e \in enabled : e.title = t /\ e.type = type
                      THEN LET e == CHOOSE e \in enabled : e.title = t /\ e.type = type
                           IN [key |-> e.key, affects |-> AffectsWatched(e), at |-> now]
                      ELSE s.heads[t][type]]]
           kept == {r \in s.rows : r.lease # "none" \/ Current(heads, r)}
           Inserted(e) ==
             [id |-> IF Pending(kept, e) = {} THEN <<e.title, now>>
                     ELSE (CHOOSE r \in Pending(kept, e) : TRUE).id,
              title |-> e.title, type |-> e.type, key |-> e.key, value |-> e.value,
              seq |-> now, lease |-> "none", due |-> TRUE]
           gone == UNION {Pending(kept, e) : e \in enabled}
           new == {Inserted(e) : e \in enabled}
           rows == (kept \ gone) \cup new
           full == Cardinality(kept) + Cardinality(Missing(kept, enabled)) > OutboxLimit
           after == [heads |-> heads, clock |-> now, ok |-> TRUE, rows |-> rows]
<1>1. Enqueue(s, connected, types, events) =
        IF events = {} \/ ~s.ok THEN s
        ELSE IF full THEN [s EXCEPT !.ok = FALSE] ELSE after
  BY DEF Enqueue
<1>2. CASE Enqueue(s, connected, types, events) = s
  BY <1>2, ExtendsItself
<1>3. CASE Enqueue(s, connected, types, events) = [s EXCEPT !.ok = FALSE]
  <2> DEFINE n == [s EXCEPT !.ok = FALSE]
  <2>1. n.heads = s.heads /\ n.rows = s.rows /\ n.clock = s.clock /\ Shaped(n)
    BY RefusedShape DEF OutboxInv
  <2> HIDE DEF n
  <2>2. OutboxInv(n, types)
    BY <2>1 DEF OutboxInv, HeadsTyped, Bounded, LibraryApart, RowTyped, IdsUnique, OnePending,
                PendingCurrent
  <2>3. Extends(s, n)
    BY <2>1, ExtendsItself DEF Extends, Replaces
  <2> QED
    BY <1>3, <2>2, <2>3 DEF n
<1>4. CASE ~full /\ Enqueue(s, connected, types, events) = after
  <2> USE DEF EventsSound
  <2>1. s.clock \in Nat /\ now \in Nat /\ now > s.clock /\ now # 0
    BY DEF OutboxInv, Shaped
  <2>2. \A r \in s.rows : RowTyped(r, s, types)
    BY DEF OutboxInv
  <2> HIDE DEF now
  <2>3. \A e \in enabled : e.title \in Titles /\ e.type \in types /\ e.type \in Types
    OBVIOUS
  <2>4. \A e, f \in enabled : e.title = f.title => e = f
    OBVIOUS
  <2>5. IsFiniteSet(enabled)
    BY FS_Subset
  <2> HIDE DEF enabled
  \* The heads.
  <2>6. \A t \in Titles, type \in Types :
           ~(\E e \in enabled : e.title = t /\ e.type = type) => heads[t][type] = s.heads[t][type]
    OBVIOUS
  <2>7. ASSUME NEW e \in enabled
        PROVE  /\ heads[e.title][e.type].key = e.key
               /\ heads[e.title][e.type].at = now
               /\ heads[e.title][e.type].affects <=> AffectsWatched(e)
    <3> DEFINE chosen == CHOOSE f \in enabled : f.title = e.title /\ f.type = e.type
    <3>1. chosen \in enabled /\ chosen.title = e.title
      OBVIOUS
    <3>2. chosen = e
      BY <3>1, <2>4
    <3> HIDE DEF chosen
    <3> DEFINE affects == AffectsWatched(chosen)
    <3>3. heads[e.title][e.type] = [key |-> chosen.key, affects |-> affects, at |-> now]
      BY <2>3 DEF chosen
    <3>4. affects <=> AffectsWatched(e)
      BY <3>2
    <3> HIDE DEF affects, heads
    <3>5. /\ heads[e.title][e.type].key = chosen.key /\ heads[e.title][e.type].at = now
          /\ heads[e.title][e.type].affects = affects
      BY <3>3
    <3> QED
      BY <3>2, <3>4, <3>5
  <2>8. \A t \in Titles, type \in Types :
          /\ heads[t][type].at \in 0..now
          /\ heads[t][type].at = now \/ heads[t][type].at = s.heads[t][type].at
    <3> SUFFICES ASSUME NEW t \in Titles, NEW type \in Types
                 PROVE  /\ heads[t][type].at \in 0..now
                        /\ heads[t][type].at = now \/ heads[t][type].at = s.heads[t][type].at
      OBVIOUS
    <3>1. s.heads[t][type].at \in 0..now
      BY <2>1 DEF OutboxInv, HeadsTyped
    <3>2. CASE \E e \in enabled : e.title = t /\ e.type = type
      BY <3>2, <2>7, <2>1
    <3>3. CASE ~\E e \in enabled : e.title = t /\ e.type = type
      BY <3>3, <3>1, <2>6
    <3> QED
      BY <3>2, <3>3
  <2>9. ASSUME NEW r, r.title \in Titles, r.type \in Types, ~\E e \in enabled : e.title = r.title
        PROVE  Current(heads, r) <=> Current(s.heads, r)
    <3>1. \A type \in Types : heads[r.title][type] = s.heads[r.title][type]
      BY <2>6, <2>9
    <3> HIDE DEF heads
    <3> QED
      BY <3>1, <2>9 DEF Current
  <2> HIDE DEF heads
  \* The rows kept.
  <2>10. kept \subseteq s.rows /\ IsFiniteSet(kept)
    BY FS_Subset DEF OutboxInv, Bounded
  <2>11. \A r \in s.rows : r.lease # "none" \/ Current(heads, r) => r \in kept
    OBVIOUS
  <2>12. \A r \in kept : r.lease = "none" => Current(heads, r)
    OBVIOUS
  <2> HIDE DEF kept
  <2>13. \A e \in enabled : \A r :
           r \in Pending(kept, e) <=>
             r \in kept /\ r.title = e.title /\ r.type = e.type /\ r.lease = "none"
    BY DEF Pending
  \* The rows inserted.
  <2>14. \A e \in enabled :
           /\ Inserted(e) = [id |-> Inserted(e).id, title |-> e.title, type |-> e.type,
                             key |-> e.key, value |-> e.value, seq |-> now, lease |-> "none",
                             due |-> TRUE]
           /\ Inserted(e).title = e.title /\ Inserted(e).type = e.type
           /\ Inserted(e).key = e.key /\ Inserted(e).seq = now
           /\ Inserted(e).lease = "none" /\ Inserted(e).due = TRUE
    OBVIOUS
  <2>15. ASSUME NEW e \in enabled
         PROVE  \/ Inserted(e).id = <<e.title, now>> /\ Pending(kept, e) = {}
                \/ \E p \in Pending(kept, e) : Inserted(e).id = p.id
    OBVIOUS
  <2> HIDE DEF Inserted
  <2>16. \A e \in enabled : Current(heads, Inserted(e))
    <3> SUFFICES ASSUME NEW e \in enabled
                 PROVE  Current(heads, Inserted(e))
      OBVIOUS
    <3>1. \A type \in Types : ~(heads[e.title][type].at > now)
      BY <2>8, <2>3, <2>1
    <3> QED
      BY <3>1, <2>7, <2>14 DEF Current
  <2>17. \A e \in enabled : \E n \in 1..now : Inserted(e).id = <<e.title, n>>
    <3> SUFFICES ASSUME NEW e \in enabled
                 PROVE  \E n \in 1..now : Inserted(e).id = <<e.title, n>>
      OBVIOUS
    <3>1. CASE \E p \in Pending(kept, e) : Inserted(e).id = p.id
      <4>1. PICK p \in Pending(kept, e) : Inserted(e).id = p.id
        BY <3>1
      <4>2. p \in s.rows /\ p.title = e.title
        BY <2>10, <2>13
      <4>3. PICK n \in 1..s.clock : p.id = <<p.title, n>>
        BY <4>2, <2>2 DEF RowTyped
      <4> QED
        BY <4>1, <4>2, <4>3, <2>1
    <3>2. CASE Inserted(e).id = <<e.title, now>>
      BY <3>2, <2>1
    <3> QED
      BY <3>1, <3>2, <2>15
  <2>18. \A e \in enabled : RowTyped(Inserted(e), after, types)
    <3> SUFFICES ASSUME NEW e \in enabled
                 PROVE  RowTyped(Inserted(e), after, types)
      OBVIOUS
    <3>1. after.clock = now /\ after.heads = heads
      OBVIOUS
    <3> HIDE DEF after
    <3>2. now \in 1..now /\ now >= now
      BY <2>1
    <3>3. Inserted(e) = [id |-> Inserted(e).id, title |-> Inserted(e).title,
                         type |-> Inserted(e).type, key |-> Inserted(e).key,
                         value |-> Inserted(e).value, seq |-> Inserted(e).seq,
                         lease |-> Inserted(e).lease, due |-> Inserted(e).due]
      BY <2>14
    <3>4. after.heads[Inserted(e).title][Inserted(e).type].at >= Inserted(e).seq
      BY <3>1, <3>2, <2>7, <2>14
    <3>5. \E n \in 1..after.clock : Inserted(e).id = <<Inserted(e).title, n>>
      BY <3>1, <2>14, <2>17
    <3> QED
      BY <3>1, <3>2, <3>3, <3>4, <3>5, <2>3, <2>14 DEF RowTyped
  <2>19. \A r \in kept : RowTyped(r, after, types)
    <3> SUFFICES ASSUME NEW r \in kept
                 PROVE  RowTyped(r, after, types)
      OBVIOUS
    <3>1. after.clock = now /\ after.heads = heads
      OBVIOUS
    <3> HIDE DEF after
    <3>2. RowTyped(r, s, types)
      BY <2>2, <2>10
    <3>3. heads[r.title][r.type].at >= r.seq
      <4>1. r.seq \in 1..s.clock /\ r.title \in Titles /\ r.type \in Types
        BY <3>2 DEF RowTyped
      <4>2. s.heads[r.title][r.type].at >= r.seq
        BY <3>2 DEF RowTyped
      <4>3. heads[r.title][r.type].at = now
              \/ heads[r.title][r.type].at = s.heads[r.title][r.type].at
        BY <4>1, <2>8
      <4> QED
        BY <4>1, <4>2, <4>3, <2>1
    <3>4. r.seq \in 1..now
      BY <3>2, <2>1 DEF RowTyped
    <3>5. \E n \in 1..now : r.id = <<r.title, n>>
      BY <3>2, <2>1 DEF RowTyped
    <3> QED
      BY <3>1, <3>2, <3>3, <3>4, <3>5 DEF RowTyped
  <2>20. rows \subseteq kept \cup new /\ new \subseteq rows /\ kept \ gone \subseteq rows
    OBVIOUS
  <2>21. \A r \in kept \ gone : \A e \in enabled : r \notin Pending(kept, e)
    OBVIOUS
  <2>22. \A r \in new : \E e \in enabled : r = Inserted(e)
    OBVIOUS
  <2>23. \A r \in kept : r \in gone => r.lease = "none"
    BY <2>13
  <2>24. Bounded(after)
    <3> DEFINE P == [e \in enabled |-> Pending(kept, e)]
               I == [e \in enabled |-> Inserted(e)]
    <3>1. \A e \in enabled : P[e] \subseteq kept
      BY <2>13
    <3>2. \A e, f \in enabled : e # f => P[e] \cap P[f] = {}
      BY <2>4, <2>13
    <3>3. /\ \A e \in enabled : P[e] = Pending(kept, e) /\ I[e] = Inserted(e)
          /\ gone = UNION {P[e] : e \in enabled}
          /\ new = {I[e] : e \in enabled}
          /\ Missing(kept, enabled) = {e \in enabled : P[e] = {}}
      BY DEF Missing
    <3> HIDE DEF P, I, gone, new
    <3>4. /\ IsFiniteSet(rows)
          /\ Cardinality(rows) <= Cardinality(kept) + Cardinality(Missing(kept, enabled))
      <4>1. Replacement(kept, enabled, P, I, Missing(kept, enabled), rows)
        BY <3>1, <3>2, <3>3 DEF Replacement
      <4> HIDE DEF rows, after
      <4> QED
        BY <4>1, <2>5, <2>10, ReplacedCount
    <3>5. Cardinality(kept) \in Nat /\ Cardinality(Missing(kept, enabled)) \in Nat
          /\ Cardinality(rows) \in Nat
      BY <3>3, <3>4, <2>5, <2>10, FS_Subset, FS_CardinalityType
    <3>6. Cardinality(kept) + Cardinality(Missing(kept, enabled)) <= OutboxLimit
      BY <1>4, <3>5, OutboxAssumption
    <3>7. after.rows = rows
      OBVIOUS
    <3> HIDE DEF rows, after
    <3> QED
      BY <3>3, <3>4, <3>5, <3>6, <3>7, OutboxAssumption DEF Bounded
  <2> HIDE DEF gone, new, rows
  <2>25. after.heads = heads /\ after.rows = rows /\ after.clock = now /\ Shaped(after)
    BY <2>1 DEF Shaped
  <2> HIDE DEF after
  <2>26. HeadsTyped(after)
    BY <2>8, <2>25 DEF HeadsTyped
  <2>27. \A r \in after.rows : RowTyped(r, after, types)
    BY <2>18, <2>19, <2>20, <2>22, <2>25
  <2>28. ASSUME NEW r \in kept \ gone, NEW e \in enabled
         PROVE  r.id # Inserted(e).id
    <3> SUFFICES ASSUME r.id = Inserted(e).id PROVE FALSE
      OBVIOUS
    <3>1. PICK n \in 1..s.clock : r.id = <<r.title, n>>
      BY <2>2, <2>10 DEF RowTyped
    <3>2. Inserted(e).id # <<e.title, now>>
      BY <3>1, <2>1
    <3>3. PICK p \in Pending(kept, e) : Inserted(e).id = p.id
      BY <3>2, <2>15
    <3>4. p \in s.rows /\ r \in s.rows
      BY <2>10, <2>13
    <3>5. p = r
      BY <3>3, <3>4 DEF OutboxInv, IdsUnique
    <3> QED
      BY <3>5, <2>21
  <2>29. IdsUnique(after)
    <3> SUFFICES ASSUME NEW r \in rows, NEW q \in rows, r.id = q.id
                 PROVE  r = q
      BY <2>25 DEF IdsUnique
    <3>1. CASE r \in kept \ gone /\ q \in kept \ gone
      BY <3>1, <2>10 DEF OutboxInv, IdsUnique
    <3>2. CASE r \in kept \ gone /\ q \in new
      BY <3>2, <2>22, <2>28
    <3>3. CASE r \in new /\ q \in kept \ gone
      BY <3>3, <2>22, <2>28
    <3>4. CASE r \in new /\ q \in new
      <4>1. PICK e \in enabled, f \in enabled : r = Inserted(e) /\ q = Inserted(f)
        BY <3>4, <2>22
      <4>2. e.title = f.title
        BY <4>1, <2>17
      <4> QED
        BY <4>1, <4>2, <2>4
    <3> QED
      BY <3>1, <3>2, <3>3, <3>4 DEF rows
  <2>30. OnePending(after)
    <3> SUFFICES ASSUME NEW r \in rows, NEW q \in rows, r.lease = "none", q.lease = "none",
                        r.title = q.title, r.type = q.type
                 PROVE  r = q
      BY <2>25 DEF OnePending
    <3>1. CASE r \in kept \ gone /\ q \in kept \ gone
      BY <3>1, <2>10 DEF OutboxInv, OnePending
    <3>2. CASE r \in kept \ gone /\ q \in new
      BY <3>2, <2>13, <2>14, <2>21, <2>22
    <3>3. CASE r \in new /\ q \in kept \ gone
      BY <3>3, <2>13, <2>14, <2>21, <2>22
    <3>4. CASE r \in new /\ q \in new
      BY <3>4, <2>4, <2>14, <2>22
    <3> QED
      BY <3>1, <3>2, <3>3, <3>4 DEF rows
  <2>31. PendingCurrent(after)
    BY <2>12, <2>16, <2>20, <2>22, <2>25 DEF PendingCurrent
  <2>32. OutboxInv(after, types)
    <3>1. LibraryApart(after)
      <4> SUFFICES ASSUME NEW t \in Titles PROVE ~heads[t]["library"].affects
        BY <2>25 DEF LibraryApart
      <4>1. CASE \E e \in enabled : e.title = t /\ e.type = "library"
        BY <4>1, <2>7 DEF AffectsWatched
      <4>2. CASE ~\E e \in enabled : e.title = t /\ e.type = "library"
        BY <4>2, <2>6 DEF OutboxInv, LibraryApart, Types
      <4> QED
        BY <4>1, <4>2
    <3> QED
      BY <3>1, <2>24, <2>25, <2>26, <2>27, <2>29, <2>30, <2>31 DEF OutboxInv
  <2>33. \A r \in s.rows : r.lease # "none" => r \in after.rows
    BY <2>11, <2>20, <2>23, <2>25
  <2>34. ASSUME NEW q \in after.rows, q \notin s.rows PROVE Replaces(q, s)
    <3>1. PICK e \in enabled : q = Inserted(e)
      BY <2>34, <2>10, <2>20, <2>22, <2>25
    <3>2. CASE q.id = <<e.title, now>>
      BY <3>1, <3>2, <2>1, <2>14 DEF Replaces
    <3>3. CASE \E p \in Pending(kept, e) : q.id = p.id
      <4>1. PICK p \in Pending(kept, e) : q.id = p.id
        BY <3>3
      <4>2. p \in s.rows /\ p.lease = "none"
        BY <2>10, <2>13
      <4> QED
        BY <3>1, <4>1, <4>2, <2>1, <2>14 DEF Replaces
    <3> QED
      BY <3>1, <3>2, <3>3, <2>15
  <2>35. ASSUME NEW r \in s.rows, Current(s.heads, r)
         PROVE  \E q \in after.rows : Succeeds(q, r, after.heads) /\ InPlace(q, r, s)
    <3>1. r.title \in Titles /\ r.type \in Types /\ r.seq \in Nat /\ r.seq <= s.clock
      BY <2>2 DEF RowTyped
    <3>2. ASSUME NEW e \in enabled, e.title = r.title
          PROVE  Inserted(e) \in after.rows /\ Succeeds(Inserted(e), r, after.heads)
      <4>1. Inserted(e) \in after.rows
        BY <2>20, <2>25 DEF new
      <4>2. Succeeds(Inserted(e), r, after.heads)
        BY <3>1, <3>2, <2>1, <2>14, <2>16, <2>25 DEF Succeeds
      <4> QED
        BY <4>1, <4>2
    <3>3. CASE \E e \in enabled : e.title = r.title /\ e.type = r.type
      BY <3>2, <3>3, <2>14 DEF InPlace
    <3>4. CASE ~(\E e \in enabled : e.title = r.title /\ e.type = r.type) /\ Current(heads, r)
      <4>1. r \in kept /\ r \notin gone
        BY <3>4, <2>11, <2>13 DEF gone
      <4>2. r \in after.rows
        BY <4>1, <2>20, <2>25
      <4>3. Succeeds(r, r, after.heads) /\ InPlace(r, r, s)
        BY <3>1, <3>4, <2>25 DEF Succeeds, InPlace
      <4> QED
        BY <4>2, <4>3
    <3>5. CASE ~(\E e \in enabled : e.title = r.title /\ e.type = r.type) /\ ~Current(heads, r)
      <4>1. heads[r.title][r.type] = s.heads[r.title][r.type]
        BY <3>1, <3>5, <2>6
      <4>2. PICK type \in Types : /\ heads[r.title][type].at > heads[r.title][r.type].at
                                  /\ heads[r.title][r.type].affects /\ heads[r.title][type].affects
        BY <3>5, <4>1, <2>35 DEF Current
      <4>3. heads[r.title][type] # s.heads[r.title][type]
        BY <4>1, <4>2, <2>35 DEF Current
      <4>4. PICK e \in enabled : e.title = r.title /\ e.type = type
        BY <3>1, <4>3, <2>6
      <4>5. AffectsWatched(e) /\ type # r.type
        BY <3>5, <4>2, <4>4, <2>7
      <4>6. type \in Overrides[r.type]
        <5>1. type \in {"watched", "progress"}
          BY <4>4, <4>5 DEF AffectsWatched
        <5>2. r.type # "library"
          BY <3>1, <4>1, <4>2 DEF OutboxInv, LibraryApart
        <5> QED
          BY <3>1, <4>5, <5>1, <5>2 DEF Overrides
      <4>7. InPlace(Inserted(e), r, s)
        BY <4>4, <4>6, <2>1, <2>14 DEF InPlace
      <4> QED
        BY <3>2, <4>4, <4>7
    <3> QED
      BY <3>3, <3>4, <3>5
  <2>36. Extends(s, after)
    BY <2>1, <2>25, <2>33, <2>34, <2>35 DEF Extends
  <2> QED
    BY <1>4, <2>32, <2>36
<1> HIDE DEF full, after
<1> QED
  BY <1>1, <1>2, <1>3, <1>4

-----------------------------------------------------------------------------
(* The other steps on the outbox: rows deleted, and one row marked.         *)

LEMMA WithRows ==
  ASSUME NEW s, Shaped(s), NEW R, NEW n, n = [s EXCEPT !.rows = R]
  PROVE  n.heads = s.heads /\ n.rows = R /\ n.clock = s.clock /\ Shaped(n)
<1> DEFINE h == s.heads  r == s.rows  c == s.clock  ok == s.ok
<1>1. s = [heads |-> h, rows |-> r, clock |-> c, ok |-> ok] /\ c \in Nat \ {0}
  BY DEF Shaped
<1> HIDE DEF h, r, c, ok
<1>2. n = [heads |-> h, rows |-> R, clock |-> c, ok |-> ok]
  BY <1>1
<1>3. s.heads = h /\ s.clock = c
  BY <1>1
<1>4. n.heads = h /\ n.rows = R /\ n.clock = c /\ n.ok = ok
  BY <1>2
<1>5. Shaped(n)
  BY <1>1, <1>2, <1>4 DEF Shaped
<1> QED
  BY <1>3, <1>4, <1>5

LEMMA RowsDeleted ==
  ASSUME NEW s, NEW n, NEW types, NEW left, OutboxInv(s, types),
         n.heads = s.heads, n.clock = s.clock, Shaped(n),
         n.rows \subseteq s.rows, \A r \in n.rows : r.type \in left
  PROVE  OutboxInv(n, left)
<1>1. Bounded(n)
  <2>1. IsFiniteSet(s.rows) /\ Cardinality(s.rows) <= OutboxLimit
    BY DEF OutboxInv, Bounded
  <2>2. IsFiniteSet(n.rows) /\ Cardinality(n.rows) <= Cardinality(s.rows)
    BY <2>1, FS_Subset
  <2>3. Cardinality(n.rows) \in Nat /\ Cardinality(s.rows) \in Nat
    BY <2>1, <2>2, FS_CardinalityType
  <2> QED
    BY <2>1, <2>2, <2>3, OutboxAssumption DEF Bounded
<1>2. \A r \in n.rows : RowTyped(r, n, left)
  BY DEF OutboxInv, RowTyped
<1>3. HeadsTyped(n) /\ LibraryApart(n) /\ IdsUnique(n) /\ OnePending(n) /\ PendingCurrent(n)
  BY DEF OutboxInv, HeadsTyped, LibraryApart, IdsUnique, OnePending, PendingCurrent
<1> QED
  BY <1>1, <1>2, <1>3 DEF OutboxInv

\* m is the row r with another lease or another time of its next attempt.
Marked(m, r) ==
  /\ m = [id |-> r.id, title |-> r.title, type |-> r.type, key |-> r.key, value |-> r.value,
          seq |-> r.seq, lease |-> m.lease, due |-> m.due]
  /\ m.id = r.id /\ m.title = r.title /\ m.type = r.type /\ m.key = r.key
  /\ m.value = r.value /\ m.seq = r.seq
  /\ m.lease \in {"none", "held", "expired"} /\ m.due \in BOOLEAN

LEMMA MarkedRow ==
  ASSUME NEW r, NEW s, NEW types, RowTyped(r, s, types)
  PROVE  /\ \A lease \in {"none", "held", "expired"} :
              /\ Marked([r EXCEPT !.lease = lease], r)
              /\ [r EXCEPT !.lease = lease].lease = lease
         /\ Marked([r EXCEPT !.due = TRUE], r) /\ [r EXCEPT !.due = TRUE].lease = r.lease
         /\ Marked([r EXCEPT !.lease = "none", !.due = FALSE], r)
         /\ [r EXCEPT !.lease = "none", !.due = FALSE].lease = "none"
<1> DEFINE id == r.id  title == r.title  type == r.type  key == r.key  value == r.value
           seq == r.seq  l == r.lease  d == r.due  yes == TRUE  no == FALSE
           free == [r EXCEPT !.lease = "none"]
<1>1. r = [id |-> id, title |-> title, type |-> type, key |-> key, value |-> value,
           seq |-> seq, lease |-> l, due |-> d]
  BY DEF RowTyped
<1>2. l \in {"none", "held", "expired"} /\ d \in BOOLEAN
  BY DEF RowTyped
<1> HIDE DEF id, title, type, key, value, seq, l, d, yes, no, free
<1>3. \A lease : [r EXCEPT !.lease = lease]
        = [id |-> id, title |-> title, type |-> type, key |-> key, value |-> value,
           seq |-> seq, lease |-> lease, due |-> d]
  BY <1>1
<1>4. [r EXCEPT !.due = yes]
        = [id |-> id, title |-> title, type |-> type, key |-> key, value |-> value,
           seq |-> seq, lease |-> l, due |-> yes]
  BY <1>1
<1>5. free = [id |-> id, title |-> title, type |-> type, key |-> key, value |-> value,
              seq |-> seq, lease |-> "none", due |-> d]
  BY <1>3 DEF free
<1>6. [r EXCEPT !.lease = "none", !.due = no] = [free EXCEPT !.due = no]
  BY Zenon DEF free
<1>7. [free EXCEPT !.due = no]
        = [id |-> id, title |-> title, type |-> type, key |-> key, value |-> value,
           seq |-> seq, lease |-> "none", due |-> no]
  BY <1>5
<1>8. /\ r.id = id /\ r.title = title /\ r.type = type /\ r.key = key /\ r.value = value
      /\ r.seq = seq /\ r.lease = l /\ r.due = d
  BY <1>1
<1>9. \A lease \in {"none", "held", "expired"} :
         Marked([r EXCEPT !.lease = lease], r) /\ [r EXCEPT !.lease = lease].lease = lease
  BY <1>2, <1>3, <1>8 DEF Marked
<1>10. yes \in BOOLEAN /\ no \in BOOLEAN
  BY DEF yes, no
<1>11. Marked([r EXCEPT !.due = yes], r) /\ [r EXCEPT !.due = yes].lease = r.lease
  BY <1>2, <1>4, <1>8, <1>10 DEF Marked
<1>12. /\ Marked([r EXCEPT !.lease = "none", !.due = no], r)
       /\ [r EXCEPT !.lease = "none", !.due = no].lease = "none"
  <2> DEFINE m == [r EXCEPT !.lease = "none", !.due = no]
  <2>1. m = [id |-> id, title |-> title, type |-> type, key |-> key, value |-> value,
             seq |-> seq, lease |-> "none", due |-> no]
    BY <1>6, <1>7, Zenon
  <2> HIDE DEF m
  <2>2. Marked(m, r) /\ m.lease = "none"
    BY <2>1, <1>8, <1>10 DEF Marked
  <2> QED
    BY <2>2 DEF m
<1> QED
  BY <1>9, <1>11, <1>12, Zenon DEF yes, no

LEMMA MarkedKeeps ==
  ASSUME NEW s, NEW n, NEW types, OutboxInv(s, types), NEW r \in s.rows, NEW m, Marked(m, r),
         n.heads = s.heads, n.clock = s.clock, Shaped(n), n.rows = (s.rows \ {r}) \cup {m},
         m.lease = "none" => /\ Current(s.heads, r)
                             /\ \A q \in s.rows : q.lease = "none" /\ q.title = r.title
                                                    /\ q.type = r.type => q = r
  PROVE  OutboxInv(n, types)
<1>1. Bounded(n)
  <2>1. IsFiniteSet(s.rows) /\ Cardinality(s.rows) <= OutboxLimit /\ Cardinality(s.rows) \in Nat
    BY FS_CardinalityType DEF OutboxInv, Bounded
  <2> DEFINE others == s.rows \ {r}
  <2>2. IsFiniteSet(others) /\ Cardinality(others) = Cardinality(s.rows) - 1
    BY <2>1, FS_RemoveElement
  <2>3. n.rows = others \cup {m}
    OBVIOUS
  <2> HIDE DEF others
  <2>4. /\ IsFiniteSet(others \cup {m})
        /\ \/ Cardinality(others \cup {m}) = Cardinality(others)
           \/ Cardinality(others \cup {m}) = Cardinality(others) + 1
    BY <2>2, FS_AddElement
  <2>5. /\ IsFiniteSet(n.rows)
        /\ Cardinality(n.rows) = Cardinality(s.rows) - 1
             \/ Cardinality(n.rows) = Cardinality(s.rows) - 1 + 1
    BY <2>2, <2>3, <2>4
  <2> QED
    BY <2>1, <2>5, OutboxAssumption DEF Bounded
<1>2. \A q \in n.rows : q = m \/ (q \in s.rows /\ q # r)
  OBVIOUS
<1>3. RowTyped(r, s, types)
  BY DEF OutboxInv
<1>4. RowTyped(m, n, types)
  BY <1>3 DEF RowTyped, Marked
<1>5. \A q \in n.rows : RowTyped(q, n, types)
  BY <1>2, <1>4 DEF OutboxInv, RowTyped
<1>6. HeadsTyped(n) /\ LibraryApart(n)
  BY DEF OutboxInv, HeadsTyped, LibraryApart
<1>7. IdsUnique(n)
  BY <1>2 DEF OutboxInv, IdsUnique, Marked
<1>8. OnePending(n)
  BY <1>2 DEF OutboxInv, OnePending, Marked
<1>9. PendingCurrent(n)
  <2>1. Current(s.heads, m) <=> Current(s.heads, r)
    BY DEF Current, Marked
  <2> QED
    BY <1>2, <2>1 DEF OutboxInv, PendingCurrent
<1> QED
  BY <1>1, <1>5, <1>6, <1>7, <1>8, <1>9 DEF OutboxInv

-----------------------------------------------------------------------------
(* The inductive invariant.                                                *)

\* The row the worker holds: nobody touches it but the changes that delete it, every other row
\* of its title is younger, and until it is sent the provider has seen none that is younger.
WorkSound(s) ==
  LET work == worker.row IN
  /\ work.title \in Titles /\ work.type \in Types
  /\ work.seq \in 1..s.clock
  /\ \E n \in 1..s.clock : work.id = <<work.title, n>>
  /\ \A r \in s.rows : r.id = work.id =>
       /\ r.lease = "held" /\ r.title = work.title /\ r.type = work.type
       /\ r.key = work.key /\ r.seq = work.seq
  /\ \A r \in s.rows : r.title = work.title => r.seq >= work.seq
  /\ worker.pc \in {"claimed", "latest", "sending"} =>
       \A type \in Types : work.seq >= remote[work.title][type].at

WorkerInv(s) ==
  /\ worker = [pc |-> worker.pc, row |-> worker.row, token |-> worker.token]
  /\ worker.pc \in {"idle", "claimed", "latest", "sending", "done", "failed"}
  /\ worker.token \in 0..spent.connects
  /\ worker.pc = "idle" => worker = Idle
  /\ worker.pc = "sending" => worker.token # 0
  /\ worker.pc # "idle" => WorkSound(s)

\* The provider has seen nothing that is younger than a row of the title.
RemoteInv(s) ==
  /\ remote = [t \in Titles |-> [type \in Types |-> remote[t][type]]]
  /\ \A t \in Titles, type \in Types : remote[t][type].at \in 0..s.clock
  /\ conn = 0 => \A t \in Titles, type \in Types : remote[t][type].at = 0
  /\ \A r \in s.rows : \A type \in Types : r.seq >= remote[r.title][type].at

AccountInv ==
  /\ authorization \in BOOLEAN /\ polling \in BOOLEAN
  /\ spent \in [connects : Nat, toggles : Nat, faults : Nat, writes : Nat]
  /\ spent.connects + spent.toggles <= MaxChanges
  /\ conn \in 0..spent.connects
  /\ sync \in SUBSET Types

DisconnectedEmpty(s) == conn = 0 => s.rows = {}

TrackingInv ==
  /\ OutboxInv(db, sync) /\ AccountInv /\ DisconnectedEmpty(db)
  /\ RemoteInv(db) /\ WorkerInv(db)

ProgressRow(p) ==
  /\ p = [version |-> p.version, position |-> p.position, duration |-> p.duration,
          completed |-> p.completed]
  /\ p.version \in Nat
  /\ p.version = 0 => p = NoProgress

ProgressInv ==
  /\ progress = [t \in Titles |-> progress[t]]
  /\ \A t \in Titles : ProgressRow(progress[t])

WatchInv == TrackingInv /\ ProgressInv

-----------------------------------------------------------------------------
(* What becomes of the worker's row and of the provider's copy when events   *)
(* are queued, and when rows are deleted.                                   *)

LEMMA WorkExtended ==
  ASSUME NEW s, NEW n, NEW types, OutboxInv(s, types), OutboxInv(n, types), Extends(s, n),
         WorkSound(s)
  PROVE  WorkSound(n)
<1> DEFINE work == worker.row
<1>1. s.clock \in Nat /\ n.clock \in Nat /\ n.clock >= s.clock
  BY DEF OutboxInv, Shaped, Extends
<1>2. work.title \in Titles /\ work.type \in Types /\ work.seq \in 1..n.clock /\ work.seq <= s.clock
  BY <1>1 DEF WorkSound
<1>3. PICK k \in 1..s.clock : work.id = <<work.title, k>>
  BY DEF WorkSound
<1>4. \E m \in 1..n.clock : work.id = <<work.title, m>>
  BY <1>1, <1>3
<1>5. ASSUME NEW r \in n.rows, r.id = work.id PROVE r \in s.rows
  <2> SUFFICES ASSUME r \notin s.rows PROVE FALSE
    OBVIOUS
  <2>1. Replaces(r, s)
    BY DEF Extends
  <2>2. ~\E m \in Nat : m > s.clock /\ r.id = <<r.title, m>>
    BY <1>1, <1>3, <1>5
  <2>3. \E p \in s.rows : p.lease = "none" /\ p.id = r.id
    BY <2>1, <2>2 DEF Replaces
  <2> QED
    BY <2>3, <1>5 DEF WorkSound
<1>6. ASSUME NEW r \in n.rows, r.title = work.title PROVE r.seq >= work.seq
  <2>1. CASE r \in s.rows
    BY <1>6, <2>1 DEF WorkSound
  <2>2. CASE r \notin s.rows
    BY <2>2, <1>1, <1>2 DEF Extends, Replaces
  <2> QED
    BY <2>1, <2>2
<1> QED
  BY <1>2, <1>4, <1>5, <1>6 DEF WorkSound

LEMMA WorkDeleted ==
  ASSUME NEW s, NEW n, n.clock = s.clock, n.rows \subseteq s.rows, WorkSound(s)
  PROVE  WorkSound(n)
BY DEF WorkSound

LEMMA RemoteExtended ==
  ASSUME NEW s, NEW n, NEW types \in SUBSET Types, OutboxInv(s, types), OutboxInv(n, types),
         Extends(s, n), RemoteInv(s)
  PROVE  RemoteInv(n)
<1>1. s.clock \in Nat /\ n.clock \in Nat /\ n.clock >= s.clock
  BY DEF OutboxInv, Shaped, Extends
<1>2. \A t \in Titles, type \in Types : remote[t][type].at \in 0..n.clock
  BY <1>1 DEF RemoteInv
<1>3. ASSUME NEW r \in n.rows, NEW type \in Types PROVE r.seq >= remote[r.title][type].at
  <2>1. CASE r \in s.rows
    BY <2>1 DEF RemoteInv
  <2>2. CASE r \notin s.rows
    <3>1. r.title \in Titles
      BY DEF OutboxInv, RowTyped
    <3>2. r.seq \in Nat /\ r.seq > s.clock
      BY <2>2 DEF Extends, Replaces
    <3>3. remote[r.title][type].at \in 0..s.clock
      BY <3>1 DEF RemoteInv
    <3> QED
      BY <1>1, <3>2, <3>3
  <2> QED
    BY <2>1, <2>2
<1> QED
  BY <1>2, <1>3 DEF RemoteInv

LEMMA RemoteDeleted ==
  ASSUME NEW s, NEW n, n.clock = s.clock, n.rows \subseteq s.rows, RemoteInv(s)
  PROVE  RemoteInv(n)
BY DEF RemoteInv

LEMMA RemoteMarked ==
  ASSUME NEW s, NEW n, n.clock = s.clock, NEW r \in s.rows, NEW m, Marked(m, r),
         n.rows = (s.rows \ {r}) \cup {m}, RemoteInv(s)
  PROVE  RemoteInv(n)
BY DEF RemoteInv, Marked

-----------------------------------------------------------------------------
(* The events.                                                             *)

LEMMA TitleEvents ==
  ASSUME NEW S \in SUBSET Titles, NEW f, NEW events, events = {f[t] : t \in S},
         \A t \in S : f[t].title = t /\ f[t].type \in Types
  PROVE  EventsSound(events)
<1>1. IsFiniteSet(S)
  BY OutboxAssumption, FS_Subset
<1>2. IsFiniteSet({f[t] : t \in S})
  BY <1>1, ImageCount
<1> QED
  BY <1>2 DEF EventsSound

LEMMA NoEvents == EventsSound({})
BY FS_EmptySet DEF EventsSound

LEMMA OneEvent ==
  ASSUME NEW e, e.title \in Titles, e.type \in Types
  PROVE  EventsSound({e})
BY FS_Singleton DEF EventsSound

LEMMA SeedKeeps ==
  ASSUME NEW s, NEW connected, NEW types \in SUBSET Types, OutboxInv(s, types)
  PROVE  /\ OutboxInv(SeedProfileState(s, connected, types), types)
         /\ Extends(s, SeedProfileState(s, connected, types))
<1> DEFINE started == {t \in Titles : progress[t].version > 0}
           collected == {u \in Titles : library[u] > 0}
           resumed == {u \in started : ~progress[u].completed /\ progress[u].position > 0}
           inLibrary == [t \in collected |-> LibraryEvent(t, <<"connect library", library[t]>>, "add")]
           watched == [t \in started |-> [WatchedEvent(t, progress[t]) EXCEPT
                         !.key = <<"connect watched", progress[t].version>>]]
           position == [t \in resumed |-> [ProgressEvent(t, progress[t]) EXCEPT
                         !.key = <<"connect progress", progress[t].version>>]]
           libraryEvents ==
             {LibraryEvent(t, <<"connect library", library[t]>>, "add")
                : t \in {u \in Titles : library[u] > 0}}
           watchedEvents ==
             {[WatchedEvent(t, progress[t]) EXCEPT
                 !.key = <<"connect watched", progress[t].version>>] : t \in started}
           progressEvents ==
             {[ProgressEvent(t, progress[t]) EXCEPT
                 !.key = <<"connect progress", progress[t].version>>]
                 : t \in {u \in started : ~progress[u].completed /\ progress[u].position > 0}}
           first == Enqueue(s, connected, types, libraryEvents)
           second == Enqueue(first, connected, types, watchedEvents)
           third == Enqueue(second, connected, types, progressEvents)
<1>1. SeedProfileState(s, connected, types) = third
  BY DEF SeedProfileState
<1>2. EventsSound(libraryEvents)
  <2>1. \A t \in collected : inLibrary[t].title = t /\ inLibrary[t].type \in Types
    BY DEF LibraryEvent, Event, Types
  <2>2. libraryEvents = {inLibrary[t] : t \in collected}
    OBVIOUS
  <2>3. collected \in SUBSET Titles
    OBVIOUS
  <2> HIDE DEF libraryEvents, inLibrary, collected
  <2> QED
    BY <2>1, <2>2, <2>3, TitleEvents
<1>3. EventsSound(watchedEvents)
  <2>1. \A t \in started : watched[t].title = t /\ watched[t].type \in Types
    BY DEF WatchedEvent, Event, Types
  <2>2. watchedEvents = {watched[t] : t \in started}
    OBVIOUS
  <2>3. started \in SUBSET Titles
    OBVIOUS
  <2> HIDE DEF watchedEvents, watched, started
  <2> QED
    BY <2>1, <2>2, <2>3, TitleEvents
<1>4. EventsSound(progressEvents)
  <2>1. \A t \in resumed : position[t].title = t /\ position[t].type \in Types
    BY DEF ProgressEvent, Event, Types
  <2>2. progressEvents = {position[t] : t \in resumed}
    OBVIOUS
  <2>3. resumed \in SUBSET Titles
    OBVIOUS
  <2> HIDE DEF progressEvents, position, resumed
  <2> QED
    BY <2>1, <2>2, <2>3, TitleEvents
<1> HIDE DEF libraryEvents, watchedEvents, progressEvents
<1>5. OutboxInv(first, types) /\ Extends(s, first)
  BY <1>2, EnqueueKeeps
<1> HIDE DEF first
<1>6. OutboxInv(second, types) /\ Extends(first, second)
  BY <1>3, <1>5, EnqueueKeeps
<1> HIDE DEF second
<1>7. OutboxInv(third, types) /\ Extends(second, third)
  BY <1>4, <1>6, EnqueueKeeps
<1> HIDE DEF third
<1>8. Extends(s, second)
  BY <1>5, <1>6, ExtendsOn
<1>9. Extends(s, third)
  BY <1>6, <1>7, <1>8, ExtendsOn
<1> QED
  BY <1>1, <1>7, <1>9

LEMMA EnqueueDisconnected ==
  ASSUME NEW s, NEW types, NEW events, Shaped(s), s.rows = {}
  PROVE  Enqueue(s, FALSE, types, events).rows = {}
<1> DEFINE n == Enqueue(s, FALSE, types, events)
<1>1. CASE n = s
  BY <1>1
<1>2. CASE n = [s EXCEPT !.ok = FALSE]
  BY <1>2, RefusedShape
<1>3. CASE n # s /\ n # [s EXCEPT !.ok = FALSE]
  BY <1>3 DEF Enqueue
<1> QED
  BY <1>1, <1>2, <1>3

-----------------------------------------------------------------------------
(* The steps preserve the invariant of the tracking part.                  *)

\* The parts about the account, the worker and the provider's copy of a step that leaves them
\* alone and turns the outbox into one of which they hold.
LEMMA OthersKept ==
  ASSUME AccountInv, WorkerInv(db'), RemoteInv(db'), UNCHANGED <<conn, worker, remote>>,
         spent'.connects = spent.connects
  PROVE  WorkerInv(db)' /\ RemoteInv(db)'
<1>1. WorkerInv(db)'
  BY DEF WorkerInv, WorkSound
<1>2. RemoteInv(db)'
  BY DEF RemoteInv
<1> QED
  BY <1>1, <1>2

LEMMA WorkerExtended ==
  ASSUME NEW s, NEW n, NEW types, OutboxInv(s, types), OutboxInv(n, types), Extends(s, n),
         WorkerInv(s)
  PROVE  WorkerInv(n)
BY WorkExtended DEF WorkerInv

LEMMA RecordKeeps ==
  ASSUME TrackingInv, NEW events, EventsSound(events), Record(events)
  PROVE  TrackingInv'
<1> DEFINE queued == Enqueue(db, conn # 0, sync, events)
<1>1. db' = queued /\ spent' = [spent EXCEPT !.writes = @ + 1]
      /\ UNCHANGED <<authorization, polling, conn, sync, worker, remote>>
  BY DEF Record
<1>2. OutboxInv(db, sync) /\ sync \in SUBSET Types
  BY DEF TrackingInv, AccountInv
<1>3. OutboxInv(queued, sync) /\ Extends(db, queued)
  BY <1>2, EnqueueKeeps
<1>4. DisconnectedEmpty(db)'
  <2> SUFFICES ASSUME conn = 0 PROVE db'.rows = {}
    BY <1>1 DEF DisconnectedEmpty
  <2>1. db.rows = {} /\ Shaped(db)
    BY DEF TrackingInv, DisconnectedEmpty, OutboxInv
  <2>2. queued = Enqueue(db, FALSE, sync, events)
    OBVIOUS
  <2> QED
    BY <1>1, <2>1, <2>2, EnqueueDisconnected
<1> HIDE DEF queued
<1>5. AccountInv'
  BY <1>1 DEF TrackingInv, AccountInv
<1>6. spent'.connects = spent.connects
  BY <1>1 DEF TrackingInv, AccountInv
<1>7. OutboxInv(db, sync)'
  BY <1>1, <1>3
<1>8. WorkerInv(db') /\ RemoteInv(db')
  BY <1>1, <1>2, <1>3, WorkerExtended, RemoteExtended DEF TrackingInv
<1>9. WorkerInv(db)' /\ RemoteInv(db)'
  BY <1>1, <1>6, <1>8, OthersKept DEF TrackingInv
<1> QED
  BY <1>4, <1>5, <1>7, <1>9 DEF TrackingInv

LEMMA ConnectKeeps ==
  ASSUME TrackingInv, Connect
  PROVE  TrackingInv'
<1> DEFINE seeded == SeedProfileState(db, TRUE, sync)
<1>1. CompleteDeviceAuthorization(seeded)
  BY DEF Connect
<1>2. OutboxInv(db, sync) /\ sync \in SUBSET Types
  BY DEF TrackingInv, AccountInv
<1>3. OutboxInv(seeded, sync) /\ Extends(db, seeded)
  BY <1>2, SeedKeeps
<1> HIDE DEF seeded
<1>4. polling' = FALSE /\ UNCHANGED <<sync, worker>>
      /\ spent.connects + spent.toggles < MaxChanges
  BY <1>1 DEF CompleteDeviceAuthorization
<1>5. CASE ~seeded.ok
  <2>1. UNCHANGED <<authorization, conn, spent, db, remote>>
    BY <1>1, <1>5 DEF CompleteDeviceAuthorization
  <2>2. AccountInv'
    BY <1>4, <2>1 DEF TrackingInv, AccountInv
  <2>3. OutboxInv(db, sync)' /\ DisconnectedEmpty(db)'
    BY <1>2, <1>4, <2>1 DEF TrackingInv, DisconnectedEmpty
  <2>4. WorkerInv(db)' /\ RemoteInv(db)'
    BY <1>4, <2>1, OthersKept DEF TrackingInv
  <2> QED
    BY <2>2, <2>3, <2>4 DEF TrackingInv
<1>6. CASE seeded.ok
  <2>1. /\ authorization' = FALSE /\ conn' = spent.connects + 1
        /\ spent' = [spent EXCEPT !.connects = @ + 1]
        /\ db' = seeded
        /\ remote' = [t \in Titles |-> [type \in Types |-> Unknown]]
    BY <1>1, <1>6 DEF CompleteDeviceAuthorization
  <2>2. AccountInv' /\ spent'.connects = spent.connects + 1 /\ spent.connects \in Nat
    <3>1. /\ spent \in [connects : Nat, toggles : Nat, faults : Nat, writes : Nat]
          /\ sync' \in SUBSET Types
      BY <1>4 DEF TrackingInv, AccountInv
    <3>2. /\ spent' \in [connects : Nat, toggles : Nat, faults : Nat, writes : Nat]
          /\ spent'.connects = spent.connects + 1 /\ spent'.toggles = spent.toggles
          /\ spent.connects \in Nat /\ spent.toggles \in Nat
      BY <3>1, <2>1
    <3>3. spent'.connects + spent'.toggles <= MaxChanges /\ conn' \in 0..spent'.connects
      BY <3>2, <2>1, <1>4, OutboxAssumption
    <3> QED
      BY <3>1, <3>2, <3>3, <2>1, <1>4 DEF AccountInv
  <2>3. OutboxInv(db, sync)' /\ DisconnectedEmpty(db)'
    BY <1>3, <1>4, <2>1, <2>2 DEF DisconnectedEmpty
  <2>4. OutboxInv(db', sync)
    BY <1>3, <2>1
  <2>5. db'.clock \in Nat
    BY <2>4 DEF OutboxInv, Shaped
  <2>6. \A r \in db'.rows : r.title \in Titles /\ r.seq \in Nat
    BY <2>4 DEF OutboxInv, RowTyped
  <2>7. \A t \in Titles, type \in Types : remote'[t][type].at = 0
    BY <2>1 DEF Unknown
  <2>8. remote' = [t \in Titles |-> [type \in Types |-> remote'[t][type]]]
    BY <2>1
  <2>9. RemoteInv(db)'
    BY <2>5, <2>6, <2>7, <2>8 DEF RemoteInv
  <2>10. WorkerInv(db')
    BY <1>2, <1>3, <2>1, WorkerExtended DEF TrackingInv
  <2>11. WorkSound(db') => WorkSound(db)'
    BY <1>4, <2>7, <2>5 DEF WorkSound
  <2>12. WorkerInv(db)'
    BY <1>4, <2>2, <2>10, <2>11 DEF WorkerInv
  <2> QED
    BY <2>2, <2>3, <2>9, <2>12 DEF TrackingInv
<1> QED
  BY <1>5, <1>6

LEMMA ClearedShape ==
  ASSUME OutboxInv(db, sync), NEW disabled
  PROVE  LET s == Cleared(disabled) IN
         /\ s.heads = db.heads /\ s.clock = db.clock /\ Shaped(s)
         /\ s.rows = {r \in db.rows : r.type \notin disabled}
BY WithRows DEF OutboxInv, Cleared

LEMMA ClearedKeeps ==
  ASSUME TrackingInv, NEW input \in Preferences
  PROVE  LET types == (sync \cup input.enabled) \ input.disabled IN
         /\ types \in SUBSET Types
         /\ OutboxInv(Cleared(input.disabled), types)
         /\ WorkerInv(Cleared(input.disabled)) /\ RemoteInv(Cleared(input.disabled))
<1> DEFINE types == (sync \cup input.enabled) \ input.disabled
           s == Cleared(input.disabled)
<1>1. types \in SUBSET Types
  BY WatchAssumption DEF TrackingInv, AccountInv
<1>2. OutboxInv(db, sync)
  BY DEF TrackingInv
<1>3. /\ s.heads = db.heads /\ s.clock = db.clock /\ Shaped(s)
      /\ s.rows = {r \in db.rows : r.type \notin input.disabled}
  BY <1>2, ClearedShape
<1> HIDE DEF s
<1>4. s.rows \subseteq db.rows /\ \A r \in s.rows : r.type \in types
  BY <1>2, <1>3 DEF OutboxInv, RowTyped
<1> HIDE DEF types
<1>5. OutboxInv(s, types)
  BY <1>2, <1>3, <1>4, RowsDeleted
<1>6. WorkerInv(s) /\ RemoteInv(s)
  BY <1>3, <1>4, WorkDeleted, RemoteDeleted DEF TrackingInv, WorkerInv
<1> QED
  BY <1>1, <1>5, <1>6 DEF s, types

LEMMA PreferencesStep ==
  ASSUME TrackingInv, ChangePreferences
  PROVE  \E input \in Preferences :
           LET types == (sync \cup input.enabled) \ input.disabled IN
           /\ conn # 0 /\ sync' = types
           /\ OutboxInv(db', types) /\ Extends(Cleared(input.disabled), db')
           /\ spent.connects + spent.toggles < MaxChanges
           /\ spent' = [spent EXCEPT !.toggles = @ + 1]
           /\ UNCHANGED <<authorization, polling, conn, worker, remote, watchVars>>
<1>1. PICK input \in Preferences :
        LET types == (sync \cup input.enabled) \ input.disabled IN
        /\ UpdatePreferences(types,
              IF input.enabled = {} THEN Cleared(input.disabled)
              ELSE SeedProfileState(Cleared(input.disabled), TRUE, types))
        /\ UNCHANGED watchVars
  BY DEF ChangePreferences
<1> DEFINE types == (sync \cup input.enabled) \ input.disabled
           s == Cleared(input.disabled)
<1>2. types \in SUBSET Types /\ OutboxInv(s, types)
  BY ClearedKeeps
<1> HIDE DEF types, s
<1>3. /\ OutboxInv(SeedProfileState(s, TRUE, types), types)
      /\ Extends(s, SeedProfileState(s, TRUE, types))
  BY <1>2, SeedKeeps
<1>4. Extends(s, s)
  BY <1>2, ExtendsItself
<1>5. /\ conn # 0 /\ sync' = types
      /\ spent.connects + spent.toggles < MaxChanges
      /\ spent' = [spent EXCEPT !.toggles = @ + 1]
      /\ UNCHANGED <<authorization, polling, conn, worker, remote, watchVars>>
      /\ db' = s \/ db' = SeedProfileState(s, TRUE, types)
  BY <1>1 DEF UpdatePreferences, types, s
<1>6. OutboxInv(db', types) /\ Extends(s, db')
  BY <1>2, <1>3, <1>4, <1>5
<1> QED
  BY <1>5, <1>6 DEF types, s

LEMMA ChangePreferencesKeeps ==
  ASSUME TrackingInv, ChangePreferences
  PROVE  TrackingInv'
<1>1. PICK input \in Preferences :
           LET types == (sync \cup input.enabled) \ input.disabled IN
           /\ conn # 0 /\ sync' = types
           /\ OutboxInv(db', types) /\ Extends(Cleared(input.disabled), db')
           /\ spent.connects + spent.toggles < MaxChanges
           /\ spent' = [spent EXCEPT !.toggles = @ + 1]
           /\ UNCHANGED <<authorization, polling, conn, worker, remote, watchVars>>
  BY PreferencesStep
<1> DEFINE types == (sync \cup input.enabled) \ input.disabled
           s == Cleared(input.disabled)
<1>2. types \in SUBSET Types /\ OutboxInv(s, types) /\ WorkerInv(s) /\ RemoteInv(s)
  BY ClearedKeeps
<1> HIDE DEF types, s
<1>3. /\ conn # 0 /\ sync' = types
      /\ OutboxInv(db', types) /\ Extends(s, db')
      /\ spent.connects + spent.toggles < MaxChanges
      /\ spent' = [spent EXCEPT !.toggles = @ + 1]
      /\ UNCHANGED <<authorization, polling, conn, worker, remote>>
  BY <1>1 DEF types, s
<1>4. OutboxInv(db, sync)' /\ DisconnectedEmpty(db)'
  BY <1>3 DEF DisconnectedEmpty
<1>5. AccountInv' /\ spent'.connects = spent.connects
  <2>1. /\ spent \in [connects : Nat, toggles : Nat, faults : Nat, writes : Nat]
        /\ authorization \in BOOLEAN /\ polling \in BOOLEAN /\ conn \in 0..spent.connects
    BY DEF TrackingInv, AccountInv
  <2>2. /\ spent' \in [connects : Nat, toggles : Nat, faults : Nat, writes : Nat]
        /\ spent'.connects = spent.connects /\ spent'.toggles = spent.toggles + 1
        /\ spent.connects \in Nat /\ spent.toggles \in Nat
    BY <1>3, <2>1
  <2>3. spent'.connects + spent'.toggles <= MaxChanges
    BY <1>3, <2>2, OutboxAssumption
  <2> QED
    BY <1>2, <1>3, <2>1, <2>2, <2>3 DEF AccountInv
<1>6. WorkerInv(db') /\ RemoteInv(db')
  BY <1>2, <1>3, WorkerExtended, RemoteExtended
<1>7. WorkerInv(db)' /\ RemoteInv(db)'
  BY <1>3, <1>5, <1>6, OthersKept DEF TrackingInv
<1> QED
  BY <1>4, <1>5, <1>7 DEF TrackingInv

\* A step that leaves the account alone, or counts a fault.
LEMMA AccountKept ==
  ASSUME AccountInv, UNCHANGED <<conn, sync>>,
         authorization' \in BOOLEAN, polling' \in BOOLEAN,
         \/ UNCHANGED spent
         \/ spent' = [spent EXCEPT !.faults = @ + 1]
         \/ spent' = [spent EXCEPT !.writes = @ + 1]
  PROVE  AccountInv' /\ spent'.connects = spent.connects
BY DEF AccountInv

LEMMA AuthorizationKeeps ==
  ASSUME TrackingInv, BeginDeviceAuthorization \/ PollAuthorization \/ PollRefused
  PROVE  TrackingInv'
<1>1. /\ UNCHANGED <<conn, sync, db, worker, remote>>
      /\ UNCHANGED spent \/ spent' = [spent EXCEPT !.faults = @ + 1]
      /\ authorization' \in BOOLEAN /\ polling' \in BOOLEAN
  BY DEF BeginDeviceAuthorization, PollAuthorization, PollRefused, TrackingInv, AccountInv
<1>2. AccountInv' /\ spent'.connects = spent.connects
  BY <1>1, AccountKept DEF TrackingInv
<1>3. OutboxInv(db, sync)' /\ DisconnectedEmpty(db)'
  BY <1>1 DEF TrackingInv, DisconnectedEmpty
<1>4. WorkerInv(db)' /\ RemoteInv(db)'
  BY <1>1, <1>2, OthersKept DEF TrackingInv
<1> QED
  BY <1>2, <1>3, <1>4 DEF TrackingInv

LEMMA DisconnectShape ==
  ASSUME OutboxInv(db, sync), Disconnect
  PROVE  /\ db'.heads = [t \in Titles |-> [type \in Types |-> NoHead]]
         /\ db'.rows = {} /\ db'.clock = db.clock /\ Shaped(db')
<1> DEFINE none == [t \in Titles |-> [type \in Types |-> NoHead]]
           h == db.heads  r == db.rows  c == db.clock  ok == db.ok
<1>1. db = [heads |-> h, rows |-> r, clock |-> c, ok |-> ok] /\ c \in Nat \ {0}
  BY DEF OutboxInv, Shaped
<1>2. db' = [db EXCEPT !.heads = none, !.rows = {}]
  BY DEF Disconnect
<1> HIDE DEF none, h, r, c, ok
<1> DEFINE first == [db EXCEPT !.heads = none]
<1>3. first = [heads |-> none, rows |-> r, clock |-> c, ok |-> ok]
  BY <1>1
<1>4. db' = [first EXCEPT !.rows = {}]
  BY <1>2, Zenon
<1> HIDE DEF first
<1>5. db' = [heads |-> none, rows |-> {}, clock |-> c, ok |-> ok]
  BY <1>3, <1>4
<1>6. db'.heads = none /\ db'.rows = {} /\ db'.clock = c /\ db'.ok = ok
  BY <1>5
<1>7. Shaped(db')
  BY <1>1, <1>5, <1>6 DEF Shaped
<1> QED
  BY <1>6, <1>7 DEF none, c

LEMMA DisconnectKeeps ==
  ASSUME TrackingInv, Disconnect
  PROVE  TrackingInv'
<1>1. /\ conn' = 0 /\ authorization' = FALSE
      /\ remote' = [t \in Titles |-> [type \in Types |-> Unknown]]
      /\ UNCHANGED <<polling, sync, worker, spent>>
  BY DEF Disconnect
<1>2. OutboxInv(db, sync)
  BY DEF TrackingInv
<1>3. /\ db'.heads = [t \in Titles |-> [type \in Types |-> NoHead]]
      /\ db'.rows = {} /\ db'.clock = db.clock /\ Shaped(db')
  BY <1>2, DisconnectShape
<1>4. db'.clock \in Nat
  BY <1>3 DEF Shaped
<1>5. HeadsTyped(db') /\ LibraryApart(db')
  BY <1>3, <1>4 DEF HeadsTyped, LibraryApart, NoHead, Types
<1>6. Bounded(db')
  BY <1>3, FS_EmptySet, OutboxAssumption DEF Bounded
<1>7. IdsUnique(db') /\ OnePending(db') /\ PendingCurrent(db')
  BY <1>3 DEF IdsUnique, OnePending, PendingCurrent
<1>8. OutboxInv(db, sync)'
  BY <1>1, <1>3, <1>5, <1>6, <1>7 DEF OutboxInv
<1>9. AccountInv'
  <2>1. spent.connects \in Nat
    BY DEF TrackingInv, AccountInv
  <2>2. conn' \in 0..spent'.connects
    BY <1>1, <2>1
  <2>3. spent' = spent /\ sync' = sync /\ polling' = polling /\ authorization' \in BOOLEAN
    BY <1>1
  <2> QED
    BY <2>2, <2>3 DEF TrackingInv, AccountInv
<1>10. DisconnectedEmpty(db)'
  BY <1>3 DEF DisconnectedEmpty
<1>11. \A t \in Titles, type \in Types : remote'[t][type].at = 0
  BY <1>1 DEF Unknown
<1>12. remote' = [t \in Titles |-> [type \in Types |-> remote'[t][type]]]
  BY <1>1
<1>13. RemoteInv(db)'
  BY <1>3, <1>4, <1>11, <1>12 DEF RemoteInv
<1>14. WorkerInv(db)'
  <2>1. WorkSound(db) => WorkSound(db')
    BY <1>3, WorkDeleted
  <2>2. WorkSound(db') => WorkSound(db)'
    BY <1>1, <1>4, <1>11 DEF WorkSound
  <2> QED
    BY <1>1, <2>1, <2>2 DEF TrackingInv, WorkerInv
<1> QED
  BY <1>8, <1>9, <1>10, <1>13, <1>14 DEF TrackingInv

\* A row is marked while the worker is idle.
LEMMA MarkedStep ==
  ASSUME TrackingInv, NEW r \in db.rows, NEW m, Marked(m, r),
         m.lease = "none" => r.lease = "none",
         db' = [db EXCEPT !.rows = (@ \ {r}) \cup {m}],
         UNCHANGED <<authorization, polling, conn, sync, remote, spent>>
  PROVE  /\ OutboxInv(db, sync)' /\ DisconnectedEmpty(db)' /\ RemoteInv(db)' /\ AccountInv'
         /\ db'.rows = (db.rows \ {r}) \cup {m} /\ db'.heads = db.heads
         /\ db'.clock = db.clock
<1> DEFINE rows == (db.rows \ {r}) \cup {m}
<1>1. db' = [db EXCEPT !.rows = rows]
  OBVIOUS
<1> HIDE DEF rows
<1>2. /\ db'.rows = rows /\ db'.heads = db.heads /\ db'.clock = db.clock /\ Shaped(db')
  <2>1. Shaped(db)
    BY DEF TrackingInv, OutboxInv
  <2> QED
    BY <1>1, <2>1, WithRows
<1>3. OutboxInv(db, sync)
  BY DEF TrackingInv
<1>4. m.lease = "none" => /\ Current(db.heads, r)
                          /\ \A q \in db.rows : q.lease = "none" /\ q.title = r.title
                                                  /\ q.type = r.type => q = r
  BY <1>3 DEF OutboxInv, PendingCurrent, OnePending
<1>5. OutboxInv(db', sync)
  BY <1>2, <1>3, <1>4, MarkedKeeps DEF rows
<1>6. RemoteInv(db')
  BY <1>2, RemoteMarked DEF rows, TrackingInv
<1>7. RemoteInv(db)'
  BY <1>6 DEF RemoteInv
<1>8. AccountInv'
  BY DEF TrackingInv, AccountInv
<1>9. DisconnectedEmpty(db)'
  BY DEF TrackingInv, DisconnectedEmpty
<1> QED
  BY <1>2, <1>5, <1>7, <1>8, <1>9 DEF rows

LEMMA RowTimerStep ==
  ASSUME TrackingInv, RowTimer
  PROVE  \E r, m :
           /\ r \in db.rows
           /\ Marked(m, r) /\ (m.lease = "none" => r.lease = "none")
           /\ db' = [db EXCEPT !.rows = (@ \ {r}) \cup {m}]
<1>1. PICK r \in db.rows :
        \/ /\ r.lease = "held"
           /\ db' = [db EXCEPT !.rows = (@ \ {r}) \cup {[r EXCEPT !.lease = "expired"]}]
        \/ /\ ~r.due
           /\ db' = [db EXCEPT !.rows = (@ \ {r}) \cup {[r EXCEPT !.due = TRUE]}]
  BY DEF RowTimer
<1>2. RowTyped(r, db, sync)
  BY DEF TrackingInv, OutboxInv
<1>3. /\ Marked([r EXCEPT !.lease = "expired"], r)
      /\ [r EXCEPT !.lease = "expired"].lease = "expired"
      /\ Marked([r EXCEPT !.due = TRUE], r) /\ [r EXCEPT !.due = TRUE].lease = r.lease
  BY <1>2, MarkedRow
<1> DEFINE expired == [r EXCEPT !.lease = "expired"]
           due == [r EXCEPT !.due = TRUE]
<1>4. db' = [db EXCEPT !.rows = (@ \ {r}) \cup {expired}]
        \/ db' = [db EXCEPT !.rows = (@ \ {r}) \cup {due}]
  BY <1>1, Zenon
<1>5. /\ Marked(expired, r) /\ (expired.lease = "none" => r.lease = "none")
      /\ Marked(due, r) /\ (due.lease = "none" => r.lease = "none")
  BY <1>3
<1> HIDE DEF expired, due
<1> QED
  BY <1>4, <1>5, Zenon

LEMMA RowTimerKeeps ==
  ASSUME TrackingInv, RowTimer
  PROVE  TrackingInv'
<1>1. worker.pc = "idle"
      /\ UNCHANGED <<authorization, polling, conn, sync, worker, remote, spent>>
  BY DEF RowTimer
<1>2. PICK r, m :
           /\ r \in db.rows
           /\ Marked(m, r) /\ (m.lease = "none" => r.lease = "none")
           /\ db' = [db EXCEPT !.rows = (@ \ {r}) \cup {m}]
  BY RowTimerStep
<1>3. OutboxInv(db, sync)' /\ DisconnectedEmpty(db)' /\ RemoteInv(db)' /\ AccountInv'
  BY <1>1, <1>2, MarkedStep
<1>4. WorkerInv(db)'
  BY <1>1 DEF TrackingInv, WorkerInv
<1> QED
  BY <1>3, <1>4 DEF TrackingInv

LEMMA DeletedStep ==
  ASSUME TrackingInv, NEW R \in SUBSET db.rows, db' = [db EXCEPT !.rows = R],
         UNCHANGED <<authorization, polling, conn, sync, remote, spent>>
  PROVE  /\ OutboxInv(db, sync)' /\ DisconnectedEmpty(db)' /\ RemoteInv(db)' /\ AccountInv'
         /\ db'.rows = R /\ db'.heads = db.heads /\ db'.clock = db.clock
<1>1. Shaped(db) /\ OutboxInv(db, sync) /\ RemoteInv(db)
  BY DEF TrackingInv, OutboxInv
<1>2. db'.rows = R /\ db'.heads = db.heads /\ db'.clock = db.clock /\ Shaped(db')
  BY <1>1, WithRows
<1>3. \A r \in db'.rows : r.type \in sync
  BY <1>1, <1>2 DEF OutboxInv, RowTyped
<1>4. OutboxInv(db', sync)
  BY <1>1, <1>2, <1>3, RowsDeleted
<1>5. RemoteInv(db')
  BY <1>1, <1>2, RemoteDeleted
<1>6. RemoteInv(db)'
  BY <1>5 DEF RemoteInv
<1>7. AccountInv' /\ DisconnectedEmpty(db)'
  BY <1>2 DEF TrackingInv, AccountInv, DisconnectedEmpty
<1> QED
  BY <1>2, <1>4, <1>6, <1>7

LEMMA ClaimStep ==
  ASSUME TrackingInv, Claim
  PROVE  \E r, m :
           /\ r \in db.rows
           /\ Claimable(r) /\ Marked(m, r) /\ m.lease = "held"
           /\ db' = [db EXCEPT !.rows = (@ \ {r}) \cup {m}]
           /\ worker' = [pc |-> "claimed", row |-> r, token |-> 0]
           /\ worker.pc = "idle"
           /\ UNCHANGED <<authorization, polling, conn, sync, remote, spent>>
<1>1. PICK r \in db.rows :
          /\ Claimable(r)
          /\ db' = [db EXCEPT !.rows = (@ \ {r}) \cup {[r EXCEPT !.lease = "held"]}]
          /\ worker' = [pc |-> "claimed", row |-> r, token |-> 0]
  BY DEF Claim
<1>2. RowTyped(r, db, sync)
  BY DEF TrackingInv, OutboxInv
<1> DEFINE m == [r EXCEPT !.lease = "held"]
<1>3. Marked(m, r) /\ m.lease = "held"
  BY <1>2, MarkedRow
<1>4. db' = [db EXCEPT !.rows = (@ \ {r}) \cup {m}]
  BY <1>1, Zenon
<1> HIDE DEF m
<1>5. worker.pc = "idle" /\ UNCHANGED <<authorization, polling, conn, sync, remote, spent>>
  BY DEF Claim
<1> QED
  BY <1>1, <1>3, <1>4, <1>5, Zenon

LEMMA ClaimKeeps ==
  ASSUME TrackingInv, Claim
  PROVE  TrackingInv'
<1>1. PICK r, m :
           /\ r \in db.rows
           /\ Claimable(r) /\ Marked(m, r) /\ m.lease = "held"
           /\ db' = [db EXCEPT !.rows = (@ \ {r}) \cup {m}]
           /\ worker' = [pc |-> "claimed", row |-> r, token |-> 0]
           /\ worker.pc = "idle"
           /\ UNCHANGED <<authorization, polling, conn, sync, remote, spent>>
  BY ClaimStep
<1>2. /\ OutboxInv(db, sync)' /\ DisconnectedEmpty(db)' /\ RemoteInv(db)' /\ AccountInv'
      /\ db'.rows = (db.rows \ {r}) \cup {m} /\ db'.clock = db.clock
  BY <1>1, MarkedStep
<1>3. RowTyped(r, db, sync) /\ IdsUnique(db) /\ sync \in SUBSET Types /\ RemoteInv(db)
  BY <1>1 DEF TrackingInv, OutboxInv, AccountInv
<1>4. worker'.row = r /\ worker'.pc = "claimed" /\ worker'.token = 0
  BY <1>1
<1>5. r.title \in Titles /\ r.type \in Types /\ r.seq \in 1..db'.clock
      /\ \E n \in 1..db'.clock : r.id = <<r.title, n>>
  BY <1>2, <1>3 DEF RowTyped
<1>6. \A q \in db'.rows : q.id = r.id =>
        q.lease = "held" /\ q.title = r.title /\ q.type = r.type /\ q.key = r.key /\ q.seq = r.seq
  BY <1>1, <1>2, <1>3 DEF IdsUnique, Marked
<1>7. ASSUME NEW q \in db'.rows, q.title = r.title PROVE q.seq >= r.seq
  <2>1. CASE q = m
    BY <1>1, <1>3, <2>1 DEF Marked, RowTyped
  <2>2. CASE q # m
    <3>1. q \in db.rows /\ q.seq \in Nat
      BY <1>2, <2>2 DEF TrackingInv, OutboxInv, RowTyped
    <3>2. ~(q.seq < r.seq)
      BY <1>1, <1>7, <3>1 DEF Claimable
    <3> QED
      BY <3>1, <3>2, <1>3 DEF RowTyped
  <2> QED
    BY <2>1, <2>2
<1>8. \A type \in Types : r.seq >= remote'[r.title][type].at
  BY <1>1, <1>3 DEF RemoteInv
<1>9. WorkSound(db)'
  BY <1>4, <1>5, <1>6, <1>7, <1>8 DEF WorkSound
<1>10. WorkerInv(db)'
  <2>1. spent'.connects \in Nat
    BY <1>2 DEF AccountInv
  <2> QED
    BY <1>1, <1>4, <1>9, <2>1 DEF WorkerInv
<1> QED
  BY <1>2, <1>10 DEF TrackingInv

\* The steps of the worker between a claim and its end.
LEMMA OutboxSame ==
  ASSUME TrackingInv, UNCHANGED <<conn, sync, db>>
  PROVE  OutboxInv(db, sync)' /\ DisconnectedEmpty(db)'
BY DEF TrackingInv, DisconnectedEmpty

LEMMA WorkingKeeps ==
  ASSUME TrackingInv, CheckLatest \/ AccessToken \/ SendToOldAccount
  PROVE  TrackingInv'
<1>1. UNCHANGED <<authorization, polling, conn, sync, db, remote, spent>>
  BY DEF CheckLatest, AccessToken, SendToOldAccount
<1>2. OutboxInv(db, sync)' /\ DisconnectedEmpty(db)'
  BY <1>1, OutboxSame
<1>3. AccountInv' /\ RemoteInv(db)' /\ conn \in 0..spent.connects
  BY <1>1 DEF TrackingInv, AccountInv, RemoteInv
<1>4. /\ worker = [pc |-> worker.pc, row |-> worker.row, token |-> worker.token]
      /\ worker.token \in 0..spent.connects
      /\ worker.pc # "idle" => WorkSound(db)
  BY DEF TrackingInv, WorkerInv
<1> DEFINE row == worker.row  token == worker.token  pc == worker.pc
<1>5. worker = [pc |-> pc, row |-> row, token |-> token]
  BY <1>4
<1> HIDE DEF row, token, pc
<1>6. pc = worker.pc /\ row = worker.row /\ token = worker.token
  BY DEF row, token, pc
<1>7. /\ worker' = [pc |-> worker'.pc, row |-> worker'.row, token |-> worker'.token]
      /\ worker'.row = row
      /\ worker'.pc \in {"latest", "done", "failed", "sending"}
      /\ pc \in {"claimed", "latest", "sending"}
      /\ worker'.token = token \/ worker'.token = conn
      /\ worker'.pc = "sending" => worker'.token # 0
  <2>1. CASE CheckLatest
    <3> DEFINE next == IF Current(db.heads, row) THEN "latest" ELSE "done"
    <3>1. worker' = [worker EXCEPT !.pc = next] /\ pc = "claimed" /\ next \in {"latest", "done"}
      BY <2>1, <1>6 DEF CheckLatest
    <3> HIDE DEF next
    <3>2. worker' = [pc |-> next, row |-> row, token |-> token]
      BY <3>1, <1>5
    <3>3. worker'.pc = next /\ worker'.row = row /\ worker'.token = token
      BY <3>2
    <3>4. worker' = [pc |-> worker'.pc, row |-> worker'.row, token |-> worker'.token]
      BY <3>2
    <3> QED
      BY <3>1, <3>3, <3>4
  <2>2. CASE AccessToken
    <3> DEFINE next == IF conn = 0 THEN "failed" ELSE "sending"
    <3>1. worker' = [worker EXCEPT !.pc = next, !.token = conn] /\ pc = "latest"
          /\ next \in {"failed", "sending"} /\ (next = "sending" => conn # 0)
      BY <2>2, <1>6 DEF AccessToken
    <3> HIDE DEF next
    <3>2. worker' = [pc |-> next, row |-> row, token |-> conn]
      BY <3>1, <1>5
    <3>3. worker'.pc = next /\ worker'.row = row /\ worker'.token = conn
      BY <3>2
    <3>4. worker' = [pc |-> worker'.pc, row |-> worker'.row, token |-> worker'.token]
      BY <3>2
    <3> QED
      BY <3>1, <3>3, <3>4
  <2>3. CASE SendToOldAccount
    <3>1. PICK next \in {"done", "failed", "latest"} : worker' = [worker EXCEPT !.pc = next]
      BY <2>3 DEF SendToOldAccount
    <3>2. pc = "sending"
      BY <2>3, <1>6 DEF SendToOldAccount
    <3>3. worker' = [pc |-> next, row |-> row, token |-> token]
      BY <3>1, <1>5
    <3> QED
      BY <3>2, <3>3
  <2> QED
    BY <2>1, <2>2, <2>3
<1>8. WorkSound(db)
  BY <1>4, <1>6, <1>7
<1>9. WorkSound(db)'
  BY <1>1, <1>6, <1>7, <1>8 DEF WorkSound
<1>10. WorkerInv(db)'
  BY <1>1, <1>3, <1>4, <1>6, <1>7, <1>9 DEF WorkerInv
<1> QED
  BY <1>2, <1>3, <1>10 DEF TrackingInv

LEMMA AppliedAt ==
  ASSUME RemoteInv(db), WorkSound(db), NEW copy, copy = Applied(worker.row)
  PROVE  LET work == worker.row IN
         /\ copy = [t \in Titles |-> [type \in Types |-> copy[t][type]]]
         /\ \A t \in Titles, type \in Types :
              copy[t][type].at = IF t = work.title /\ type = work.type THEN work.seq
                                 ELSE remote[t][type].at
<1> DEFINE work == worker.row
           event == [value |-> work.value, at |-> work.seq]
<1>1. work.title \in Titles /\ work.type \in Types
  BY DEF WorkSound
<1>2. remote = [t \in Titles |-> [type \in Types |-> remote[t][type]]]
  BY DEF RemoteInv
<1>3. copy = [remote EXCEPT ![work.title][work.type] = event]
  BY DEF Applied
<1>4. event.at = work.seq
  OBVIOUS
<1> HIDE DEF event, work
<1>5. copy = [t \in Titles |-> [type \in Types |->
                IF t = work.title /\ type = work.type THEN event ELSE remote[t][type]]]
  BY <1>1, <1>2, <1>3
<1>6. copy = [t \in Titles |-> [type \in Types |-> copy[t][type]]]
  BY <1>5
<1>7. \A t \in Titles, type \in Types :
        copy[t][type] = IF t = work.title /\ type = work.type THEN event ELSE remote[t][type]
  BY <1>5
<1> QED
  BY <1>4, <1>6, <1>7 DEF work

LEMMA AppliedKeeps ==
  ASSUME TrackingInv, worker.pc = "sending", worker.token = conn,
         remote' = Applied(worker.row), UNCHANGED <<conn, db>>
  PROVE  RemoteInv(db)'
<1> DEFINE work == worker.row
<1>1. WorkSound(db) /\ RemoteInv(db) /\ conn # 0 /\ OutboxInv(db, sync)
  BY DEF TrackingInv, WorkerInv
<1>2. /\ remote' = [t \in Titles |-> [type \in Types |-> remote'[t][type]]]
      /\ \A t \in Titles, type \in Types :
           remote'[t][type].at = IF t = work.title /\ type = work.type THEN work.seq
                                 ELSE remote[t][type].at
  BY <1>1, AppliedAt
<1>3. work.seq \in 1..db.clock /\ \A r \in db.rows : r.title = work.title => r.seq >= work.seq
  BY <1>1 DEF WorkSound
<1>4. db.clock \in Nat
  BY <1>1 DEF OutboxInv, Shaped
<1> HIDE DEF work
<1>5. \A t \in Titles, type \in Types : remote'[t][type].at \in 0..db'.clock
  BY <1>1, <1>2, <1>3, <1>4 DEF RemoteInv
<1>6. \A r \in db'.rows : \A type \in Types : r.seq >= remote'[r.title][type].at
  <2>1. \A r \in db.rows : r.title \in Titles
    BY <1>1 DEF OutboxInv, RowTyped
  <2> QED
    BY <1>1, <1>2, <1>3, <2>1 DEF RemoteInv
<1> QED
  BY <1>1, <1>2, <1>5, <1>6 DEF RemoteInv

LEMMA WorkerMoves ==
  ASSUME WorkerInv(db), NEW next, worker' = [worker EXCEPT !.pc = next]
  PROVE  /\ worker' = [pc |-> worker'.pc, row |-> worker'.row, token |-> worker'.token]
         /\ worker'.pc = next /\ worker'.row = worker.row /\ worker'.token = worker.token
<1> DEFINE row == worker.row  token == worker.token  pc == worker.pc
<1>1. worker = [pc |-> pc, row |-> row, token |-> token]
  BY DEF WorkerInv
<1> HIDE DEF row, token, pc
<1>2. worker' = [pc |-> next, row |-> row, token |-> token]
  BY <1>1
<1>3. worker.row = row /\ worker.token = token
  BY <1>1
<1> QED
  BY <1>2, <1>3

LEMMA SendKeeps ==
  ASSUME TrackingInv, Send \/ SendFails
  PROVE  TrackingInv'
<1>1. /\ UNCHANGED <<authorization, polling, conn, sync, db>>
      /\ UNCHANGED spent \/ spent' = [spent EXCEPT !.faults = @ + 1]
      /\ worker.pc = "sending" /\ worker.token = conn
      /\ remote' = remote \/ remote' = Applied(worker.row)
      /\ worker' = [worker EXCEPT !.pc = "done"] \/ worker' = [worker EXCEPT !.pc = "failed"]
  BY DEF Send, SendFails, Deliver
<1>2. OutboxInv(db, sync)' /\ DisconnectedEmpty(db)'
  BY <1>1, OutboxSame
<1>3. AccountInv' /\ spent'.connects = spent.connects
  BY <1>1, AccountKept DEF TrackingInv, AccountInv
<1>4. RemoteInv(db)'
  <2>1. CASE remote' = remote
    BY <1>1, <2>1 DEF TrackingInv, RemoteInv
  <2>2. CASE remote' = Applied(worker.row)
    BY <1>1, <2>2, AppliedKeeps
  <2> QED
    BY <1>1, <2>1, <2>2
<1>5. WorkerInv(db)
  BY DEF TrackingInv
<1>6. /\ worker' = [pc |-> worker'.pc, row |-> worker'.row, token |-> worker'.token]
      /\ worker'.pc \in {"done", "failed"} /\ worker'.row = worker.row
      /\ worker'.token = worker.token
  BY <1>1, <1>5, WorkerMoves
<1>7. WorkSound(db)'
  BY <1>1, <1>5, <1>6 DEF WorkerInv, WorkSound
<1>8. WorkerInv(db)'
  BY <1>3, <1>5, <1>6, <1>7 DEF WorkerInv
<1> QED
  BY <1>2, <1>3, <1>4, <1>8 DEF TrackingInv

LEMMA BackToIdle ==
  ASSUME AccountInv', worker' = Idle
  PROVE  WorkerInv(db)'
BY DEF WorkerInv, Idle, AccountInv

LEMMA CompleteStep ==
  ASSUME TrackingInv, Complete
  PROVE  /\ Done(worker.row) \in SUBSET db.rows
         /\ db' = [db EXCEPT !.rows = Done(worker.row)]
         /\ worker' = Idle
         /\ UNCHANGED <<authorization, polling, conn, sync, remote, spent>>
BY DEF Complete, Done

LEMMA CompleteKeeps ==
  ASSUME TrackingInv, Complete
  PROVE  TrackingInv'
<1>1. /\ Done(worker.row) \in SUBSET db.rows
      /\ db' = [db EXCEPT !.rows = Done(worker.row)]
      /\ worker' = Idle
      /\ UNCHANGED <<authorization, polling, conn, sync, remote, spent>>
  BY CompleteStep
<1>2. OutboxInv(db, sync)' /\ DisconnectedEmpty(db)' /\ RemoteInv(db)' /\ AccountInv'
  BY <1>1, DeletedStep
<1> QED
  BY <1>1, <1>2, BackToIdle DEF TrackingInv

\* A retry deletes the row, gives it back, or does not find it any more.  It is given back only
\* when no pending row took its place.
LEMMA RetryStep ==
  ASSUME TrackingInv, Retry
  PROVE  /\ worker' = Idle
         /\ UNCHANGED <<authorization, polling, conn, sync, remote, spent>>
         /\ \/ /\ db' = [db EXCEPT !.rows = Done(worker.row)]
               /\ \/ ~Current(db.heads, worker.row)
                  \/ \E r \in Pending(db.rows, worker.row) : r.id # worker.row.id
            \/ db' = [db EXCEPT !.rows = db.rows]
            \/ \E r, m :
                 /\ r \in db.rows
                 /\ r.id = worker.row.id /\ Marked(m, r) /\ Current(db.heads, r)
                 /\ \A q \in db.rows : q.lease = "none" /\ q.title = r.title
                                         /\ q.type = r.type => q = r
                 /\ db' = [db EXCEPT !.rows = (db.rows \ {r}) \cup {m}]
<1> DEFINE work == worker.row
           superseded == \/ ~Current(db.heads, work)
                         \/ \E r \in Pending(db.rows, work) : r.id # work.id
<1>1. /\ worker' = Idle /\ worker.pc = "failed"
      /\ UNCHANGED <<authorization, polling, conn, sync, remote, spent>>
      /\ db' = [db EXCEPT !.rows = Retried(work)]
  BY DEF Retry
<1>2. WorkSound(db) /\ OutboxInv(db, sync) /\ IdsUnique(db)
  BY <1>1 DEF TrackingInv, WorkerInv, OutboxInv
<1>3. CASE superseded
  <2>1. Retried(work) = Done(work)
    BY <1>3 DEF Retried
  <2> QED
    BY <1>1, <1>3, <2>1
<1>4. CASE ~superseded /\ ~\E r \in db.rows : r.id = work.id
  <2>1. Retried(work) = db.rows
    BY <1>4 DEF Retried
  <2> QED
    BY <1>1, <2>1
<1>5. CASE ~superseded /\ \E r \in db.rows : r.id = work.id
  <2>1. PICK r \in db.rows : r.id = work.id
    BY <1>5
  <2>2. RowTyped(r, db, sync)
    BY <1>2 DEF OutboxInv
  <2> DEFINE m == [r EXCEPT !.lease = "none", !.due = FALSE]
  <2>3. Marked(m, r)
    BY <2>2, MarkedRow
  <2>4. Retried(work) = (db.rows \ {r}) \cup {m}
    <3>1. \A q \in db.rows : q.id = work.id <=> q = r
      BY <1>2, <2>1 DEF IdsUnique
    <3>2. Retried(work) = {IF q.id = work.id THEN [q EXCEPT !.lease = "none", !.due = FALSE]
                           ELSE q : q \in db.rows}
      BY <1>5 DEF Retried
    <3>3. ASSUME NEW x \in Retried(work) PROVE x \in (db.rows \ {r}) \cup {m}
      <4>1. PICK q \in db.rows :
              x = IF q.id = work.id THEN [q EXCEPT !.lease = "none", !.due = FALSE] ELSE q
        BY <3>2, <3>3
      <4>2. CASE q = r
        BY <2>1, <4>1, <4>2, Zenon
      <4>3. CASE q # r
        BY <3>1, <4>1, <4>3
      <4> QED
        BY <4>2, <4>3
    <3>4. ASSUME NEW x \in (db.rows \ {r}) \cup {m} PROVE x \in Retried(work)
      <4>1. CASE x = m
        <5>1. m = IF r.id = work.id THEN [r EXCEPT !.lease = "none", !.due = FALSE] ELSE r
          BY <2>1, Zenon
        <5> QED
          BY <3>2, <4>1, <5>1, Zenon
      <4>2. CASE x \in db.rows /\ x # r
        <5>1. x = IF x.id = work.id THEN [x EXCEPT !.lease = "none", !.due = FALSE] ELSE x
          BY <3>1, <4>2, Zenon
        <5> QED
          BY <3>2, <4>2, <5>1, Zenon
      <4> QED
        BY <3>4, <4>1, <4>2
    <3> HIDE DEF m
    <3> QED
      BY <3>3, <3>4, Zenon
  <2> HIDE DEF m
  <2>5. /\ r.title = work.title /\ r.type = work.type /\ r.key = work.key /\ r.lease = "held"
    BY <1>2, <2>1 DEF WorkSound
  <2>6. Current(db.heads, r)
    BY <1>5, <2>5 DEF Current
  <2>7. \A q \in db.rows : q.lease = "none" /\ q.title = r.title /\ q.type = r.type => q = r
    <3> SUFFICES ASSUME NEW q \in db.rows, q.lease = "none", q.title = r.title, q.type = r.type
                 PROVE  q = r
      OBVIOUS
    <3>1. q \in Pending(db.rows, work)
      BY <2>5 DEF Pending
    <3>2. q.id = work.id
      BY <1>5, <3>1
    <3> QED
      BY <1>2, <2>1, <3>2 DEF IdsUnique
  <2>8. db' = [db EXCEPT !.rows = (db.rows \ {r}) \cup {m}]
    BY <1>1, <2>4, Zenon
  <2> HIDE DEF superseded, work
  <2>9. r.id = worker.row.id
    BY <2>1 DEF work
  <2> QED
    BY <1>1, <2>3, <2>6, <2>7, <2>8, <2>9, Zenon
<1> QED
  BY <1>3, <1>4, <1>5

\* Giving the row back: MarkedStep's conclusion without its premise on the lease.
LEMMA GivenBack ==
  ASSUME TrackingInv, NEW r \in db.rows, NEW m, Marked(m, r), Current(db.heads, r),
         \A q \in db.rows : q.lease = "none" /\ q.title = r.title /\ q.type = r.type => q = r,
         NEW rows, rows = (db.rows \ {r}) \cup {m}, db' = [db EXCEPT !.rows = rows],
         UNCHANGED <<authorization, polling, conn, sync, remote, spent>>
  PROVE  /\ OutboxInv(db, sync)' /\ DisconnectedEmpty(db)' /\ RemoteInv(db)' /\ AccountInv'
         /\ db'.rows = rows /\ db'.heads = db.heads
         /\ db'.clock = db.clock
<1>2. Shaped(db) /\ OutboxInv(db, sync)
  BY DEF TrackingInv, OutboxInv
<1>3. /\ db'.rows = rows /\ db'.heads = db.heads /\ db'.clock = db.clock /\ Shaped(db')
  BY <1>2, WithRows
<1>4. OutboxInv(db', sync)
  BY <1>2, <1>3, MarkedKeeps
<1>5. RemoteInv(db')
  BY <1>3, RemoteMarked DEF TrackingInv
<1>6. RemoteInv(db)'
  BY <1>5 DEF RemoteInv
<1>7. AccountInv' /\ DisconnectedEmpty(db)'
  BY DEF TrackingInv, AccountInv, DisconnectedEmpty
<1> QED
  BY <1>3, <1>4, <1>6, <1>7

LEMMA RetryKeeps ==
  ASSUME TrackingInv, Retry
  PROVE  TrackingInv'
<1>1. /\ worker' = Idle
      /\ UNCHANGED <<authorization, polling, conn, sync, remote, spent>>
  BY RetryStep
<1>2. OutboxInv(db, sync)' /\ DisconnectedEmpty(db)' /\ RemoteInv(db)' /\ AccountInv'
  <2>1. CASE db' = [db EXCEPT !.rows = Done(worker.row)]
    <3>1. Done(worker.row) \in SUBSET db.rows
      BY DEF Done
    <3> QED
      BY <1>1, <2>1, <3>1, DeletedStep
  <2>2. CASE db' = [db EXCEPT !.rows = db.rows]
    <3>1. db.rows \in SUBSET db.rows
      OBVIOUS
    <3> QED
      BY <1>1, <2>2, <3>1, DeletedStep
  <2>3. CASE \E r, m :
                 /\ r \in db.rows
                 /\ r.id = worker.row.id /\ Marked(m, r) /\ Current(db.heads, r)
                 /\ \A q \in db.rows : q.lease = "none" /\ q.title = r.title
                                         /\ q.type = r.type => q = r
                 /\ db' = [db EXCEPT !.rows = (db.rows \ {r}) \cup {m}]
    <3>1. PICK r, m :
                 /\ r \in db.rows
                 /\ r.id = worker.row.id /\ Marked(m, r) /\ Current(db.heads, r)
                 /\ \A q \in db.rows : q.lease = "none" /\ q.title = r.title
                                         /\ q.type = r.type => q = r
                 /\ db' = [db EXCEPT !.rows = (db.rows \ {r}) \cup {m}]
      BY <2>3
    <3> DEFINE rows == (db.rows \ {r}) \cup {m}
    <3>2. rows = (db.rows \ {r}) \cup {m} /\ db' = [db EXCEPT !.rows = rows]
      BY <3>1
    <3> HIDE DEF rows
    <3> QED
      BY <1>1, <3>1, <3>2, GivenBack
  <2> QED
    BY <2>1, <2>2, <2>3, RetryStep
<1> QED
  BY <1>1, <1>2, BackToIdle DEF TrackingInv

LEMMA CrashKeeps ==
  ASSUME TrackingInv, Crash
  PROVE  TrackingInv'
<1>1. /\ worker' = Idle /\ spent' = [spent EXCEPT !.faults = @ + 1]
      /\ UNCHANGED <<authorization, polling, conn, sync, db, remote>>
  BY DEF Crash
<1>2. OutboxInv(db, sync)' /\ DisconnectedEmpty(db)'
  BY <1>1, OutboxSame
<1>3. AccountInv'
  BY <1>1, AccountKept DEF TrackingInv, AccountInv
<1>4. RemoteInv(db)'
  BY <1>1 DEF TrackingInv, RemoteInv
<1> QED
  BY <1>1, <1>2, <1>3, <1>4, BackToIdle DEF TrackingInv

LEMMA TrackingStepKeeps ==
  ASSUME TrackingInv, TrackingStep
  PROVE  TrackingInv'
BY AuthorizationKeeps, DisconnectKeeps, RowTimerKeeps, ClaimKeeps, WorkingKeeps, SendKeeps,
   CompleteKeeps, RetryKeeps, CrashKeeps DEF TrackingStep, WorkerStep

-----------------------------------------------------------------------------
(* The changes of the watch state.                                         *)

LEMMA TitleEventSound ==
  ASSUME NEW t \in Titles, NEW p, NEW key, NEW value
  PROVE  /\ EventsSound({ProgressEvent(t, p)}) /\ EventsSound({WatchedEvent(t, p)})
         /\ EventsSound({LibraryEvent(t, key, value)})
         /\ EventsSound({Event(t, "progress", key, value)})
<1>1. /\ ProgressEvent(t, p).title = t /\ ProgressEvent(t, p).type \in Types
      /\ WatchedEvent(t, p).title = t /\ WatchedEvent(t, p).type \in Types
      /\ LibraryEvent(t, key, value).title = t /\ LibraryEvent(t, key, value).type \in Types
      /\ Event(t, "progress", key, value).title = t
      /\ Event(t, "progress", key, value).type \in Types
  BY DEF ProgressEvent, WatchedEvent, LibraryEvent, Event, Types
<1> QED
  BY <1>1, OneEvent

LEMMA BatchEventsSound ==
  ASSUME NEW batch \in SUBSET Titles, NEW changed
  PROVE  EventsSound({WatchedEvent(t, changed[t]) : t \in batch})
<1> DEFINE f == [t \in batch |-> WatchedEvent(t, changed[t])]
           events == {WatchedEvent(t, changed[t]) : t \in batch}
<1>1. \A t \in batch : f[t].title = t /\ f[t].type \in Types
  BY DEF WatchedEvent, Event, Types
<1>2. events = {f[t] : t \in batch}
  OBVIOUS
<1> HIDE DEF f, events
<1>3. EventsSound(events)
  BY <1>1, <1>2, TitleEvents
<1> QED
  BY <1>3 DEF events

LEMMA WriteRecords ==
  ASSUME Write
  PROVE  \E events : EventsSound(events) /\ Record(events)
<1>1. ASSUME NEW t \in Titles, NEW v, NEW input, UpdateProgress(t, v, input)
      PROVE  \E events : EventsSound(events) /\ Record(events)
  BY <1>1, TitleEventSound DEF UpdateProgress
<1>2. ASSUME NEW t \in Titles, NEW v, NEW completed, SetWatched(t, v, completed)
      PROVE  \E events : EventsSound(events) /\ Record(events)
  BY <1>2, TitleEventSound DEF SetWatched
<1>3. ASSUME NEW batch \in (SUBSET Titles) \ {{}}, NEW completed \in [batch -> BOOLEAN], NEW v,
             SetWatchedBatch(completed, v)
      PROVE  \E events : EventsSound(events) /\ Record(events)
  <2> DEFINE changed == [t \in Titles |-> IF t \in DOMAIN completed
                                          THEN Watched(progress[t], completed[t])
                                          ELSE progress[t]]
             events == {WatchedEvent(t, changed[t]) : t \in DOMAIN completed}
  <2>1. Record(events)
    BY <1>3 DEF SetWatchedBatch
  <2>2. DOMAIN completed \in SUBSET Titles
    OBVIOUS
  <2> HIDE DEF changed
  <2>3. EventsSound(events)
    BY <2>2, BatchEventsSound
  <2> HIDE DEF events
  <2> QED
    BY <2>1, <2>3
<1>4. ASSUME NEW t \in Titles, NEW v, ClearProgress(t, v)
      PROVE  \E events : EventsSound(events) /\ Record(events)
  BY <1>4, TitleEventSound DEF ClearProgress
<1>5. ASSUME NEW t \in Titles, NEW input, UpdateUserData(t, input)
      PROVE  \E events : EventsSound(events) /\ Record(events)
  <2>1. PICK p : Record({ProgressEvent(t, p)}) \/ Record({})
    BY <1>5 DEF UpdateUserData
  <2> QED
    BY <2>1, TitleEventSound, NoEvents
<1>6. ASSUME NEW t \in Titles, AddLibrary(t) \/ RemoveLibrary(t) \/ DismissContinue(t)
      PROVE  \E events : EventsSound(events) /\ Record(events)
  <2>1. \E key, value : Record({LibraryEvent(t, key, value)}) \/ Record({})
    BY <1>6 DEF AddLibrary, RemoveLibrary, DismissContinue
  <2> QED
    BY <2>1, TitleEventSound, NoEvents
<1> QED
  BY <1>1, <1>2, <1>3, <1>4, <1>5, <1>6 DEF Write

LEMMA WatchedRow ==
  ASSUME NEW p, ProgressRow(p), NEW completed
  PROVE  /\ ProgressRow(Watched(p, completed))
         /\ Watched(p, completed).completed = completed
         /\ Watched(p, completed).position = IF completed THEN p.duration ELSE 0
<1> DEFINE version == p.version  position == p.position  duration == p.duration
           was == p.completed  more == version + 1
           place == IF completed THEN p.duration ELSE 0
           first == [p EXCEPT !.version = more]
           second == [first EXCEPT !.completed = completed]
           third == [second EXCEPT !.position = place]
<1>1. /\ p = [version |-> version, position |-> position, duration |-> duration,
              completed |-> was]
      /\ more \in Nat /\ more # 0
  BY DEF ProgressRow
<1>2. Watched(p, completed) = third
  BY Zenon DEF Watched
<1> HIDE DEF version, position, duration, was, more, place, first, second, third
<1>3. first = [version |-> more, position |-> position, duration |-> duration,
               completed |-> was]
  BY <1>1 DEF first
<1>4. second = [version |-> more, position |-> position, duration |-> duration,
                completed |-> completed]
  BY <1>3 DEF second
<1>5. third = [version |-> more, position |-> place, duration |-> duration,
               completed |-> completed]
  BY <1>4 DEF third
<1>6. /\ third.version = more /\ third.position = place /\ third.duration = duration
      /\ third.completed = completed
  BY <1>5
<1>7. ProgressRow(third)
  BY <1>1, <1>5, <1>6 DEF ProgressRow
<1> QED
  BY <1>2, <1>6, <1>7, Zenon DEF place

LEMMA NewRow ==
  ASSUME NEW version \in Nat, NEW position, NEW duration, NEW completed
  PROVE  ProgressRow([version |-> version + 1, position |-> position, duration |-> duration,
                      completed |-> completed])
<1> DEFINE more == version + 1
           p == [version |-> more, position |-> position, duration |-> duration,
                 completed |-> completed]
<1>1. more \in Nat /\ more # 0
  OBVIOUS
<1> HIDE DEF more
<1>2. /\ p.version = more /\ p.position = position /\ p.duration = duration
      /\ p.completed = completed
  OBVIOUS
<1>3. p = [version |-> p.version, position |-> p.position, duration |-> p.duration,
           completed |-> p.completed]
  OBVIOUS
<1> HIDE DEF p
<1>4. ProgressRow(p)
  BY <1>1, <1>2, <1>3 DEF ProgressRow
<1> QED
  BY <1>4 DEF p, more

LEMMA RowWritten ==
  ASSUME ProgressInv, NEW t \in Titles, NEW p, ProgressRow(p),
         progress' = [progress EXCEPT ![t] = p]
  PROVE  ProgressInv'
<1>1. progress' = [u \in Titles |-> IF u = t THEN p ELSE progress[u]]
  BY DEF ProgressInv
<1>2. \A u \in Titles : progress'[u] = IF u = t THEN p ELSE progress[u]
  BY <1>1
<1>3. progress' = [u \in Titles |-> progress'[u]]
  BY <1>1
<1>4. \A u \in Titles : ProgressRow(progress'[u])
  BY <1>2 DEF ProgressInv
<1> QED
  BY <1>3, <1>4 DEF ProgressInv

LEMMA WriteProgress ==
  ASSUME ProgressInv, Write
  PROVE  ProgressInv'
<1>0. ASSUME UNCHANGED progress PROVE ProgressInv'
  BY <1>0 DEF ProgressInv
<1>1. ASSUME NEW t \in Titles, NEW v, NEW input, UpdateProgress(t, v, input)
      PROVE  ProgressInv'
  <2> DEFINE p == [version |-> v + 1, position |-> input.position,
                   duration |-> 1, completed |-> input.completed]
  <2>1. progress' = [progress EXCEPT ![t] = p] /\ progress[t].version = v
    BY <1>1 DEF UpdateProgress
  <2>2. v \in Nat
    BY <2>1 DEF ProgressInv, ProgressRow
  <2>3. ProgressRow(p)
    BY <2>2, NewRow
  <2> HIDE DEF p
  <2> QED
    BY <2>1, <2>3, RowWritten
<1>2. ASSUME NEW t \in Titles, NEW v, NEW completed, SetWatched(t, v, completed)
      PROVE  ProgressInv'
  <2> DEFINE p == Watched(progress[t], completed)
  <2>1. progress' = [progress EXCEPT ![t] = p]
    BY <1>2 DEF SetWatched
  <2>2. ProgressRow(p)
    BY WatchedRow DEF ProgressInv
  <2> HIDE DEF p
  <2> QED
    BY <2>1, <2>2, RowWritten
<1>3. ASSUME NEW completed, NEW v, SetWatchedBatch(completed, v)
      PROVE  ProgressInv'
  <2>1. progress' = [t \in Titles |-> IF t \in DOMAIN completed
                                      THEN Watched(progress[t], completed[t])
                                      ELSE progress[t]]
    BY <1>3 DEF SetWatchedBatch
  <2>2. \A t \in Titles : progress'[t] = IF t \in DOMAIN completed
                                         THEN Watched(progress[t], completed[t])
                                         ELSE progress[t]
    BY <2>1
  <2>3. progress' = [t \in Titles |-> progress'[t]]
    BY <2>1
  <2>4. \A t \in Titles : ProgressRow(progress'[t])
    BY <2>2, WatchedRow DEF ProgressInv
  <2> QED
    BY <2>3, <2>4 DEF ProgressInv
<1>4. ASSUME NEW t \in Titles, NEW v, ClearProgress(t, v)
      PROVE  ProgressInv'
  <2>1. progress' = [progress EXCEPT ![t] = NoProgress]
    BY <1>4 DEF ClearProgress
  <2>2. ProgressRow(NoProgress)
    BY DEF ProgressRow, NoProgress
  <2> QED
    BY <2>1, <2>2, RowWritten
<1>5. ASSUME NEW t \in Titles, NEW input, UpdateUserData(t, input)
      PROVE  ProgressInv'
  <2>1. UNCHANGED progress
        \/ \E position, duration, played :
             progress' = [progress EXCEPT ![t] =
               [version |-> progress[t].version + 1, position |-> position,
                duration |-> duration, completed |-> played]]
    BY <1>5 DEF UpdateUserData
  <2>2. CASE UNCHANGED progress
    BY <1>0, <2>2
  <2>3. ASSUME NEW position, NEW duration, NEW played,
               progress' = [progress EXCEPT ![t] =
                 [version |-> progress[t].version + 1, position |-> position,
                  duration |-> duration, completed |-> played]]
        PROVE  ProgressInv'
    <3> DEFINE version == progress[t].version
               p == [version |-> version + 1, position |-> position,
                     duration |-> duration, completed |-> played]
    <3>1. version \in Nat
      BY DEF ProgressInv, ProgressRow
    <3>2. progress' = [progress EXCEPT ![t] = p]
      BY <2>3
    <3> HIDE DEF version
    <3>3. ProgressRow(p)
      BY <3>1, NewRow
    <3> HIDE DEF p
    <3> QED
      BY <3>2, <3>3, RowWritten
  <2> QED
    BY <2>1, <2>2, <2>3
<1>6. ASSUME NEW t \in Titles, AddLibrary(t) \/ RemoveLibrary(t) \/ DismissContinue(t)
      PROVE  ProgressInv'
  BY <1>0, <1>6 DEF AddLibrary, RemoveLibrary, DismissContinue
<1> QED
  BY <1>1, <1>2, <1>3, <1>4, <1>5, <1>6 DEF Write

-----------------------------------------------------------------------------
(* The theorems of the safety properties.                                  *)

LEMMA UsedRow ==
  ASSUME NEW t
  PROVE  ProgressRow(Used(t))
<1> DEFINE no == FALSE
           first == [NoProgress EXCEPT !.version = 1]
           second == [first EXCEPT !.position = 1]
           third == [second EXCEPT !.duration = 1]
<1>1. NoProgress = [version |-> 0, position |-> 0, duration |-> 0, completed |-> no]
  BY DEF NoProgress
<1>2. Used(t) = third
  BY Zenon DEF Used
<1> HIDE DEF no, first, second, third
<1>3. first = [version |-> 1, position |-> 0, duration |-> 0, completed |-> no]
  BY <1>1 DEF first
<1>4. second = [version |-> 1, position |-> 1, duration |-> 0, completed |-> no]
  BY <1>3 DEF second
<1>5. third = [version |-> 1, position |-> 1, duration |-> 1, completed |-> no]
  BY <1>4 DEF third
<1>6. third.version = 1 /\ third.position = 1 /\ third.duration = 1 /\ third.completed = no
  BY <1>5
<1>7. ProgressRow(third)
  BY <1>5, <1>6 DEF ProgressRow
<1> QED
  BY <1>2, <1>7, Zenon

LEMMA WatchInit == Init => WatchInv
<1> SUFFICES ASSUME Init PROVE WatchInv
  OBVIOUS
<1>1. TrackingInit
  BY DEF Init
<1> DEFINE none == [t \in Titles |-> [type \in Types |-> NoHead]]
<1>2. db = [heads |-> none, rows |-> {}, clock |-> 1, ok |-> TRUE]
  BY <1>1 DEF TrackingInit
<1> HIDE DEF none
<1>3. db.heads = none /\ db.rows = {} /\ db.clock = 1 /\ db.ok = TRUE
  BY <1>2
<1>4. Shaped(db)
  BY <1>2, <1>3 DEF Shaped
<1>5. HeadsTyped(db) /\ LibraryApart(db)
  BY <1>3 DEF HeadsTyped, LibraryApart, NoHead, Types, none
<1>6. Bounded(db)
  BY <1>3, FS_EmptySet, OutboxAssumption DEF Bounded
<1>7. OutboxInv(db, sync) /\ DisconnectedEmpty(db)
  BY <1>3, <1>4, <1>5, <1>6 DEF OutboxInv, IdsUnique, OnePending, PendingCurrent, DisconnectedEmpty
<1>8. AccountInv
  <2>1. spent = [connects |-> 0, toggles |-> 0, faults |-> 0, writes |-> 0]
    BY <1>1 DEF TrackingInit
  <2>2. /\ spent \in [connects : Nat, toggles : Nat, faults : Nat, writes : Nat]
        /\ spent.connects = 0 /\ spent.toggles = 0
    BY <2>1
  <2>3. /\ authorization = FALSE /\ polling = FALSE /\ conn = 0 /\ sync = Types
    BY <1>1 DEF TrackingInit
  <2>4. spent.connects + spent.toggles <= MaxChanges /\ conn \in 0..spent.connects
    BY <2>2, <2>3, OutboxAssumption
  <2>5. authorization \in BOOLEAN /\ polling \in BOOLEAN /\ sync \in SUBSET Types
    BY <2>3
  <2> QED
    BY <2>2, <2>4, <2>5 DEF AccountInv
<1>9. RemoteInv(db)
  <2>1. remote = [t \in Titles |-> [type \in Types |-> Unknown]]
    BY <1>1 DEF TrackingInit
  <2>2. \A t \in Titles, type \in Types : remote[t][type] = Unknown /\ Unknown.at = 0
    BY <2>1 DEF Unknown
  <2> QED
    BY <1>3, <2>1, <2>2 DEF RemoteInv
<1>10. WorkerInv(db)
  BY <1>1, <1>8 DEF TrackingInit, WorkerInv, Idle, AccountInv
<1>11. ProgressInv
  <2>1. \A t \in Titles : ProgressRow(NoProgress) /\ ProgressRow(Used(t))
    BY UsedRow DEF ProgressRow, NoProgress
  <2>2. \/ progress = [t \in Titles |-> NoProgress]
        \/ progress = [t \in Titles |-> IF Playable(t) THEN Used(t) ELSE NoProgress]
    BY DEF Init
  <2>3. \A t \in Titles : progress[t] = NoProgress \/ progress[t] = Used(t)
    BY <2>2
  <2>4. progress = [t \in Titles |-> progress[t]]
    BY <2>2
  <2> QED
    BY <2>1, <2>3, <2>4 DEF ProgressInv
<1> QED
  BY <1>7, <1>8, <1>9, <1>10, <1>11 DEF WatchInv, TrackingInv

LEMMA WatchStutters ==
  ASSUME WatchInv, UNCHANGED vars
  PROVE  WatchInv'
<1>1. UNCHANGED <<authorization, polling, conn, sync, db, worker, remote, spent, progress>>
  BY DEF vars, trackingVars, watchVars
<1>2. AccountInv' /\ ProgressInv'
  BY <1>1 DEF WatchInv, TrackingInv, AccountInv, ProgressInv
<1>3. OutboxInv(db, sync)' /\ DisconnectedEmpty(db)'
  BY <1>1, OutboxSame DEF WatchInv
<1>4. WorkerInv(db)' /\ RemoteInv(db)'
  BY <1>1, OthersKept DEF WatchInv, TrackingInv
<1> QED
  BY <1>2, <1>3, <1>4 DEF WatchInv, TrackingInv

LEMMA WatchNext == WatchInv /\ [Next]_vars => WatchInv'
<1> SUFFICES ASSUME WatchInv, [Next]_vars PROVE WatchInv'
  OBVIOUS
<1>1. CASE Write
  BY <1>1, WriteRecords, RecordKeeps, WriteProgress DEF WatchInv
<1>2. ASSUME UNCHANGED watchVars PROVE ProgressInv'
  BY <1>2 DEF WatchInv, ProgressInv, watchVars
<1>3. CASE Connect
  <2>1. UNCHANGED watchVars
    BY <1>3 DEF Connect
  <2> QED
    BY <1>2, <1>3, <2>1, ConnectKeeps DEF WatchInv
<1>4. CASE ChangePreferences
  <2>1. UNCHANGED watchVars
    BY <1>4 DEF ChangePreferences
  <2> QED
    BY <1>2, <1>4, <2>1, ChangePreferencesKeeps DEF WatchInv
<1>5. CASE TrackingStep
  <2>1. UNCHANGED watchVars
    BY <1>5 DEF TrackingStep
  <2> QED
    BY <1>2, <1>5, <2>1, TrackingStepKeeps DEF WatchInv
<1>6. CASE UNCHANGED vars
  BY <1>6, WatchStutters
<1> QED
  BY <1>1, <1>3, <1>4, <1>5, <1>6 DEF Next

LEMMA WatchInvariant == Spec => []WatchInv
<1>1. Init => WatchInv
  BY WatchInit
<1>2. WatchInv /\ [Next]_vars => WatchInv'
  BY WatchNext
<1> QED
  BY <1>1, <1>2, PTL DEF Spec

\* The variables have their types, a row has a head of its type that is no older, and a title
\* whose progress is cleared has no remains of it (ClearProgress, enqueueBatchWithProviderTx).
THEOREM WatchTypeCorrect == Spec => []TypeOK
<1>1. WatchInv => TypeOK
  <2> SUFFICES ASSUME WatchInv PROVE TypeOK
    OBVIOUS
  <2>1. /\ authorization \in BOOLEAN /\ polling \in BOOLEAN /\ conn \in 0..spent.connects
        /\ sync \in SUBSET Types /\ spent.connects + spent.toggles <= MaxChanges
        /\ spent.connects \in Nat /\ spent.toggles \in Nat
    BY DEF WatchInv, TrackingInv, AccountInv
  <2>2. conn \in 0..MaxChanges
    BY <2>1, OutboxAssumption
  <2>3. \A r \in db.rows :
          /\ r.title \in Titles /\ r.type \in sync
          /\ r.seq \in 1..db.clock /\ r.due \in BOOLEAN
          /\ r.lease \in {"none", "held", "expired"}
          /\ db.heads[r.title][r.type].at >= r.seq
    BY DEF WatchInv, TrackingInv, OutboxInv, RowTyped
  <2>4. \A r \in db.rows : conn # 0
    BY DEF WatchInv, TrackingInv, DisconnectedEmpty
  <2>5. worker.pc \in {"idle", "claimed", "latest", "sending", "done", "failed"}
    BY DEF WatchInv, TrackingInv, WorkerInv
  <2>6. \A t \in Titles : progress[t].version = 0 => progress[t] = NoProgress
    BY DEF WatchInv, ProgressInv, ProgressRow
  <2> QED
    BY <2>1, <2>2, <2>3, <2>4, <2>5, <2>6 DEF TypeOK
<1> QED
  BY <1>1, WatchInvariant, PTL

\* The outbox never holds more rows than its limit, and a title and type have one pending row at
\* most, in whatever order rows are admitted, leased, retried and replaced
\* (enqueueBatchWithProviderTx, profile_tracking_outbox_pending_event_idx).
THEOREM WatchOutboxBounded == Spec => []OutboxBounded
<1>1. WatchInv => OutboxBounded
  BY DEF WatchInv, TrackingInv, OutboxInv, Bounded, OnePending, OutboxBounded
<1> QED
  BY <1>1, WatchInvariant, PTL

-----------------------------------------------------------------------------
(* The refinement: what is due and what has been seen.                      *)

DueOf(seen, rows) == Max({seen} \cup {r.seq : r \in rows})

LEMMA DueLargest ==
  ASSUME NEW seen, NEW rows, NEW n \in Nat, seen \in 0..n, \A r \in rows : r.seq \in 0..n
  PROVE  /\ DueOf(seen, rows) \in 0..n
         /\ DueOf(seen, rows) >= seen
         /\ \A r \in rows : DueOf(seen, rows) >= r.seq
         /\ DueOf(seen, rows) = seen \/ \E r \in rows : DueOf(seen, rows) = r.seq
<1> DEFINE S == {seen} \cup {r.seq : r \in rows}
<1>1. S \subseteq Nat /\ S # {} /\ \A x \in S : x <= n
  OBVIOUS
<1>2. Max(S) \in S /\ \A x \in S : x <= Max(S)
  <2> HIDE DEF S
  <2> QED
    BY <1>1, Largest
<1>3. DueOf(seen, rows) = Max(S)
  BY DEF DueOf
<1>4. seen \in S /\ \A r \in rows : r.seq \in S
  OBVIOUS
<1>5. Max(S) \in 0..n /\ Max(S) >= seen /\ \A r \in rows : Max(S) >= r.seq
  BY <1>1, <1>2, <1>4
<1>6. Max(S) = seen \/ \E r \in rows : Max(S) = r.seq
  BY <1>2
<1> QED
  BY <1>3, <1>5, <1>6

DueRows(t, type) ==
  {q \in db.rows : /\ q.title = t /\ q.type = type
                   /\ Current(db.heads, q) /\ ~Completing(q)}

SeenSound(t, type) == Seen(t, type) \in 0..db.clock /\ db.clock \in Nat

DueSound(t, type) ==
  /\ Due(t, type) \in 0..db.clock /\ Due(t, type) >= Seen(t, type)
  /\ \A r \in DueRows(t, type) : r.seq \in Nat /\ Due(t, type) >= r.seq
  /\ Due(t, type) = Seen(t, type) \/ \E r \in DueRows(t, type) : Due(t, type) = r.seq

LEMMA FeedNow ==
  TrackingInv => \A t \in Titles, type \in Types : SeenSound(t, type) /\ DueSound(t, type)
<1> SUFFICES ASSUME TrackingInv, NEW t \in Titles, NEW type \in Types
             PROVE  SeenSound(t, type) /\ DueSound(t, type)
  OBVIOUS
<1>1. db.clock \in Nat
  BY DEF TrackingInv, OutboxInv, Shaped
<1>2. Seen(t, type) \in 0..db.clock
  BY DEF TrackingInv, RemoteInv, Seen
<1>3. \A r \in DueRows(t, type) : r.seq \in 0..db.clock
  BY <1>1 DEF DueRows, TrackingInv, OutboxInv, RowTyped
<1>4. Due(t, type) = DueOf(Seen(t, type), DueRows(t, type))
  BY DEF Due, DueOf, DueRows
<1>5. DueSound(t, type)
  BY <1>1, <1>2, <1>3, <1>4, DueLargest DEF DueSound
<1> QED
  BY <1>1, <1>2, <1>5 DEF SeenSound

LEMMA FeedThen ==
  TrackingInv' => \A t \in Titles, type \in Types : SeenSound(t, type)' /\ DueSound(t, type)'
<1>1. (TrackingInv => \A t \in Titles, type \in Types :
                        SeenSound(t, type) /\ DueSound(t, type))'
  BY FeedNow, PTL
<1> QED
  BY <1>1

\* The steps of the feed.
LEMMA Resubscribed ==
  ASSUME TrackingInv', conn' # conn \/ sync' # sync \/ ~(Leaving' <=> Leaving)
  PROVE  Feed!Next
<1>1. \A t \in Titles, type \in Types : Seen(t, type)' <= Due(t, type)'
  BY FeedThen DEF SeenSound, DueSound
<1>2. <<conn, sync, Leaving>>' # <<conn, sync, Leaving>>
  OBVIOUS
<1>3. Feed!Resubscribe
  BY <1>1, <1>2 DEF Feed!Resubscribe
<1> QED
  BY <1>3 DEF Feed!Next

\* What is due of the title and type may be withdrawn for something newer of another type.
Withdrawn(t, type) ==
  \E other \in Overrides[type] : \A any \in Types : Due(t, other)' > Due(t, any)

LEMMA Admitted ==
  ASSUME conn' = conn, sync' = sync, Leaving' <=> Leaving,
         \A t \in Titles, type \in Types :
            /\ Seen(t, type)' = Seen(t, type)
            /\ Due(t, type)' >= Due(t, type) \/ Withdrawn(t, type)
  PROVE  Feed!Next
<1> DEFINE seen == [t \in Titles |-> [type \in Types |-> Seen(t, type)]]
           due == [t \in Titles |-> [type \in Types |-> Due(t, type)]]
<1>1. <<conn, sync, Leaving>>' = <<conn, sync, Leaving>>
  OBVIOUS
<1>2. seen' = seen
  OBVIOUS
<1>3. \A t \in Titles, type \in Types :
        due[t][type] = Due(t, type) /\ due'[t][type] = Due(t, type)'
  OBVIOUS
<1>4. \A type \in Types : Overrides[type] \subseteq Types
  BY DEF Overrides, Types
<1>5. \A t \in Titles, type \in Types :
        \/ due'[t][type] >= due[t][type]
        \/ \E other \in Overrides[type] : \A any \in Types : due'[t][other] > due[t][any]
  <2> HIDE DEF seen, due
  <2> QED
    BY <1>3, <1>4 DEF Withdrawn
<1>6. Feed!Admit
  BY <1>1, <1>2, <1>5 DEF Feed!Admit
<1> QED
  BY <1>6 DEF Feed!Next

LEMMA Delivered ==
  ASSUME conn' = conn, sync' = sync, Leaving' <=> Leaving,
         NEW t \in Titles, NEW type \in Types, NEW n, Seen(t, type)' = n,
         Due(t, type)' = IF n > Due(t, type) THEN n ELSE Due(t, type),
         \A u \in Titles, any \in Types : ~(u = t /\ any = type) =>
            Seen(u, any)' = Seen(u, any) /\ Due(u, any)' = Due(u, any),
         \A any \in Types :
            /\ Seen(t, any) <= n
            /\ Seen(t, any) < Due(t, any) => n <= Due(t, any)
  PROVE  Feed!Next
<1> DEFINE seen == [u \in Titles |-> [any \in Types |-> Seen(u, any)]]
           due == [u \in Titles |-> [any \in Types |-> Due(u, any)]]
           later == IF n > Due(t, type) THEN n ELSE Due(t, type)
<1>1. <<conn, sync, Leaving>>' = <<conn, sync, Leaving>>
  OBVIOUS
<1>2. /\ seen' = [u \in Titles |-> [any \in Types |->
                    IF u = t /\ any = type THEN n ELSE seen[u][any]]]
      /\ due' = [u \in Titles |-> [any \in Types |->
                   IF u = t /\ any = type THEN later ELSE due[u][any]]]
  <2> HIDE DEF later
  <2>1. Due(t, type)' = later
    BY DEF later
  <2> QED
    BY <2>1
<1>3. \A u \in Titles, any \in Types : seen[u][any] = Seen(u, any) /\ due[u][any] = Due(u, any)
  OBVIOUS
<1>4. /\ seen = [u \in Titles |-> [any \in Types |-> seen[u][any]]]
      /\ due = [u \in Titles |-> [any \in Types |-> due[u][any]]]
  OBVIOUS
<1> HIDE DEF seen, due
<1>5. /\ seen' = [seen EXCEPT ![t][type] = n]
      /\ due' = [due EXCEPT ![t][type] = later]
  BY <1>2, <1>4
<1>6. seen'[t][type] = n
  BY <1>2
<1>7. \E u \in Titles, any \in Types :
        LET m == seen'[u][any] IN
        /\ seen' = [seen EXCEPT ![u][any] = m]
        /\ due' = [due EXCEPT ![u][any] = IF m > @ THEN m ELSE @]
        /\ \A k \in Types :
              /\ seen[u][k] <= m
              /\ seen[u][k] < due[u][k] => m <= due[u][k]
  <2>1. due' = [due EXCEPT ![t][type] = IF n > @ THEN n ELSE @]
    BY <1>3, <1>5
  <2>2. /\ seen' = [seen EXCEPT ![t][type] = seen'[t][type]]
        /\ due' = [due EXCEPT ![t][type] = IF seen'[t][type] > @ THEN seen'[t][type] ELSE @]
    BY <1>5, <1>6, <2>1
  <2>3. \A k \in Types :
          /\ seen[t][k] <= seen'[t][type]
          /\ seen[t][k] < due[t][k] => seen'[t][type] <= due[t][k]
    BY <1>3, <1>6
  <2> QED
    BY <2>2, <2>3
<1>8. Feed!Deliver
  BY <1>1, <1>7 DEF Feed!Deliver, seen, due
<1> QED
  BY <1>8 DEF Feed!Next

\* Whatever was due of a title and type is still due, something newer is, or it was seen already;
\* or a newer event of a type that overrides it is due.
StillDue ==
  \A t \in Titles, type \in Types : \A r \in DueRows(t, type) :
    \/ r.seq <= Seen(t, type)
    \/ \E q \in DueRows(t, type)' : q.seq >= r.seq
    \/ \E other \in Overrides[type] : \E q \in DueRows(t, other)' : q.seq > db.clock

LEMMA NothingLost ==
  ASSUME TrackingInv, TrackingInv', conn' = conn, sync' = sync, Leaving' <=> Leaving,
         \A t \in Titles, type \in Types : remote'[t][type].at = remote[t][type].at,
         StillDue
  PROVE  Feed!Next
<1>1. \A t \in Titles, type \in Types : Seen(t, type)' = Seen(t, type)
  BY DEF Seen
<1>2. ASSUME NEW t \in Titles, NEW type \in Types
      PROVE  Due(t, type)' >= Due(t, type) \/ Withdrawn(t, type)
  <2>1. SeenSound(t, type) /\ DueSound(t, type) /\ DueSound(t, type)'
    BY FeedNow, FeedThen
  <2>2. CASE Due(t, type) = Seen(t, type)
    BY <1>1, <2>1, <2>2 DEF DueSound
  <2>3. CASE \E r \in DueRows(t, type) : Due(t, type) = r.seq
    <3>1. PICK r \in DueRows(t, type) : Due(t, type) = r.seq
      BY <2>3
    <3>2. CASE r.seq <= Seen(t, type)
      BY <1>1, <2>1, <3>1, <3>2 DEF DueSound, SeenSound
    <3>3. CASE \E q \in DueRows(t, type)' : q.seq >= r.seq
      BY <2>1, <3>1, <3>3 DEF DueSound
    <3>4. CASE \E other \in Overrides[type] : \E q \in DueRows(t, other)' : q.seq > db.clock
      <4>1. PICK other \in Overrides[type] : \E q \in DueRows(t, other)' : q.seq > db.clock
        BY <3>4
      <4>2. other \in Types
        BY DEF Overrides, Types
      <4>3. DueSound(t, other)' /\ \A any \in Types : SeenSound(t, any) /\ DueSound(t, any)
        BY <4>2, FeedNow, FeedThen
      <4>4. PICK q \in DueRows(t, other)' : q.seq > db.clock
        BY <4>1
      <4>5. q.seq \in Nat /\ Due(t, other)' >= q.seq /\ Due(t, other)' \in Nat
        BY <4>3 DEF DueSound
      <4>6. \A any \in Types : Due(t, other)' > Due(t, any)
        BY <4>3, <4>4, <4>5 DEF DueSound, SeenSound
      <4> QED
        BY <4>6 DEF Withdrawn
    <3> QED
      BY <3>2, <3>3, <3>4 DEF StillDue
  <2> QED
    BY <2>1, <2>2, <2>3 DEF DueSound
<1> QED
  BY <1>1, <1>2, Admitted

\* What was due of a title and type is due no more only where it has been seen.
LEMMA MoreSeen ==
  ASSUME TrackingInv, TrackingInv', NEW t \in Titles, NEW type \in Types,
         Seen(t, type)' >= Seen(t, type),
         \A r \in DueRows(t, type)' : r \in DueRows(t, type),
         \A r \in DueRows(t, type) : r \in DueRows(t, type)' \/ r.seq <= Seen(t, type)'
  PROVE  Due(t, type)' = IF Seen(t, type)' > Due(t, type) THEN Seen(t, type)' ELSE Due(t, type)
<1>1. SeenSound(t, type) /\ SeenSound(t, type)' /\ DueSound(t, type) /\ DueSound(t, type)'
  BY FeedNow, FeedThen
<1>2. /\ Seen(t, type) \in Nat /\ Seen(t, type)' \in Nat
      /\ Due(t, type) \in Nat /\ Due(t, type)' \in Nat
      /\ Due(t, type)' >= Seen(t, type)'
  BY <1>1 DEF SeenSound, DueSound
<1>3. Due(t, type)' >= Due(t, type)
  <2>1. CASE Due(t, type) = Seen(t, type)
    BY <1>2, <2>1
  <2>2. CASE \E r \in DueRows(t, type) : Due(t, type) = r.seq
    <3>1. PICK r \in DueRows(t, type) : Due(t, type) = r.seq
      BY <2>2
    <3>2. CASE r \in DueRows(t, type)'
      BY <1>1, <3>1, <3>2 DEF DueSound
    <3>3. CASE r.seq <= Seen(t, type)'
      BY <1>2, <3>1, <3>3
    <3> QED
      BY <3>2, <3>3
  <2> QED
    BY <1>1, <2>1, <2>2 DEF DueSound
<1>4. Due(t, type)' = Seen(t, type)' \/ Due(t, type)' <= Due(t, type)
  BY <1>1 DEF DueSound
<1> QED
  BY <1>2, <1>3, <1>4

-----------------------------------------------------------------------------
(* The refinement: every step is one of the feed's.                         *)

\* New events: a row that was current stays, gives way to a newer one of its type, or to one of
\* a type that overrides it, which nobody has leased.
LEMMA QueuedFeed ==
  ASSUME TrackingInv, TrackingInv', UNCHANGED <<conn, sync, worker, remote>>,
         NEW s, s.rows = db.rows, s.heads = db.heads, s.clock = db.clock, Extends(s, db')
  PROVE  Feed!Next
<1>1. Leaving' <=> Leaving
  BY DEF Leaving
<1>2. ASSUME NEW t \in Titles, NEW type \in Types, NEW r \in DueRows(t, type)
      PROVE  \/ \E q \in DueRows(t, type)' : q.seq >= r.seq
             \/ \E other \in Overrides[type] : \E q \in DueRows(t, other)' : q.seq > db.clock
  <2>1. r \in db.rows /\ r.title = t /\ r.type = type /\ Current(db.heads, r) /\ ~Completing(r)
    BY DEF DueRows
  <2>2. PICK q \in db'.rows : Succeeds(q, r, db'.heads) /\ InPlace(q, r, s)
    BY <2>1 DEF Extends
  <2>3. q.title = t /\ q.seq >= r.seq /\ Current(db'.heads, q)
    BY <2>1, <2>2 DEF Succeeds
  <2>4. ~Completing(q)'
    <3>1. CASE q = r
      BY <3>1, <2>1 DEF Completing, Leaving
    <3>2. CASE q.lease = "none"
      <4> SUFFICES ASSUME Completing(q)' PROVE FALSE
        OBVIOUS
      <4>1. worker'.pc = "done" /\ q.id = worker'.row.id
        BY DEF Completing
      <4>2. WorkSound(db)'
        BY <4>1 DEF TrackingInv, WorkerInv
      <4> QED
        BY <3>2, <4>1, <4>2 DEF WorkSound
    <3> QED
      BY <2>2, <3>1, <3>2 DEF Succeeds
  <2>5. q \in DueRows(t, q.type)'
    BY <2>3, <2>4 DEF DueRows
  <2> QED
    BY <2>1, <2>2, <2>3, <2>5 DEF InPlace
<1>3. StillDue
  BY <1>2 DEF StillDue
<1> QED
  BY <1>1, <1>3, NothingLost

\* The rows and heads are the same, and the worker completes no row that is current.
LEMMA RowsSameFeed ==
  ASSUME TrackingInv, TrackingInv', UNCHANGED <<conn, sync>>, Leaving' <=> Leaving,
         \A t \in Titles, type \in Types : remote'[t][type].at = remote[t][type].at,
         db'.rows = db.rows, db'.heads = db.heads,
         \A r \in db.rows : Current(db.heads, r) /\ Completing(r)' => Completing(r)
  PROVE  Feed!Next
<1>1. ASSUME NEW t \in Titles, NEW type \in Types, NEW r \in DueRows(t, type)
      PROVE  r \in DueRows(t, type)' /\ r.seq \in Nat
  <2>1. r \in db.rows /\ r.title = t /\ r.type = type /\ Current(db.heads, r) /\ ~Completing(r)
    BY DEF DueRows
  <2>2. r.seq \in Nat
    BY FeedNow DEF DueSound
  <2> QED
    BY <2>1, <2>2 DEF DueRows
<1>2. StillDue
  BY <1>1 DEF StillDue
<1> QED
  BY <1>2, NothingLost

\* The lease of a row or the time of its next attempt changes.
LEMMA MarkedFeed ==
  ASSUME TrackingInv, TrackingInv', UNCHANGED <<conn, sync, remote>>, Leaving' <=> Leaving,
         NEW r \in db.rows, NEW m, Marked(m, r), db'.rows = (db.rows \ {r}) \cup {m},
         db'.heads = db.heads, worker'.pc # "done"
  PROVE  Feed!Next
<1>1. ASSUME NEW t \in Titles, NEW type \in Types, NEW x \in DueRows(t, type)
      PROVE  \E q \in DueRows(t, type)' : q.seq >= x.seq
  <2>1. x \in db.rows /\ x.title = t /\ x.type = type /\ Current(db.heads, x) /\ ~Completing(x)
    BY DEF DueRows
  <2>2. x.seq \in Nat
    BY FeedNow DEF DueSound
  <2>3. CASE x # r
    <3>1. x \in DueRows(t, type)'
      BY <2>1, <2>3 DEF DueRows, Completing
    <3> QED
      BY <2>2, <3>1
  <2>4. CASE x = r
    <3>1. Current(db.heads, m)
      BY <2>1, <2>4 DEF Current, Marked
    <3>2. m.title = t /\ m.type = type /\ m.seq = x.seq
      BY <2>1, <2>4 DEF Marked
    <3>3. m \in DueRows(t, type)'
      BY <3>1, <3>2 DEF DueRows, Completing
    <3> QED
      BY <2>2, <3>2, <3>3
  <2> QED
    BY <2>3, <2>4
<1>2. StillDue
  BY <1>1 DEF StillDue
<1> QED
  BY <1>2, NothingLost

\* A row is deleted that is not due, or for which a newer one of its title and type is.
LEMMA DeletedFeed ==
  ASSUME TrackingInv, TrackingInv', UNCHANGED <<conn, sync, remote>>, Leaving' <=> Leaving,
         db'.rows = Done(worker.row), db'.heads = db.heads, worker'.pc = "idle",
         \A r \in db.rows : r.id = worker.row.id /\ Current(db.heads, r) =>
            \/ Completing(r)
            \/ \E q \in db.rows : /\ q.id # worker.row.id /\ q.title = r.title /\ q.type = r.type
                                  /\ Current(db.heads, q) /\ q.seq >= r.seq
  PROVE  Feed!Next
<1>1. ASSUME NEW t \in Titles, NEW type \in Types, NEW r \in DueRows(t, type)
      PROVE  \E q \in DueRows(t, type)' : q.seq >= r.seq
  <2>1. r \in db.rows /\ r.title = t /\ r.type = type /\ Current(db.heads, r) /\ ~Completing(r)
    BY DEF DueRows
  <2>2. r.seq \in Nat
    BY FeedNow DEF DueSound
  <2>3. CASE r.id # worker.row.id
    <3>1. r \in DueRows(t, type)'
      BY <2>1, <2>3 DEF DueRows, Completing, Done
    <3> QED
      BY <2>2, <3>1
  <2>4. CASE r.id = worker.row.id
    <3>1. PICK q \in db.rows : /\ q.id # worker.row.id /\ q.title = r.title /\ q.type = r.type
                               /\ Current(db.heads, q) /\ q.seq >= r.seq
      BY <2>1, <2>4
    <3>2. q \in DueRows(t, type)'
      BY <2>1, <3>1 DEF DueRows, Completing, Done
    <3> QED
      BY <3>1, <3>2
  <2> QED
    BY <2>3, <2>4
<1>2. StillDue
  BY <1>1 DEF StillDue
<1> QED
  BY <1>2, NothingLost

LEMMA RecordFeed ==
  ASSUME TrackingInv, TrackingInv', NEW events, EventsSound(events), Record(events)
  PROVE  Feed!Next
<1>1. /\ db' = Enqueue(db, conn # 0, sync, events)
      /\ UNCHANGED <<conn, sync, worker, remote>>
  BY DEF Record
<1>2. Extends(db, db')
  BY <1>1, EnqueueKeeps DEF TrackingInv, AccountInv
<1> QED
  BY <1>1, <1>2, QueuedFeed

LEMMA ConnectFeed ==
  ASSUME TrackingInv, TrackingInv', Connect
  PROVE  Feed!Next
<1> DEFINE seeded == SeedProfileState(db, TRUE, sync)
<1>1. CompleteDeviceAuthorization(seeded)
  BY DEF Connect
<1> HIDE DEF seeded
<1>2. CASE seeded.ok
  <2>1. conn' = spent.connects + 1
    BY <1>1, <1>2 DEF CompleteDeviceAuthorization
  <2>2. conn \in 0..spent.connects /\ spent.connects \in Nat
    BY DEF TrackingInv, AccountInv
  <2>3. conn' # conn
    BY <2>1, <2>2
  <2> QED
    BY <2>3, Resubscribed
<1>3. CASE ~seeded.ok
  <2>1. UNCHANGED <<conn, sync, db, worker, remote>>
    BY <1>1, <1>3 DEF CompleteDeviceAuthorization
  <2> QED
    BY <2>1, RowsSameFeed DEF Completing, Leaving
<1> QED
  BY <1>2, <1>3

LEMMA ChangePreferencesFeed ==
  ASSUME TrackingInv, TrackingInv', ChangePreferences
  PROVE  Feed!Next
<1>1. PICK input \in Preferences :
           LET types == (sync \cup input.enabled) \ input.disabled IN
           /\ conn # 0 /\ sync' = types
           /\ OutboxInv(db', types) /\ Extends(Cleared(input.disabled), db')
           /\ spent.connects + spent.toggles < MaxChanges
           /\ spent' = [spent EXCEPT !.toggles = @ + 1]
           /\ UNCHANGED <<authorization, polling, conn, worker, remote, watchVars>>
  BY PreferencesStep
<1>2. CASE sync' # sync
  BY <1>2, Resubscribed
<1>3. CASE sync' = sync
  <2> DEFINE s == Cleared(input.disabled)
  <2>1. OutboxInv(db, sync) /\ \A r \in db.rows : r.type \in sync
    BY DEF TrackingInv, OutboxInv, RowTyped
  <2>2. /\ s.heads = db.heads /\ s.clock = db.clock
        /\ s.rows = {r \in db.rows : r.type \notin input.disabled}
    BY <2>1, ClearedShape
  <2>3. Extends(s, db') /\ UNCHANGED <<conn, sync, worker, remote>>
    BY <1>1, <1>3
  <2> HIDE DEF s
  <2>4. \A type \in sync : type \notin input.disabled
    BY <1>1, <1>3
  <2>5. s.rows = db.rows
    BY <2>1, <2>2, <2>4
  <2> QED
    BY <2>2, <2>3, <2>5, QueuedFeed
<1> QED
  BY <1>2, <1>3

LEMMA AuthorizationFeed ==
  ASSUME TrackingInv, TrackingInv', BeginDeviceAuthorization \/ PollAuthorization \/ PollRefused
  PROVE  Feed!Next
<1>1. UNCHANGED <<conn, sync, db, worker, remote>>
  BY DEF BeginDeviceAuthorization, PollAuthorization, PollRefused
<1> QED
  BY <1>1, RowsSameFeed DEF Completing, Leaving

LEMMA DisconnectFeed ==
  ASSUME TrackingInv, TrackingInv', Disconnect
  PROVE  Feed!Next
<1>1. conn' = 0 /\ UNCHANGED <<sync, worker>>
      /\ remote' = [t \in Titles |-> [type \in Types |-> Unknown]]
  BY DEF Disconnect
<1>2. CASE conn # 0
  BY <1>1, <1>2, Resubscribed
<1>3. CASE conn = 0
  <2>1. db.rows = {}
    BY <1>3 DEF TrackingInv, DisconnectedEmpty
  <2>2. \A t \in Titles, type \in Types : remote'[t][type].at = remote[t][type].at
    <3>1. \A t \in Titles, type \in Types : remote[t][type].at = 0
      BY <1>3 DEF TrackingInv, RemoteInv
    <3>2. \A t \in Titles, type \in Types : remote'[t][type].at = 0
      BY <1>1 DEF Unknown
    <3> QED
      BY <3>1, <3>2
  <2>3. StillDue
    BY <2>1 DEF StillDue, DueRows
  <2>4. Leaving' <=> Leaving
    BY <1>1, <1>3 DEF Leaving
  <2> QED
    BY <1>1, <1>3, <2>2, <2>3, <2>4, NothingLost
<1> QED
  BY <1>2, <1>3

LEMMA RowTimerFeed ==
  ASSUME TrackingInv, TrackingInv', RowTimer
  PROVE  Feed!Next
<1>1. worker.pc = "idle"
      /\ UNCHANGED <<authorization, polling, conn, sync, worker, remote, spent>>
  BY DEF RowTimer
<1>2. PICK r, m :
           /\ r \in db.rows
           /\ Marked(m, r) /\ (m.lease = "none" => r.lease = "none")
           /\ db' = [db EXCEPT !.rows = (@ \ {r}) \cup {m}]
  BY RowTimerStep
<1>3. db'.rows = (db.rows \ {r}) \cup {m} /\ db'.heads = db.heads
  BY <1>1, <1>2, MarkedStep
<1>4. Leaving' <=> Leaving
  BY <1>1 DEF Leaving
<1> QED
  BY <1>1, <1>2, <1>3, <1>4, MarkedFeed

LEMMA ClaimFeed ==
  ASSUME TrackingInv, TrackingInv', Claim
  PROVE  Feed!Next
<1>1. PICK r, m :
           /\ r \in db.rows
           /\ Claimable(r) /\ Marked(m, r) /\ m.lease = "held"
           /\ db' = [db EXCEPT !.rows = (@ \ {r}) \cup {m}]
           /\ worker' = [pc |-> "claimed", row |-> r, token |-> 0]
           /\ worker.pc = "idle"
           /\ UNCHANGED <<authorization, polling, conn, sync, remote, spent>>
  BY ClaimStep
<1>2. db'.rows = (db.rows \ {r}) \cup {m} /\ db'.heads = db.heads
  BY <1>1, MarkedStep
<1>3. worker.token = 0 /\ worker'.token = 0 /\ worker'.pc # "done"
  BY <1>1 DEF TrackingInv, WorkerInv, Idle
<1>4. Leaving' <=> Leaving
  BY <1>3 DEF Leaving
<1> QED
  BY <1>1, <1>2, <1>3, <1>4, MarkedFeed

LEMMA CompleteFeed ==
  ASSUME TrackingInv, TrackingInv', Complete
  PROVE  Feed!Next
<1>1. /\ Done(worker.row) \in SUBSET db.rows
      /\ db' = [db EXCEPT !.rows = Done(worker.row)]
      /\ worker' = Idle
      /\ UNCHANGED <<authorization, polling, conn, sync, remote, spent>>
  BY CompleteStep
<1>2. db'.rows = Done(worker.row) /\ db'.heads = db.heads
  BY <1>1, DeletedStep
<1>3. worker.pc = "done" /\ worker'.pc = "idle" /\ worker'.token = 0
  BY <1>1 DEF Complete, Idle
<1>4. ~Leaving'
  BY <1>3 DEF Leaving
<1>5. CASE Leaving
  BY <1>4, <1>5, Resubscribed
<1>6. CASE ~Leaving
  <2>1. \A r \in db.rows : r.id = worker.row.id => Completing(r)
    BY <1>3, <1>6 DEF Completing
  <2> QED
    BY <1>1, <1>2, <1>3, <1>4, <1>6, <2>1, DeletedFeed
<1> QED
  BY <1>5, <1>6

LEMMA RetryFeed ==
  ASSUME TrackingInv, TrackingInv', Retry
  PROVE  Feed!Next
<1> DEFINE work == worker.row
<1>1. /\ worker' = Idle
      /\ UNCHANGED <<authorization, polling, conn, sync, remote, spent>>
  BY RetryStep
<1>2. worker.pc = "failed" /\ worker'.pc = "idle" /\ worker'.token = 0
  BY <1>1 DEF Retry, Idle
<1>3. ~Leaving' /\ WorkSound(db)
  BY <1>2 DEF Leaving, TrackingInv, WorkerInv
<1>4. CASE Leaving
  BY <1>3, <1>4, Resubscribed
<1>5. CASE ~Leaving /\ db' = [db EXCEPT !.rows = Done(work)]
                    /\ \/ ~Current(db.heads, work)
                       \/ \E r \in Pending(db.rows, work) : r.id # work.id
  <2>1. Done(work) \in SUBSET db.rows
    BY DEF Done
  <2>2. db'.rows = Done(work) /\ db'.heads = db.heads
    BY <1>1, <1>5, <2>1, DeletedStep
  <2>3. ASSUME NEW r \in db.rows, r.id = work.id, Current(db.heads, r)
        PROVE  \E q \in db.rows : /\ q.id # work.id /\ q.title = r.title /\ q.type = r.type
                                  /\ Current(db.heads, q) /\ q.seq >= r.seq
    <3>1. r.title = work.title /\ r.type = work.type /\ r.key = work.key /\ r.seq = work.seq
      BY <1>3, <2>3 DEF WorkSound
    <3>2. Current(db.heads, work)
      BY <2>3, <3>1 DEF Current
    <3>3. PICK q \in Pending(db.rows, work) : q.id # work.id
      BY <1>5, <3>2
    <3>4. q \in db.rows /\ q.title = work.title /\ q.type = work.type /\ q.lease = "none"
      BY <3>3 DEF Pending
    <3>5. Current(db.heads, q) /\ q.seq >= work.seq
      BY <1>3, <3>4 DEF TrackingInv, OutboxInv, PendingCurrent, WorkSound
    <3> QED
      BY <3>1, <3>3, <3>4, <3>5
  <2> QED
    BY <1>1, <1>2, <1>3, <1>5, <2>2, <2>3, DeletedFeed
<1>6. CASE ~Leaving /\ db' = [db EXCEPT !.rows = db.rows]
  <2>1. db.rows \in SUBSET db.rows
    OBVIOUS
  <2>2. db'.rows = db.rows /\ db'.heads = db.heads
    BY <1>1, <1>6, <2>1, DeletedStep
  <2>3. \A r \in db.rows : ~Completing(r)'
    BY <1>2 DEF Completing
  <2> QED
    BY <1>1, <1>3, <1>6, <2>2, <2>3, RowsSameFeed
<1>7. CASE ~Leaving /\ \E r, m :
                 /\ r \in db.rows
                 /\ r.id = work.id /\ Marked(m, r) /\ Current(db.heads, r)
                 /\ \A q \in db.rows : q.lease = "none" /\ q.title = r.title
                                         /\ q.type = r.type => q = r
                 /\ db' = [db EXCEPT !.rows = (db.rows \ {r}) \cup {m}]
  <2>1. PICK r, m :
                 /\ r \in db.rows
                 /\ r.id = work.id /\ Marked(m, r) /\ Current(db.heads, r)
                 /\ \A q \in db.rows : q.lease = "none" /\ q.title = r.title
                                         /\ q.type = r.type => q = r
                 /\ db' = [db EXCEPT !.rows = (db.rows \ {r}) \cup {m}]
    BY <1>7
  <2> DEFINE rows == (db.rows \ {r}) \cup {m}
  <2>2. rows = (db.rows \ {r}) \cup {m} /\ db' = [db EXCEPT !.rows = rows]
    BY <2>1
  <2> HIDE DEF rows
  <2>3. db'.rows = rows /\ db'.heads = db.heads
    BY <1>1, <2>1, <2>2, GivenBack
  <2> QED
    BY <1>1, <1>2, <1>3, <1>7, <2>1, <2>2, <2>3, MarkedFeed
<1> QED
  BY <1>4, <1>5, <1>6, <1>7, RetryStep

LEMMA CrashFeed ==
  ASSUME TrackingInv, TrackingInv', Crash
  PROVE  Feed!Next
<1>1. worker' = Idle /\ UNCHANGED <<conn, sync, db, remote>>
  BY DEF Crash
<1>2. worker'.pc = "idle" /\ worker'.token = 0
  BY <1>1 DEF Idle
<1>3. ~Leaving' /\ \A r \in db.rows : ~Completing(r)'
  BY <1>2 DEF Leaving, Completing
<1>4. CASE Leaving
  BY <1>3, <1>4, Resubscribed
<1>5. CASE ~Leaving
  BY <1>1, <1>3, <1>5, RowsSameFeed
<1> QED
  BY <1>4, <1>5

\* The worker moves on without a request to the account it is connected to.
LEMMA WorkingFeed ==
  ASSUME TrackingInv, TrackingInv', CheckLatest \/ AccessToken \/ SendToOldAccount
  PROVE  Feed!Next
<1>1. UNCHANGED <<conn, sync, db, remote>>
  BY DEF CheckLatest, AccessToken, SendToOldAccount
<1>2. WorkerInv(db) /\ (worker.pc # "idle" => WorkSound(db))
  BY DEF TrackingInv, WorkerInv
<1>3. CASE ~(Leaving' <=> Leaving)
  BY <1>3, Resubscribed
<1>4. ASSUME Leaving' <=> Leaving, NEW r \in db.rows, Current(db.heads, r), Completing(r)'
      PROVE  Completing(r)
  <2>1. worker'.pc = "done" /\ ~Leaving /\ r.id = worker'.row.id
    BY <1>4 DEF Completing
  <2>2. CASE CheckLatest
    <3> DEFINE next == IF Current(db.heads, worker.row) THEN "latest" ELSE "done"
    <3>1. worker.pc = "claimed" /\ worker' = [worker EXCEPT !.pc = next]
      BY <2>2 DEF CheckLatest
    <3>2. worker'.pc = next /\ worker'.row = worker.row
      <4> HIDE DEF next
      <4> QED
        BY <1>2, <3>1, WorkerMoves
    <3>3. r.title = worker.row.title /\ r.type = worker.row.type /\ r.key = worker.row.key
      BY <1>2, <2>1, <3>1, <3>2 DEF WorkSound
    <3>4. Current(db.heads, worker.row)
      BY <1>4, <3>3 DEF Current
    <3> QED
      BY <2>1, <3>2, <3>4
  <2>3. CASE AccessToken
    <3> DEFINE next == IF conn = 0 THEN "failed" ELSE "sending"
               moved == [worker EXCEPT !.pc = next]
    <3>1. worker' = [moved EXCEPT !.token = conn]
      BY <2>3, Zenon DEF AccessToken
    <3>2. moved = [pc |-> next, row |-> worker.row, token |-> worker.token]
      <4> HIDE DEF next
      <4> QED
        BY <1>2 DEF WorkerInv
    <3> HIDE DEF moved
    <3>3. worker'.pc = next
      <4> HIDE DEF next
      <4> QED
        BY <3>1, <3>2
    <3> QED
      BY <2>1, <3>3
  <2>4. CASE SendToOldAccount
    <3>1. PICK next : worker' = [worker EXCEPT !.pc = next]
      BY <2>4 DEF SendToOldAccount
    <3>2. worker.token # 0 /\ worker.token # conn
      BY <1>2, <2>4 DEF SendToOldAccount, WorkerInv
    <3> QED
      BY <2>1, <3>2 DEF Leaving
  <2> QED
    BY <2>2, <2>3, <2>4
<1> QED
  BY <1>1, <1>3, <1>4, RowsSameFeed

\* The provider takes the event of the oldest row of the title, which is younger than all it has
\* seen of the title.
LEMMA SendFeed ==
  ASSUME TrackingInv, TrackingInv', Send \/ SendFails
  PROVE  Feed!Next
<1> DEFINE work == worker.row
<1>1. /\ UNCHANGED <<conn, sync, db>>
      /\ worker.pc = "sending" /\ worker.token = conn
      /\ \/ remote' = Applied(work) /\ worker' = [worker EXCEPT !.pc = "done"]
         \/ remote' = Applied(work) /\ worker' = [worker EXCEPT !.pc = "failed"]
         \/ remote' = remote /\ worker' = [worker EXCEPT !.pc = "failed"]
  BY DEF Send, SendFails, Deliver
<1>2. WorkerInv(db) /\ WorkSound(db) /\ RemoteInv(db)
  BY <1>1 DEF TrackingInv, WorkerInv
<1>3. worker'.row = work /\ worker'.token = worker.token
  BY <1>1, <1>2, WorkerMoves
<1>4. ~Leaving /\ ~Leaving'
  BY <1>1, <1>3 DEF Leaving
<1>5. CASE remote' = remote /\ worker' = [worker EXCEPT !.pc = "failed"]
  <2>1. worker'.pc = "failed"
    BY <1>2, <1>5, WorkerMoves
  <2>2. \A r \in db.rows : ~Completing(r)'
    BY <2>1 DEF Completing
  <2> QED
    BY <1>1, <1>4, <1>5, <2>2, RowsSameFeed
<1>6. CASE remote' = Applied(work)
  <2>1. /\ work.title \in Titles /\ work.type \in Types /\ work.seq \in Nat
        /\ \A any \in Types : work.seq >= Seen(work.title, any)
        /\ \A r \in db.rows : r.title = work.title => r.seq >= work.seq
        /\ \A r \in db.rows : r.id = work.id => r.title = work.title /\ r.type = work.type
                                                /\ r.seq = work.seq
    BY <1>1, <1>2 DEF WorkSound, Seen
  <2>2. \A t \in Titles, type \in Types :
          Seen(t, type)' = IF t = work.title /\ type = work.type THEN work.seq ELSE Seen(t, type)
    BY <1>2, <1>6, AppliedAt DEF Seen
  <2>3. \A r \in db.rows : ~Completing(r)
    BY <1>1 DEF Completing
  <2>4. \A r : Completing(r)' => r.id = work.id
    BY <1>3 DEF Completing
  <2> HIDE DEF work
  <2>5. ASSUME NEW t \in Titles, NEW type \in Types
        PROVE  Due(t, type)' = IF Seen(t, type)' > Due(t, type) THEN Seen(t, type)'
                               ELSE Due(t, type)
    <3>1. ASSUME NEW r \in DueRows(t, type)' PROVE r \in DueRows(t, type)
      BY <1>1, <2>3 DEF DueRows
    <3>2. ASSUME NEW r \in DueRows(t, type)
          PROVE  r \in DueRows(t, type)' \/ r.seq <= Seen(t, type)'
      <4>1. r \in db.rows /\ r.title = t /\ r.type = type /\ Current(db.heads, r)
        BY DEF DueRows
      <4>2. CASE r.id = work.id
        BY <2>1, <2>2, <4>1, <4>2
      <4>3. CASE r.id # work.id
        BY <1>1, <2>4, <4>1, <4>3 DEF DueRows
      <4> QED
        BY <4>2, <4>3
    <3>3. Seen(t, type)' >= Seen(t, type)
      <4>1. Seen(t, type) \in Nat
        BY FeedNow DEF SeenSound
      <4> QED
        BY <2>1, <2>2, <4>1
    <3> QED
      BY <3>1, <3>2, <3>3, MoreSeen
  <2>6. PICK t \in Titles, type \in Types : t = work.title /\ type = work.type
    BY <2>1
  <2>7. \A u \in Titles, any \in Types : ~(u = t /\ any = type) =>
          Seen(u, any)' = Seen(u, any) /\ Due(u, any)' = Due(u, any)
    <3> SUFFICES ASSUME NEW u \in Titles, NEW any \in Types, ~(u = t /\ any = type)
                 PROVE  Seen(u, any)' = Seen(u, any) /\ Due(u, any)' = Due(u, any)
      OBVIOUS
    <3>1. Seen(u, any)' = Seen(u, any)
      BY <2>2, <2>6
    <3>2. SeenSound(u, any) /\ DueSound(u, any)
      BY FeedNow
    <3>3. ~(Seen(u, any) > Due(u, any))
      BY <3>2 DEF SeenSound, DueSound
    <3> QED
      BY <2>5, <3>1, <3>3
  <2>8. Seen(t, type)' = work.seq
    BY <2>2, <2>6
  <2>9. Due(t, type)' = IF work.seq > Due(t, type) THEN work.seq ELSE Due(t, type)
    BY <2>5, <2>8
  <2>10. ASSUME NEW any \in Types
         PROVE  /\ Seen(t, any) <= work.seq
                /\ Seen(t, any) < Due(t, any) => work.seq <= Due(t, any)
    <3>1. SeenSound(t, any) /\ DueSound(t, any)
      BY FeedNow
    <3>2. ASSUME Seen(t, any) < Due(t, any) PROVE work.seq <= Due(t, any)
      <4>1. PICK r \in DueRows(t, any) : Due(t, any) = r.seq
        BY <3>1, <3>2 DEF SeenSound, DueSound
      <4> QED
        BY <2>1, <2>6, <4>1 DEF DueRows
    <3>3. Seen(t, any) <= work.seq
      BY <2>1, <2>6, <3>1 DEF SeenSound
    <3> QED
      BY <3>2, <3>3
  <2>11. conn' = conn /\ sync' = sync /\ (Leaving' <=> Leaving)
    BY <1>1, <1>4
  <2> QED
    BY <2>7, <2>8, <2>9, <2>10, <2>11, Delivered
<1> QED
  BY <1>1, <1>5, <1>6

LEMMA StutterFeed ==
  ASSUME TrackingInv, TrackingInv', UNCHANGED <<conn, sync, db, worker, remote>>
  PROVE  Feed!Next
BY RowsSameFeed DEF Completing, Leaving

LEMMA FeedStarts == Init => Feed!Init
<1> SUFFICES ASSUME Init PROVE Feed!Init
  OBVIOUS
<1>1. TrackingInv /\ TrackingInit
  BY WatchInit DEF WatchInv, Init
<1>2. ASSUME NEW t \in Titles, NEW type \in Types PROVE Seen(t, type) = 0 /\ Due(t, type) = 0
  <2>1. DueSound(t, type)
    BY <1>1, FeedNow
  <2>2. Seen(t, type) = 0
    BY <1>1 DEF TrackingInit, Unknown, Seen
  <2>3. DueRows(t, type) = {}
    BY <1>1 DEF TrackingInit, DueRows
  <2> QED
    BY <2>1, <2>2, <2>3 DEF DueSound
<1> QED
  BY <1>2 DEF Feed!Init

LEMMA FeedSteps == WatchInv /\ WatchInv' /\ [Next]_vars => Feed!Next
<1> SUFFICES ASSUME WatchInv, WatchInv', [Next]_vars PROVE Feed!Next
  OBVIOUS
<1>1. TrackingInv /\ TrackingInv'
  BY DEF WatchInv
<1>2. CASE Write
  BY <1>1, <1>2, WriteRecords, RecordFeed
<1>3. CASE Connect
  BY <1>1, <1>3, ConnectFeed
<1>4. CASE ChangePreferences
  BY <1>1, <1>4, ChangePreferencesFeed
<1>5. CASE TrackingStep
  BY <1>1, <1>5, AuthorizationFeed, DisconnectFeed, RowTimerFeed, ClaimFeed, WorkingFeed,
     SendFeed, CompleteFeed, RetryFeed, CrashFeed DEF TrackingStep, WorkerStep
<1>6. CASE UNCHANGED vars
  BY <1>1, <1>6, StutterFeed DEF vars, trackingVars
<1> QED
  BY <1>2, <1>3, <1>4, <1>5, <1>6 DEF Next

\* The outbox implements the feed but for its liveness: an event of a title, of whatever type, is
\* not delivered before an older one that is still due nor after a newer one of the title, and what
\* is due of a type is withdrawn by nothing but a newer event of it or of a type that overrides it,
\* or a change of connection or of preferences, through every order of claims, lost answers,
\* retries, crashes and newer events (enqueueBatchWithProviderTx, claim, process, complete, retry).
THEOREM WatchImplementsFeed == Spec => Feed!Init /\ [][Feed!Next]_(Feed!feedVars)
<1>1. Init => Feed!Init
  BY FeedStarts
<1>2. WatchInv /\ WatchInv' /\ [Next]_vars => [Feed!Next]_(Feed!feedVars)
  BY FeedSteps
<1> QED
  BY <1>1, <1>2, WatchInvariant, PTL DEF Spec

-----------------------------------------------------------------------------
(* The provider mirrors the profile: what the last word on a title is, and   *)
(* that it was delivered or will be.                                        *)

\* The worker is not about to delete the row r without having sent it to the account c.
Kept(r, c) ==
  ~(worker.row.id = r.id /\ (worker.pc = "done" \/ worker.token \notin {0, c}))

Queued(s, c, t, type, value) ==
  \E r \in s.rows : /\ r.title = t /\ r.type = type /\ r.value = value
                    /\ r.seq = s.heads[t][type].at /\ Kept(r, c)

Received(s, t, type, value) ==
  remote[t][type].value = value /\ remote[t][type].at = s.heads[t][type].at

\* No event of the other type that tells of the same is newer.
Newest(s, t, type) ==
  /\ s.heads[t][type].at # 0
  /\ type # "library" =>
       \A other \in {"watched", "progress"} \ {type} : s.heads[t][other].at < s.heads[t][type].at

\* The newest event says `value`, and the provider has it or will get it.
Told(s, c, t, type, value) ==
  /\ Newest(s, t, type)
  /\ Received(s, t, type, value) \/ Queued(s, c, t, type, value)

\* What has to have been told of a title.
AdditionTold(s, c, types, t) ==
  "library" \in types /\ library[t] > 0 /\ MediaType[t] # "tv" => Told(s, c, t, "library", "add")

WatchedTold(s, c, types, t) ==
  {"watched", "progress"} \subseteq types =>
    /\ progress[t].completed =>
         Told(s, c, t, "watched", "add") \/ Told(s, c, t, "progress", "stop")
    /\ ~progress[t].completed /\ progress[t].version > 0
       /\ s.heads[t]["watched"].at > s.heads[t]["progress"].at =>
         Told(s, c, t, "watched", "remove")

PositionTold(s, c, types, t) ==
  "progress" \in types /\ ~progress[t].completed /\ progress[t].position > 0 =>
    Told(s, c, t, "progress", "pause")

Untouched(s, t) == s.heads[t]["library"].at = 0 /\ remote[t]["library"] = Unknown

RemovalTold(s, c, types, t) ==
  /\ "library" \in types /\ library[t] = 0 /\ MediaType[t] # "tv"
  /\ spent.toggles = 0 /\ spent.connects = 1
  => Untouched(s, t) \/ Told(s, c, t, "library", "remove")

\* Rows of one title are told apart by their time; the row of the newest event has its key.
RowsSame(s) == \A r, q \in s.rows : r.title = q.title /\ r.seq = q.seq => r = q

KeysOfHeads(s) ==
  \A r \in s.rows : r.seq = s.heads[r.title][r.type].at => r.key = s.heads[r.title][r.type].key

RowsTrue(s) == RowsSame(s) /\ KeysOfHeads(s) /\ LibraryApart(s)

\* An event of the title and type at the time n is not newer than the newest one there is, or
\* is of an earlier connection.
Past(s, t, type, n) ==
  \/ n <= s.heads[t][type].at
  \/ \A other \in Types : s.heads[t][other].at = 0 \/ n < s.heads[t][other].at

\* What the provider has of the row's time is the row's event.
Agrees(r) == remote[r.title][r.type].at = r.seq => remote[r.title][r.type].value = r.value

WorkSame(s) ==
  \A r \in s.rows :
    /\ r.id = worker.row.id => r.value = worker.row.value
    /\ r.title = worker.row.title /\ r.seq = worker.row.seq => r.id = worker.row.id

WorkTrue(s) ==
  worker.pc # "idle" =>
    /\ WorkSame(s)
    /\ Past(s, worker.row.title, worker.row.type, worker.row.seq)

RemoteTrue(s) ==
  /\ \A r \in s.rows : Agrees(r)
  /\ worker.pc # "idle" => Agrees(worker.row)
  /\ \A t \in Titles, type \in Types : Past(s, t, type, remote[t][type].at)

\* Before the first connection nothing is queued, and in it the worker has no row of another one.
FirstTrue ==
  /\ spent.connects = 0 =>
       worker.pc = "idle" /\ \A t \in Titles, type \in Types : db.heads[t][type].at = 0
  /\ spent.connects = 1 /\ conn # 0 /\ worker.pc # "idle" =>
       db.heads[worker.row.title][worker.row.type].at >= worker.row.seq

ToldInv ==
  conn # 0 => \A t \in Titles :
    /\ AdditionTold(db, conn, sync, t) /\ WatchedTold(db, conn, sync, t)
    /\ PositionTold(db, conn, sync, t) /\ RemovalTold(db, conn, sync, t)

LibraryInv == library \in [Titles -> Nat]

MarksTrue(s) == RowsTrue(s) /\ WorkTrue(s) /\ RemoteTrue(s)

MirrorInv ==
  /\ MarksTrue(db) /\ FirstTrue
  /\ ToldInv /\ LibraryInv

-----------------------------------------------------------------------------
(* What an admission does to the heads and the rows.                       *)

Enabled(events, connected, types) == {e \in events : connected /\ e.type \in types}

\* r is the row of the event e, admitted at the time now.
RowOf(r, e, now) ==
  /\ r.title = e.title /\ r.type = e.type /\ r.key = e.key /\ r.value = e.value
  /\ r.seq = now /\ r.lease = "none"

\* n is s with the events E admitted.
Admits(s, n, E) ==
  /\ n.clock >= s.clock
  /\ E # {} => n.clock > s.clock
  /\ \A e \in E :
       /\ n.heads[e.title][e.type].key = e.key
       /\ n.heads[e.title][e.type].at = n.clock
       /\ n.heads[e.title][e.type].affects <=> AffectsWatched(e)
       /\ \E r \in n.rows : RowOf(r, e, n.clock)
  /\ \A t \in Titles, type \in Types :
       ~(\E e \in E : e.title = t /\ e.type = type) => n.heads[t][type] = s.heads[t][type]
  /\ \A r \in s.rows :
       /\ ~\E e \in E : e.title = r.title /\ e.type = r.type
       /\ r.lease # "none" \/ Current(n.heads, r)
       => r \in n.rows
  /\ \A q \in n.rows : q \in s.rows \/ \E e \in E : RowOf(q, e, n.clock)

\* Unless it is refused, a batch is admitted (enqueueBatchWithProviderTx).
LEMMA EnqueueAdmits ==
  ASSUME NEW s, NEW connected, NEW types \in SUBSET Types, OutboxInv(s, types),
         NEW events, EventsSound(events), Enqueue(s, connected, types, events).ok
  PROVE  Admits(s, Enqueue(s, connected, types, events), Enabled(events, connected, types))
<1> DEFINE now == s.clock + 1
           enabled == {e \in events : connected /\ e.type \in types}
           heads == [t \in Titles |-> [type \in Types |->
                      IF \E e \in enabled : e.title = t /\ e.type = type
                      THEN LET e == CHOOSE e \in enabled : e.title = t /\ e.type = type
                           IN [key |-> e.key, affects |-> AffectsWatched(e), at |-> now]
                      ELSE s.heads[t][type]]]
           kept == {r \in s.rows : r.lease # "none" \/ Current(heads, r)}
           Inserted(e) ==
             [id |-> IF Pending(kept, e) = {} THEN <<e.title, now>>
                     ELSE (CHOOSE r \in Pending(kept, e) : TRUE).id,
              title |-> e.title, type |-> e.type, key |-> e.key, value |-> e.value,
              seq |-> now, lease |-> "none", due |-> TRUE]
           gone == UNION {Pending(kept, e) : e \in enabled}
           new == {Inserted(e) : e \in enabled}
           rows == (kept \ gone) \cup new
           full == Cardinality(kept) + Cardinality(Missing(kept, enabled)) > OutboxLimit
           after == [heads |-> heads, clock |-> now, ok |-> TRUE, rows |-> rows]
<1>0. Enabled(events, connected, types) = enabled
  BY DEF Enabled
<1>1. Enqueue(s, connected, types, events) =
        IF events = {} \/ ~s.ok THEN s
        ELSE IF full THEN [s EXCEPT !.ok = FALSE] ELSE after
  BY DEF Enqueue
<1>2. s.clock \in Nat /\ now \in Nat /\ now > s.clock
  BY DEF OutboxInv, Shaped
<1>3. ~[s EXCEPT !.ok = FALSE].ok
  <2>1. "ok" \in DOMAIN s
    <3> DEFINE h == s.heads  r == s.rows  c == s.clock  ok == s.ok
    <3>1. s = [heads |-> h, rows |-> r, clock |-> c, ok |-> ok]
      BY DEF OutboxInv, Shaped
    <3> HIDE DEF h, r, c, ok
    <3> QED
      BY <3>1
  <2> QED
    BY <2>1
<1>4. CASE events = {}
  <2>1. enabled = {} /\ Enqueue(s, connected, types, events) = s
    BY <1>1, <1>4
  <2> QED
    BY <1>0, <1>2, <2>1 DEF Admits
<1>5. CASE events # {}
  <2>1. Enqueue(s, connected, types, events) = after
    <3> HIDE DEF full, after
    <3> QED
      BY <1>1, <1>3, <1>5
  <2> USE DEF EventsSound
  <2> HIDE DEF now
  <2>2. \A e \in enabled : e.title \in Titles /\ e.type \in types /\ e.type \in Types
    OBVIOUS
  <2>3. \A e, f \in enabled : e.title = f.title => e = f
    OBVIOUS
  <2> HIDE DEF enabled
  <2>4. \A t \in Titles, type \in Types :
          ~(\E e \in enabled : e.title = t /\ e.type = type) => heads[t][type] = s.heads[t][type]
    OBVIOUS
  <2>5. ASSUME NEW e \in enabled
        PROVE  /\ heads[e.title][e.type].key = e.key
               /\ heads[e.title][e.type].at = now
               /\ heads[e.title][e.type].affects <=> AffectsWatched(e)
    <3> DEFINE chosen == CHOOSE f \in enabled : f.title = e.title /\ f.type = e.type
               affects == AffectsWatched(chosen)
    <3>1. chosen \in enabled /\ chosen.title = e.title
      OBVIOUS
    <3>2. chosen = e
      BY <3>1, <2>3
    <3> HIDE DEF chosen
    <3>3. heads[e.title][e.type] = [key |-> chosen.key, affects |-> affects, at |-> now]
      BY <2>2 DEF chosen
    <3>4. affects <=> AffectsWatched(e)
      BY <3>2
    <3> HIDE DEF affects, heads
    <3>5. /\ heads[e.title][e.type].key = chosen.key
          /\ heads[e.title][e.type].affects = affects
          /\ heads[e.title][e.type].at = now
      BY <3>3
    <3> QED
      BY <3>2, <3>4, <3>5
  <2> HIDE DEF heads
  <2>6. \A r \in s.rows : r.lease # "none" \/ Current(heads, r) => r \in kept
    OBVIOUS
  <2>7. kept \subseteq s.rows
    OBVIOUS
  <2> HIDE DEF kept
  <2>8. \A e \in enabled : RowOf(Inserted(e), e, now)
    BY DEF RowOf
  <2> HIDE DEF Inserted
  <2>9. \A r \in gone : \E e \in enabled : e.title = r.title /\ e.type = r.type
    BY DEF Pending
  <2> HIDE DEF gone
  <2>10. \A e \in enabled : \E r \in rows : RowOf(r, e, now)
    BY <2>8
  <2>11. \A q \in rows : q \in s.rows \/ \E e \in enabled : RowOf(q, e, now)
    BY <2>7, <2>8
  <2>12. \A r \in s.rows :
           /\ ~\E e \in enabled : e.title = r.title /\ e.type = r.type
           /\ r.lease # "none" \/ Current(heads, r)
           => r \in rows
    BY <2>6, <2>9
  <2> HIDE DEF rows
  <2>13. after.heads = heads /\ after.rows = rows /\ after.clock = now
    OBVIOUS
  <2> HIDE DEF after
  <2>14. Admits(s, after, enabled)
    BY <1>2, <2>4, <2>5, <2>10, <2>11, <2>12, <2>13 DEF Admits
  <2> QED
    BY <1>0, <2>1, <2>14
<1> QED
  BY <1>4, <1>5

-----------------------------------------------------------------------------
(* An admission leaves what is known of the rows true, and every event told  *)
(* of that it does not replace.                                             *)

\* The outbox s has admitted the events E and has become n.
Admission(s, n, types, E) ==
  /\ OutboxInv(s, types) /\ OutboxInv(n, types) /\ types \in SUBSET Types
  /\ Extends(s, n) /\ Admits(s, n, E) /\ EventsSound(E)

\* A row of the outbox is an earlier one, or the only row of its event.
LEMMA RowsAdmitted ==
  ASSUME NEW s, NEW n, NEW types, NEW E, Admission(s, n, types, E)
  PROVE  /\ s.clock \in Nat /\ n.clock \in Nat /\ n.clock >= s.clock
         /\ \A r \in s.rows : r.seq \in 1..s.clock /\ r.title \in Titles /\ r.type \in Types
         /\ \A r \in n.rows : r.seq \in 1..n.clock /\ r.title \in Titles /\ r.type \in Types
         /\ \A r \in n.rows : r \notin s.rows =>
              /\ r.seq = n.clock /\ n.clock > s.clock
              /\ \E e \in E : RowOf(r, e, n.clock)
<1>1. s.clock \in Nat /\ n.clock \in Nat /\ n.clock >= s.clock
  BY DEF Admission, OutboxInv, Shaped, Extends
<1>2. /\ \A r \in s.rows : r.seq \in 1..s.clock /\ r.title \in Titles /\ r.type \in Types
      /\ \A r \in n.rows : r.seq \in 1..n.clock /\ r.title \in Titles /\ r.type \in Types
  BY DEF Admission, OutboxInv, RowTyped
<1>3. ASSUME NEW r \in n.rows, r \notin s.rows
      PROVE  r.seq = n.clock /\ n.clock > s.clock /\ \E e \in E : RowOf(r, e, n.clock)
  <2>1. PICK e \in E : RowOf(r, e, n.clock)
    BY <1>3 DEF Admission, Admits
  <2>2. n.clock > s.clock
    BY DEF Admission, Admits
  <2> QED
    BY <2>1, <2>2 DEF RowOf
<1> QED
  BY <1>1, <1>2, <1>3

\* The heads only grow, and one that was replaced is of the time of the admission.
LEMMA HeadsAdmitted ==
  ASSUME NEW s, NEW n, NEW types, NEW E, Admission(s, n, types, E),
         NEW t \in Titles, NEW type \in Types
  PROVE  /\ s.heads[t][type].at \in 0..s.clock /\ n.heads[t][type].at \in 0..n.clock
         /\ \/ n.heads[t][type] = s.heads[t][type] /\ ~\E e \in E : e.title = t /\ e.type = type
            \/ /\ n.heads[t][type].at = n.clock /\ n.clock > s.clock
               /\ \E e \in E : /\ e.title = t /\ e.type = type
                               /\ n.heads[t][type].key = e.key
                               /\ n.heads[t][type].affects <=> AffectsWatched(e)
<1>1. s.heads[t][type].at \in 0..s.clock /\ n.heads[t][type].at \in 0..n.clock
  BY DEF Admission, OutboxInv, HeadsTyped
<1>2. CASE \E e \in E : e.title = t /\ e.type = type
  <2>1. PICK e \in E : e.title = t /\ e.type = type
    BY <1>2
  <2> QED
    BY <1>1, <2>1 DEF Admission, Admits
<1>3. CASE ~\E e \in E : e.title = t /\ e.type = type
  BY <1>1, <1>3 DEF Admission, Admits
<1> QED
  BY <1>2, <1>3

LEMMA HeadsGrow ==
  ASSUME NEW s, NEW n, NEW types, NEW E, Admission(s, n, types, E),
         NEW t \in Titles, NEW type \in Types
  PROVE  n.heads[t][type].at >= s.heads[t][type].at
<1>1. s.clock \in Nat /\ n.clock \in Nat
  BY RowsAdmitted
<1> QED
  BY <1>1, HeadsAdmitted

LEMMA RowsStayTrue ==
  ASSUME NEW s, NEW n, NEW types, NEW E, Admission(s, n, types, E), RowsTrue(s)
  PROVE  RowsTrue(n)
<1>1. RowsSame(n)
  <2> SUFFICES ASSUME NEW r \in n.rows, NEW q \in n.rows, r.title = q.title, r.seq = q.seq
               PROVE  r = q
    BY DEF RowsSame
  <2>1. CASE r \in s.rows /\ q \in s.rows
    BY <2>1 DEF RowsTrue, RowsSame
  <2>2. CASE r \notin s.rows /\ q \notin s.rows
    <3>1. PICK e \in E : RowOf(r, e, n.clock)
      BY <2>2, RowsAdmitted
    <3>2. PICK f \in E : RowOf(q, f, n.clock)
      BY <2>2, RowsAdmitted
    <3>3. e = f
      BY <3>1, <3>2 DEF Admission, EventsSound, RowOf
    <3> QED
      BY <3>1, <3>2, <3>3 DEF RowOf, Admission, OutboxInv, OnePending
  <2>3. CASE ~(r \in s.rows <=> q \in s.rows)
    BY <2>3, RowsAdmitted
  <2> QED
    BY <2>1, <2>2, <2>3
<1>2. KeysOfHeads(n)
  <2> SUFFICES ASSUME NEW r \in n.rows, r.seq = n.heads[r.title][r.type].at
               PROVE  r.key = n.heads[r.title][r.type].key
    BY DEF KeysOfHeads
  <2>1. r.title \in Titles /\ r.type \in Types /\ r.seq \in Nat
    BY RowsAdmitted
  <2>2. CASE r \notin s.rows
    <3>1. PICK e \in E : RowOf(r, e, n.clock)
      BY <2>2, RowsAdmitted
    <3> QED
      BY <3>1 DEF RowOf, Admission, Admits
  <2>3. CASE r \in s.rows
    <3>1. r.seq <= s.clock /\ s.clock \in Nat /\ n.clock \in Nat
      BY <2>3, RowsAdmitted
    <3>2. n.heads[r.title][r.type] = s.heads[r.title][r.type]
      BY <2>1, <3>1, HeadsAdmitted
    <3> QED
      BY <2>3, <3>2 DEF RowsTrue, KeysOfHeads
  <2> QED
    BY <2>2, <2>3
<1>3. LibraryApart(n)
  <2> SUFFICES ASSUME NEW t \in Titles PROVE ~n.heads[t]["library"].affects
    BY DEF LibraryApart
  <2>1. "library" \in Types
    BY DEF Types
  <2>2. CASE n.heads[t]["library"] = s.heads[t]["library"]
    BY <2>2 DEF RowsTrue, LibraryApart
  <2>3. CASE \E e \in E : e.type = "library" /\ (n.heads[t]["library"].affects <=> AffectsWatched(e))
    BY <2>3 DEF AffectsWatched
  <2> QED
    BY <2>1, <2>2, <2>3, HeadsAdmitted
<1> QED
  BY <1>1, <1>2, <1>3 DEF RowsTrue

\* What is in the past stays there.
LEMMA PastAdmitted ==
  ASSUME NEW s, NEW n, NEW types, NEW E, Admission(s, n, types, E),
         NEW t \in Titles, NEW type \in Types, NEW k \in 0..s.clock, Past(s, t, type, k)
  PROVE  Past(n, t, type, k)
<1>1. s.clock \in Nat /\ n.clock \in Nat /\ n.clock >= s.clock
  BY RowsAdmitted
<1>2. \A other \in Types :
        /\ s.heads[t][other].at \in 0..s.clock
        /\ \/ n.heads[t][other].at = s.heads[t][other].at
           \/ n.heads[t][other].at = n.clock /\ n.clock > s.clock
  BY HeadsAdmitted
<1> QED
  BY <1>1, <1>2 DEF Past

LEMMA WorkStaysTrue ==
  ASSUME NEW s, NEW n, NEW types, NEW E, Admission(s, n, types, E), WorkerInv(s), WorkTrue(s)
  PROVE  WorkTrue(n)
<1> SUFFICES ASSUME worker.pc # "idle"
             PROVE  WorkSame(n) /\ Past(n, worker.row.title, worker.row.type, worker.row.seq)
  BY DEF WorkTrue
<1> DEFINE work == worker.row
<1>1. WorkSound(s) /\ WorkSame(s) /\ Past(s, work.title, work.type, work.seq)
  BY DEF WorkerInv, WorkTrue
<1>2. work.title \in Titles /\ work.type \in Types /\ work.seq \in 1..s.clock
  BY <1>1 DEF WorkSound
<1>3. PICK k \in 1..s.clock : work.id = <<work.title, k>>
  BY <1>1 DEF WorkSound
<1>4. \A r \in s.rows : r.id = work.id => r.lease = "held"
  BY <1>1 DEF WorkSound
<1>5. s.clock \in Nat
  BY RowsAdmitted
<1> HIDE DEF work
<1>6. Past(n, work.title, work.type, work.seq)
  BY <1>1, <1>2, <1>5, PastAdmitted
<1>7. ASSUME NEW r \in n.rows, r.id = work.id PROVE r \in s.rows
  <2> SUFFICES ASSUME r \notin s.rows PROVE FALSE
    OBVIOUS
  <2>1. Replaces(r, s)
    BY DEF Admission, Extends
  <2>2. ~\E m \in Nat : m > s.clock /\ r.id = <<r.title, m>>
    BY <1>3, <1>5, <1>7
  <2>3. \E p \in s.rows : p.lease = "none" /\ p.id = r.id
    BY <2>1, <2>2 DEF Replaces
  <2> QED
    BY <1>4, <1>7, <2>3
<1>8. ASSUME NEW r \in n.rows, r.seq = work.seq PROVE r \in s.rows
  BY <1>2, <1>5, <1>8, RowsAdmitted
<1>9. WorkSame(n)
  BY <1>1, <1>7, <1>8 DEF WorkSame, work
<1> QED
  BY <1>6, <1>9 DEF work

LEMMA RemoteStaysTrue ==
  ASSUME NEW s, NEW n, NEW types, NEW E, Admission(s, n, types, E), RemoteInv(s), RemoteTrue(s)
  PROVE  RemoteTrue(n)
<1>1. \A t \in Titles, type \in Types : remote[t][type].at \in 0..s.clock
  BY DEF RemoteInv
<1>2. \A r \in n.rows : Agrees(r)
  <2> SUFFICES ASSUME NEW r \in n.rows, r \notin s.rows PROVE Agrees(r)
    BY DEF RemoteTrue
  <2>1. /\ r.seq = n.clock /\ n.clock > s.clock /\ r.title \in Titles /\ r.type \in Types
        /\ s.clock \in Nat /\ n.clock \in Nat
    BY RowsAdmitted
  <2>2. remote[r.title][r.type].at <= s.clock /\ remote[r.title][r.type].at \in Nat
    BY <1>1, <2>1
  <2>3. remote[r.title][r.type].at # r.seq
    BY <2>1, <2>2
  <2> QED
    BY <2>3 DEF Agrees
<1>3. \A t \in Titles, type \in Types : Past(n, t, type, remote[t][type].at)
  BY <1>1, PastAdmitted DEF RemoteTrue
<1> QED
  BY <1>2, <1>3 DEF RemoteTrue

LEMMA MarksStayTrue ==
  ASSUME NEW s, NEW n, NEW types, NEW E, Admission(s, n, types, E), WorkerInv(s), RemoteInv(s),
         MarksTrue(s)
  PROVE  MarksTrue(n)
BY RowsStayTrue, WorkStaysTrue, RemoteStaysTrue DEF MarksTrue

\* A row of the newest event is current: nothing supersedes it.
LEMMA NewestCurrent ==
  ASSUME NEW s, HeadsTyped(s), s.clock \in Nat, LibraryApart(s), NEW r, r.title \in Titles, r.type \in Types,
         r.key = s.heads[r.title][r.type].key, Newest(s, r.title, r.type)
  PROVE  Current(s.heads, r)
<1> DEFINE at(type) == s.heads[r.title][type].at
<1>1. SUFFICES ASSUME NEW type \in Types, at(type) > at(r.type),
                      s.heads[r.title][r.type].affects, s.heads[r.title][type].affects
               PROVE  FALSE
  BY DEF Current
<1>2. r.type # "library" /\ type # "library"
  BY <1>1 DEF LibraryApart
<1>3. r.type \in {"watched", "progress"} /\ type \in {"watched", "progress"}
  BY <1>2 DEF Types
<1>4. at(type) \in Nat /\ at(r.type) \in Nat
  BY DEF HeadsTyped
<1> QED
  BY <1>1, <1>2, <1>3, <1>4 DEF Newest

\* The events that tell of the same as those of the type.
Kin(type) == IF type = "library" THEN {"library"} ELSE {"watched", "progress"}

\* The row the worker is about to delete is not a new one.
LEMMA NewRowsKept ==
  ASSUME NEW s, NEW n, NEW types, NEW E, Admission(s, n, types, E), WorkerInv(s),
         NEW r \in n.rows, r \notin s.rows, NEW c
  PROVE  Kept(r, c)
<1>1. CASE worker.pc = "idle"
  <2>1. worker.token = 0 /\ worker.pc # "done"
    BY <1>1 DEF WorkerInv, Idle
  <2> QED
    BY <2>1 DEF Kept
<1>2. CASE worker.pc # "idle"
  <2> DEFINE work == worker.row
  <2>1. WorkSound(s)
    BY <1>2 DEF WorkerInv
  <2>2. PICK k \in 1..s.clock : work.id = <<work.title, k>>
    BY <2>1 DEF WorkSound
  <2>3. \A p \in s.rows : p.id = work.id => p.lease = "held"
    BY <2>1 DEF WorkSound
  <2>4. s.clock \in Nat
    BY RowsAdmitted
  <2>5. Replaces(r, s)
    BY DEF Admission, Extends
  <2> HIDE DEF work
  <2>6. r.id # work.id
    BY <2>2, <2>3, <2>4, <2>5 DEF Replaces
  <2> QED
    BY <2>6 DEF Kept, work
<1> QED
  BY <1>1, <1>2

\* An event of the batch has been told, once the batch is admitted.
LEMMA ToldNow ==
  ASSUME NEW s, NEW n, NEW types, NEW E, Admission(s, n, types, E), WorkerInv(s), NEW c,
         NEW e \in E
  PROVE  /\ Newest(n, e.title, e.type)
         /\ Queued(n, c, e.title, e.type, e.value)
<1>1. /\ s.clock \in Nat /\ n.clock \in Nat /\ n.clock >= s.clock
      /\ \A r \in s.rows : r.seq \in 1..s.clock
  BY RowsAdmitted
<1>2. e.title \in Titles /\ e.type \in Types /\ \A f \in E : f.title = e.title => f = e
  BY DEF Admission, EventsSound
<1>3. n.clock > s.clock /\ n.heads[e.title][e.type].at = n.clock
  BY DEF Admission, Admits
<1>4. ASSUME NEW other \in Types, other # e.type
      PROVE  n.heads[e.title][other].at < n.clock
  <2>1. ~\E f \in E : f.title = e.title /\ f.type = other
    BY <1>2, <1>4
  <2>2. n.heads[e.title][other] = s.heads[e.title][other] /\ s.heads[e.title][other].at \in 0..s.clock
    BY <1>2, <2>1, HeadsAdmitted
  <2> QED
    BY <1>1, <1>3, <2>2
<1>5. Newest(n, e.title, e.type)
  BY <1>1, <1>3, <1>4 DEF Newest, Types
<1>6. PICK r \in n.rows : RowOf(r, e, n.clock)
  BY DEF Admission, Admits
<1>7. r \notin s.rows
  BY <1>1, <1>3, <1>6 DEF RowOf
<1>8. Kept(r, c)
  BY <1>7, NewRowsKept
<1> QED
  BY <1>3, <1>5, <1>6, <1>8 DEF Queued, RowOf

\* What was told of a title stays told, unless an event of the batch tells of the same.
LEMMA ToldStays ==
  ASSUME NEW s, NEW n, NEW types, NEW E, Admission(s, n, types, E), RowsTrue(s), NEW c,
         NEW t \in Titles, NEW type \in Types, NEW value,
         \A e \in E : e.title = t => e.type \notin Kin(type),
         Newest(s, t, type)
  PROVE  /\ Newest(n, t, type)
         /\ Queued(s, c, t, type, value) => Queued(n, c, t, type, value)
         /\ Received(s, t, type, value) => Received(n, t, type, value)
<1>1. \A other \in Kin(type) : n.heads[t][other] = s.heads[t][other]
  <2>1. Kin(type) \subseteq Types
    BY DEF Kin, Types
  <2> QED
    BY <2>1, HeadsAdmitted
<1>2. type \in Kin(type) /\ (type # "library" => Kin(type) = {"watched", "progress"})
  BY DEF Kin, Types
<1>3. Newest(n, t, type)
  BY <1>1, <1>2 DEF Newest
<1>4. Received(s, t, type, value) => Received(n, t, type, value)
  BY <1>1, <1>2 DEF Received
<1>5. ASSUME Queued(s, c, t, type, value) PROVE Queued(n, c, t, type, value)
  <2>1. PICK r \in s.rows : /\ r.title = t /\ r.type = type /\ r.value = value
                            /\ r.seq = s.heads[t][type].at /\ Kept(r, c)
    BY <1>5 DEF Queued
  <2>2. r.key = n.heads[t][type].key
    BY <1>1, <1>2, <2>1 DEF RowsTrue, KeysOfHeads
  <2>3. HeadsTyped(n) /\ n.clock \in Nat /\ LibraryApart(n)
    BY RowsStayTrue, RowsAdmitted DEF Admission, OutboxInv, RowsTrue
  <2>4. Current(n.heads, r)
    BY <1>3, <2>1, <2>2, <2>3, NewestCurrent
  <2>5. r \in n.rows
    BY <1>2, <2>1, <2>4 DEF Admission, Admits
  <2> QED
    BY <1>1, <1>2, <2>1, <2>5 DEF Queued
<1> QED
  BY <1>3, <1>4, <1>5

\* A title and type without an event of the batch keeps its head.
LEMMA HeadStays ==
  ASSUME NEW s, NEW n, NEW types, NEW E, Admission(s, n, types, E),
         NEW t \in Titles, NEW type \in Types, ~\E e \in E : e.title = t /\ e.type = type
  PROVE  n.heads[t][type] = s.heads[t][type]
BY HeadsAdmitted

LEMMA EnqueueAdmission ==
  ASSUME NEW s, NEW connected, NEW types \in SUBSET Types, OutboxInv(s, types),
         NEW events, EventsSound(events), Enqueue(s, connected, types, events).ok
  PROVE  Admission(s, Enqueue(s, connected, types, events), types,
                   Enabled(events, connected, types))
<1> DEFINE n == Enqueue(s, connected, types, events)
           E == Enabled(events, connected, types)
<1>1. OutboxInv(n, types) /\ Extends(s, n)
  BY EnqueueKeeps
<1>2. Admits(s, n, E)
  BY EnqueueAdmits
<1>3. E \subseteq events
  BY DEF Enabled
<1>4. EventsSound(E)
  BY <1>3, FS_Subset DEF EventsSound
<1> HIDE DEF n, E
<1>5. Admission(s, n, types, E)
  BY <1>1, <1>2, <1>4 DEF Admission
<1> QED
  BY <1>5 DEF n, E

\* A batch is refused after one that was.
LEMMA RefusedBefore ==
  ASSUME NEW s, NEW connected, NEW types, NEW events, Enqueue(s, connected, types, events).ok
  PROVE  s.ok
BY DEF Enqueue

-----------------------------------------------------------------------------
(* A seeding tells everything that has to be told.                          *)

\* The events a seeding queues: L for the library, W for what is watched, P for the positions.
SeedSound(L, W, P, types) ==
  /\ \A e \in L : e.type = "library" /\ library[e.title] > 0
  /\ \A e \in W : e.type = "watched"
  /\ \A e \in P : e.type = "progress" /\ ~progress[e.title].completed
  /\ "library" \in types => \A t \in Titles : library[t] > 0 =>
       \E e \in L : e.title = t /\ e.value = "add"
  /\ "watched" \in types => \A t \in Titles : progress[t].version > 0 =>
       \E e \in W : e.title = t /\ e.value = IF progress[t].completed THEN "add" ELSE "remove"
  /\ "progress" \in types => \A t \in Titles :
       ~progress[t].completed /\ progress[t].position > 0 =>
         \E e \in P : e.title = t /\ e.value = "pause"

LEMMA SeedSteps ==
  ASSUME NEW s, NEW types \in SUBSET Types, OutboxInv(s, types), ProgressInv,
         SeedProfileState(s, TRUE, types).ok
  PROVE  \E first, second, L, W, P :
           /\ Admission(s, first, types, L) /\ Admission(first, second, types, W)
           /\ Admission(second, SeedProfileState(s, TRUE, types), types, P)
           /\ SeedSound(L, W, P, types)
<1> DEFINE started == {t \in Titles : progress[t].version > 0}
           collected == {u \in Titles : library[u] > 0}
           resumed == {u \in started : ~progress[u].completed /\ progress[u].position > 0}
           InLibrary(t) == LibraryEvent(t, <<"connect library", library[t]>>, "add")
           Viewed(t) == [WatchedEvent(t, progress[t]) EXCEPT
                          !.key = <<"connect watched", progress[t].version>>]
           Position(t) == [ProgressEvent(t, progress[t]) EXCEPT
                             !.key = <<"connect progress", progress[t].version>>]
           libraryEvents == {InLibrary(t) : t \in {u \in Titles : library[u] > 0}}
           watchedEvents == {Viewed(t) : t \in started}
           progressEvents ==
             {Position(t) : t \in {u \in started : ~progress[u].completed
                                                     /\ progress[u].position > 0}}
           first == Enqueue(s, TRUE, types, libraryEvents)
           second == Enqueue(first, TRUE, types, watchedEvents)
           third == Enqueue(second, TRUE, types, progressEvents)
           L == Enabled(libraryEvents, TRUE, types)
           W == Enabled(watchedEvents, TRUE, types)
           P == Enabled(progressEvents, TRUE, types)
<1>1. SeedProfileState(s, TRUE, types) = third
  BY DEF SeedProfileState
<1>2. \A t : InLibrary(t).title = t /\ InLibrary(t).type = "library" /\ InLibrary(t).value = "add"
  BY DEF LibraryEvent, Event
<1>3. \A t : /\ Viewed(t).title = t /\ Viewed(t).type = "watched"
             /\ Viewed(t).value = IF progress[t].completed THEN "add" ELSE "remove"
  BY DEF WatchedEvent, Event
<1>4. \A t : /\ Position(t).title = t /\ Position(t).type = "progress"
             /\ ~progress[t].completed /\ progress[t].position > 0 =>
                  Position(t).value = "pause"
  BY DEF ProgressEvent, Event, Scrobble
<1> HIDE DEF InLibrary, Viewed, Position
<1>5. started \in SUBSET Titles /\ collected \in SUBSET Titles /\ resumed \in SUBSET Titles
  OBVIOUS
<1>6. EventsSound(libraryEvents)
  <2> DEFINE f == [t \in collected |-> InLibrary(t)]
  <2>1. libraryEvents = {f[t] : t \in collected}
    OBVIOUS
  <2>2. \A t \in collected : f[t].title = t /\ f[t].type \in Types
    BY <1>2 DEF Types
  <2> HIDE DEF f, collected, libraryEvents
  <2> QED
    BY <1>5, <2>1, <2>2, TitleEvents
<1>7. EventsSound(watchedEvents)
  <2> DEFINE f == [t \in started |-> Viewed(t)]
  <2>1. watchedEvents = {f[t] : t \in started}
    OBVIOUS
  <2>2. \A t \in started : f[t].title = t /\ f[t].type \in Types
    BY <1>3 DEF Types
  <2> HIDE DEF f, started, watchedEvents
  <2> QED
    BY <1>5, <2>1, <2>2, TitleEvents
<1>8. EventsSound(progressEvents)
  <2> DEFINE f == [t \in resumed |-> Position(t)]
  <2>1. progressEvents = {f[t] : t \in resumed}
    OBVIOUS
  <2>2. \A t \in resumed : f[t].title = t /\ f[t].type \in Types
    BY <1>4 DEF Types
  <2> HIDE DEF f, resumed, progressEvents
  <2> QED
    BY <1>5, <2>1, <2>2, TitleEvents
<1>9. SeedSound(L, W, P, types)
  <2>1. \A t \in Titles : progress[t].completed \/ progress[t].position > 0 =>
          progress[t].version > 0
    BY DEF ProgressInv, ProgressRow, NoProgress
  <2>2. /\ \A e \in L : e.type = "library" /\ library[e.title] > 0
        /\ "library" \in types => \A t \in Titles : library[t] > 0 =>
             \E e \in L : e.title = t /\ e.value = "add"
    BY <1>2 DEF Enabled
  <2>3. /\ \A e \in W : e.type = "watched"
        /\ "watched" \in types => \A t \in Titles : progress[t].version > 0 =>
             \E e \in W : e.title = t /\ e.value = IF progress[t].completed THEN "add"
                                                ELSE "remove"
    BY <1>3 DEF Enabled
  <2>4. /\ \A e \in P : e.type = "progress" /\ ~progress[e.title].completed
        /\ "progress" \in types => \A t \in Titles :
             ~progress[t].completed /\ progress[t].position > 0 =>
               \E e \in P : e.title = t /\ e.value = "pause"
    BY <1>4, <2>1 DEF Enabled
  <2> HIDE DEF L, W, P
  <2> QED
    BY <2>2, <2>3, <2>4 DEF SeedSound
<1> HIDE DEF libraryEvents, watchedEvents, progressEvents
<1>10. third.ok
  BY <1>1
<1>11. second.ok
  <2> HIDE DEF second
  <2> QED
    BY <1>10, RefusedBefore
<1>12. first.ok
  <2> HIDE DEF first
  <2> QED
    BY <1>11, RefusedBefore
<1>13. Admission(s, first, types, L)
  BY <1>6, <1>12, EnqueueAdmission
<1>14. OutboxInv(first, types)
  BY <1>13 DEF Admission
<1> HIDE DEF first
<1>15. Admission(first, second, types, W)
  BY <1>7, <1>11, <1>14, EnqueueAdmission
<1>16. OutboxInv(second, types)
  BY <1>15 DEF Admission
<1> HIDE DEF second
<1>17. Admission(second, third, types, P)
  BY <1>8, <1>10, <1>16, EnqueueAdmission
<1> HIDE DEF third, L, W, P
<1> QED
  BY <1>1, <1>9, <1>13, <1>15, <1>17

Word(s, c, t, type, value) == Newest(s, t, type) /\ Queued(s, c, t, type, value)

LEMMA WordStays ==
  ASSUME NEW s, NEW n, NEW types, NEW E, Admission(s, n, types, E), RowsTrue(s), NEW c,
         NEW t \in Titles, NEW type \in Types, NEW value,
         \A e \in E : e.title = t => e.type \notin Kin(type),
         Word(s, c, t, type, value)
  PROVE  Word(n, c, t, type, value)
BY ToldStays DEF Word

\* What a seeding has told for the account c.
SeedTold(n, c, types) ==
  \A t \in Titles :
    /\ "library" \in types /\ library[t] > 0 => Word(n, c, t, "library", "add")
    /\ "watched" \in types /\ progress[t].completed => Word(n, c, t, "watched", "add")
    /\ "watched" \in types /\ "progress" \in types /\ ~progress[t].completed
       /\ progress[t].version > 0 /\ n.heads[t]["watched"].at > n.heads[t]["progress"].at =>
         Word(n, c, t, "watched", "remove")
    /\ "progress" \in types /\ ~progress[t].completed /\ progress[t].position > 0 =>
         Word(n, c, t, "progress", "pause")

LEMMA SeedTells ==
  ASSUME NEW s, NEW types \in SUBSET Types, OutboxInv(s, types), ProgressInv, WorkerInv(s),
         RemoteInv(s), MarksTrue(s), NEW c, SeedProfileState(s, TRUE, types).ok
  PROVE  LET n == SeedProfileState(s, TRUE, types) IN
         /\ MarksTrue(n) /\ SeedTold(n, c, types)
         /\ \A t \in Titles : ~(library[t] > 0) => n.heads[t]["library"] = s.heads[t]["library"]
         /\ \A t \in Titles, type \in Types : n.heads[t][type].at >= s.heads[t][type].at
<1> DEFINE n == SeedProfileState(s, TRUE, types)
<1>1. PICK first, second, L, W, P :
           /\ Admission(s, first, types, L) /\ Admission(first, second, types, W)
           /\ Admission(second, n, types, P)
           /\ SeedSound(L, W, P, types)
  BY SeedSteps
<1> HIDE DEF n
<1>2. MarksTrue(first) /\ WorkerInv(first) /\ RemoteInv(first)
  BY <1>1, MarksStayTrue, WorkerExtended, RemoteExtended DEF Admission
<1>3. MarksTrue(second) /\ WorkerInv(second) /\ RemoteInv(second)
  BY <1>1, <1>2, MarksStayTrue, WorkerExtended, RemoteExtended DEF Admission
<1>4. MarksTrue(n)
  BY <1>1, <1>3, MarksStayTrue
<1>5. RowsTrue(s) /\ RowsTrue(first) /\ RowsTrue(second)
  BY <1>2, <1>3 DEF MarksTrue
<1>6. /\ "library" \in Types /\ Kin("library") = {"library"}
      /\ "watched" \in Types /\ Kin("watched") = {"watched", "progress"}
      /\ "progress" \in Types
  BY DEF Types, Kin
<1>7. ASSUME NEW t \in Titles, "library" \in types, library[t] > 0
      PROVE  Word(n, c, t, "library", "add")
  <2>1. PICK e \in L : e.title = t /\ e.value = "add" /\ e.type = "library"
    BY <1>1, <1>7 DEF SeedSound
  <2>2. Word(first, c, t, "library", "add")
    BY <1>1, <2>1, ToldNow DEF Word
  <2>3. Word(second, c, t, "library", "add")
    BY <1>1, <1>5, <1>6, <2>2, WordStays DEF SeedSound
  <2> QED
    BY <1>1, <1>5, <1>6, <2>3, WordStays DEF SeedSound
<1>8. ASSUME NEW t \in Titles, "watched" \in types, progress[t].version > 0,
             \A f \in P : f.title # t
      PROVE  Word(n, c, t, "watched", IF progress[t].completed THEN "add" ELSE "remove")
  <2> DEFINE value == IF progress[t].completed THEN "add" ELSE "remove"
  <2>1. PICK e \in W : e.title = t /\ e.value = value /\ e.type = "watched"
    BY <1>1, <1>8 DEF SeedSound
  <2> HIDE DEF value
  <2>2. Word(second, c, t, "watched", value)
    BY <1>1, <1>2, <2>1, ToldNow DEF Word
  <2>3. Word(n, c, t, "watched", value)
    BY <1>1, <1>5, <1>6, <1>8, <2>2, WordStays
  <2> QED
    BY <2>3 DEF value
<1>9. ASSUME NEW t \in Titles, "progress" \in types, ~progress[t].completed,
             progress[t].position > 0
      PROVE  Word(n, c, t, "progress", "pause")
  <2>1. PICK e \in P : e.title = t /\ e.value = "pause" /\ e.type = "progress"
    BY <1>1, <1>9 DEF SeedSound
  <2> QED
    BY <1>1, <1>3, <2>1, ToldNow DEF Word
<1>10. ASSUME NEW t \in Titles, ~(library[t] > 0)
       PROVE  n.heads[t]["library"] = s.heads[t]["library"]
  <2>1. /\ ~\E e \in L : e.title = t /\ e.type = "library"
        /\ ~\E e \in W : e.title = t /\ e.type = "library"
        /\ ~\E e \in P : e.title = t /\ e.type = "library"
    BY <1>1, <1>10 DEF SeedSound
  <2>2. /\ first.heads[t]["library"] = s.heads[t]["library"]
        /\ second.heads[t]["library"] = first.heads[t]["library"]
        /\ n.heads[t]["library"] = second.heads[t]["library"]
    BY <1>1, <1>6, <2>1, HeadStays
  <2> QED
    BY <2>2
<1>11. ASSUME NEW t \in Titles, NEW type \in Types
       PROVE  n.heads[t][type].at >= s.heads[t][type].at
  <2>1. /\ first.heads[t][type].at >= s.heads[t][type].at
        /\ second.heads[t][type].at >= first.heads[t][type].at
        /\ n.heads[t][type].at >= second.heads[t][type].at
    BY <1>1, HeadsGrow
  <2>2. /\ s.heads[t][type].at \in Nat /\ first.heads[t][type].at \in Nat
        /\ second.heads[t][type].at \in Nat /\ n.heads[t][type].at \in Nat
    BY <1>1, HeadsAdmitted
  <2> QED
    BY <2>1, <2>2
<1>12. ASSUME NEW t \in Titles, "watched" \in types, progress[t].completed
       PROVE  Word(n, c, t, "watched", "add")
  <2>1. progress[t].version > 0
    BY <1>12 DEF ProgressInv, ProgressRow, NoProgress
  <2>2. \A f \in P : f.title # t
    BY <1>1, <1>12 DEF SeedSound
  <2>3. Word(n, c, t, "watched", IF progress[t].completed THEN "add" ELSE "remove")
    BY <1>8, <1>12, <2>1, <2>2
  <2> QED
    BY <1>12, <2>3
\* The position is queued last: it is newer than what says the title is not watched.
<1>13. ASSUME NEW t \in Titles, "watched" \in types, ~progress[t].completed,
              progress[t].version > 0, n.heads[t]["watched"].at > n.heads[t]["progress"].at
       PROVE  Word(n, c, t, "watched", "remove")
  <2>1. ASSUME NEW f \in P, f.title = t PROVE FALSE
    <3>1. f.type = "progress"
      BY <1>1 DEF SeedSound
    <3>2. Newest(n, t, "progress")
      BY <1>1, <1>3, <2>1, <3>1, ToldNow
    <3>3. n.heads[t]["watched"].at < n.heads[t]["progress"].at
      BY <3>2 DEF Newest
    <3>4. n.heads[t]["watched"].at \in Nat /\ n.heads[t]["progress"].at \in Nat
      BY <1>1, <1>6, HeadsAdmitted
    <3> QED
      BY <1>13, <3>3, <3>4
  <2>2. Word(n, c, t, "watched", IF progress[t].completed THEN "add" ELSE "remove")
    BY <1>8, <1>13, <2>1
  <2> QED
    BY <1>13, <2>2
<1> QED
  BY <1>4, <1>7, <1>9, <1>10, <1>11, <1>12, <1>13 DEF SeedTold, n

-----------------------------------------------------------------------------
(* The steps: what was told stays told.                                     *)

LEMMA MarksPrimed ==
  ASSUME MarksTrue(db'), UNCHANGED <<worker, remote>>
  PROVE  MarksTrue(db)'
<1>1. RowsTrue(db)'
  BY DEF MarksTrue, RowsTrue, RowsSame, KeysOfHeads, LibraryApart
<1>2. WorkTrue(db)'
  BY DEF MarksTrue, WorkTrue, WorkSame, Past
<1>3. RemoteTrue(db)'
  BY DEF MarksTrue, RemoteTrue, Agrees, Past
<1> QED
  BY <1>1, <1>2, <1>3 DEF MarksTrue

LEMMA ToldPrimed ==
  ASSUME UNCHANGED <<conn, worker, remote>>, NEW t, NEW type, NEW value,
         Told(db', conn, t, type, value)
  PROVE  Told(db, conn, t, type, value)'
<1>1. Newest(db, t, type)'
  BY DEF Told, Newest
<1>2. Received(db', t, type, value) => Received(db, t, type, value)'
  BY DEF Received
<1>3. Queued(db', conn, t, type, value) => Queued(db, conn, t, type, value)'
  BY DEF Queued, Kept
<1> QED
  BY <1>1, <1>2, <1>3 DEF Told

\* A step that leaves the profile and the subscription alone, and what was told told.
LEMMA ToldKept ==
  ASSUME ToldInv, UNCHANGED <<conn, sync, library, progress>>, db'.heads = db.heads,
         spent'.toggles = spent.toggles, spent'.connects = spent.connects,
         conn # 0 => /\ \A t \in Titles, type \in Types : \A value :
                          Told(db, conn, t, type, value) => Told(db, conn, t, type, value)'
                     /\ \A t \in Titles : spent.connects = 1 /\ Untouched(db, t) => Untouched(db, t)'
  PROVE  ToldInv'
<1> SUFFICES ASSUME conn # 0, NEW t \in Titles
             PROVE  /\ AdditionTold(db, conn, sync, t)' /\ WatchedTold(db, conn, sync, t)'
                    /\ PositionTold(db, conn, sync, t)' /\ RemovalTold(db, conn, sync, t)'
  BY DEF ToldInv
<1>1. /\ AdditionTold(db, conn, sync, t) /\ WatchedTold(db, conn, sync, t)
      /\ PositionTold(db, conn, sync, t) /\ RemovalTold(db, conn, sync, t)
  BY DEF ToldInv
<1>2. \A type \in {"watched", "progress", "library"} : \A value :
        Told(db, conn, t, type, value) => Told(db, conn, t, type, value)'
  BY DEF Types
<1>3. AdditionTold(db, conn, sync, t)'
  BY <1>1, <1>2 DEF AdditionTold
<1>4. WatchedTold(db, conn, sync, t)'
  BY <1>1, <1>2 DEF WatchedTold
<1>5. PositionTold(db, conn, sync, t)'
  BY <1>1, <1>2 DEF PositionTold
<1>6. RemovalTold(db, conn, sync, t)'
  BY <1>1, <1>2 DEF RemovalTold
<1> QED
  BY <1>3, <1>4, <1>5, <1>6

\* The event e says of the title's row p what a delivery has to say of it.
ProgressEventTells(e, p) ==
  \/ /\ e.type = "progress"
     /\ p.completed => e.value = "stop"
     /\ ~p.completed /\ p.position > 0 => e.value = "pause"
  \/ /\ e.type = "watched"
     /\ e.value = IF p.completed THEN "add" ELSE "remove"
     /\ p.completed \/ ~(p.position > 0)

LibraryEventTells(e, at) ==
  e.type = "library" /\ e.value = IF at > 0 THEN "add" ELSE "remove"

\* The events of a change tell of every title it changes; nobody is told of a channel.
Tells(events) ==
  \A t \in Titles :
    /\ \/ library'[t] = library[t] /\ ~\E e \in events : e.title = t /\ e.type = "library"
       \/ MediaType[t] = "tv"
       \/ \E e \in events : e.title = t /\ LibraryEventTells(e, library'[t])
    /\ \/ progress'[t] = progress[t] /\ ~\E e \in events : e.title = t /\ e.type # "library"
       \/ \E e \in events : e.title = t /\ ProgressEventTells(e, progress'[t])

LEMMA RecordAdmission ==
  ASSUME WatchInv, NEW events, EventsSound(events), Record(events)
  PROVE  /\ Admission(db, db', sync, Enabled(events, conn # 0, sync))
         /\ UNCHANGED <<conn, sync, worker, remote>>
         /\ spent'.toggles = spent.toggles /\ spent'.connects = spent.connects
<1>1. /\ db' = Enqueue(db, conn # 0, sync, events) /\ db'.ok
      /\ UNCHANGED <<conn, sync, worker, remote>>
      /\ spent' = [spent EXCEPT !.writes = @ + 1]
  BY DEF Record
<1>2. OutboxInv(db, sync) /\ sync \in SUBSET Types /\ AccountInv
  BY DEF WatchInv, TrackingInv, AccountInv
<1>3. Admission(db, db', sync, Enabled(events, conn # 0, sync))
  BY <1>1, <1>2, EnqueueAdmission
<1>4. spent'.toggles = spent.toggles /\ spent'.connects = spent.connects
  BY <1>1, <1>2 DEF AccountInv
<1> QED
  BY <1>1, <1>3, <1>4

LEMMA RecordTells ==
  ASSUME WatchInv, MirrorInv, NEW events, EventsSound(events), Record(events), Tells(events)
  PROVE  ToldInv'
<1> DEFINE E == Enabled(events, conn # 0, sync)
<1>1. /\ Admission(db, db', sync, E)
      /\ UNCHANGED <<conn, sync, worker, remote>>
      /\ spent'.toggles = spent.toggles /\ spent'.connects = spent.connects
  BY RecordAdmission
<1> SUFFICES ASSUME conn # 0, NEW t \in Titles
             PROVE  /\ AdditionTold(db, conn, sync, t)' /\ WatchedTold(db, conn, sync, t)'
                    /\ PositionTold(db, conn, sync, t)' /\ RemovalTold(db, conn, sync, t)'
  BY <1>1 DEF ToldInv
<1>2. E = {e \in events : e.type \in sync}
  BY DEF Enabled
<1> HIDE DEF E
<1>3. /\ AdditionTold(db, conn, sync, t) /\ WatchedTold(db, conn, sync, t)
      /\ PositionTold(db, conn, sync, t) /\ RemovalTold(db, conn, sync, t)
      /\ RowsTrue(db) /\ WorkerInv(db)
  BY DEF MirrorInv, ToldInv, MarksTrue, WatchInv, TrackingInv
\* What the batch does not tell of stays told, and what it tells of is.
<1>4. ASSUME NEW type \in Types, NEW value, Told(db, conn, t, type, value),
             \A e \in E : e.title = t => e.type \notin Kin(type)
      PROVE  Told(db, conn, t, type, value)'
  <2>1. Told(db', conn, t, type, value)
    BY <1>1, <1>3, <1>4, ToldStays DEF Told
  <2> QED
    BY <1>1, <2>1, ToldPrimed
<1>5. ASSUME NEW e \in events, e.type \in sync, e.title = t
      PROVE  Told(db, conn, t, e.type, e.value)'
  <2>1. e \in E
    BY <1>2, <1>5
  <2>2. Told(db', conn, t, e.type, e.value)
    BY <1>1, <1>3, <1>5, <2>1, ToldNow DEF Told
  <2> QED
    BY <1>1, <2>2, ToldPrimed
<1>6. /\ "library" \in Types /\ Kin("library") = {"library"}
      /\ "watched" \in Types /\ Kin("watched") = {"watched", "progress"}
      /\ "progress" \in Types /\ Kin("progress") = {"watched", "progress"}
  BY DEF Types, Kin
<1>7. AdditionTold(db, conn, sync, t)' /\ RemovalTold(db, conn, sync, t)'
  <2>1. CASE library'[t] = library[t] /\ ~\E e \in events : e.title = t /\ e.type = "library"
    <3>1. \A e \in E : e.title = t => e.type \notin Kin("library")
      BY <1>2, <1>6, <2>1
    <3>2. \A value : Told(db, conn, t, "library", value) => Told(db, conn, t, "library", value)'
      BY <1>4, <1>6, <3>1
    <3>3. Untouched(db, t) => Untouched(db, t)'
      <4>1. db'.heads[t]["library"] = db.heads[t]["library"]
        BY <1>1, <1>6, <3>1, HeadStays
      <4> QED
        BY <1>1, <4>1 DEF Untouched
    <3>4. AdditionTold(db, conn, sync, t)'
      BY <1>1, <1>3, <2>1, <3>2 DEF AdditionTold
    <3>5. RemovalTold(db, conn, sync, t)'
      BY <1>1, <1>3, <2>1, <3>2, <3>3 DEF RemovalTold
    <3> QED
      BY <3>4, <3>5
  <2>2. CASE MediaType[t] = "tv"
    BY <2>2 DEF AdditionTold, RemovalTold
  <2>3. CASE \E e \in events : e.title = t /\ LibraryEventTells(e, library'[t])
    <3>1. PICK e \in events : e.title = t /\ e.type = "library"
                              /\ e.value = IF library'[t] > 0 THEN "add" ELSE "remove"
      BY <2>3 DEF LibraryEventTells
    <3>2. "library" \in sync => Told(db, conn, t, "library", e.value)'
      BY <1>5, <3>1
    <3>3. AdditionTold(db, conn, sync, t)'
      BY <1>1, <3>1, <3>2 DEF AdditionTold
    <3>4. RemovalTold(db, conn, sync, t)'
      BY <1>1, <3>1, <3>2 DEF RemovalTold
    <3> QED
      BY <3>3, <3>4
  <2> QED
    BY <2>1, <2>2, <2>3 DEF Tells
<1>8. WatchedTold(db, conn, sync, t)' /\ PositionTold(db, conn, sync, t)'
  <2>1. CASE progress'[t] = progress[t] /\ ~\E e \in events : e.title = t /\ e.type # "library"
    <3>1. \A e \in E : e.title = t => e.type \notin {"watched", "progress"}
      BY <1>2, <2>1
    <3>2. \A type \in {"watched", "progress"} : \A value :
            Told(db, conn, t, type, value) => Told(db, conn, t, type, value)'
      BY <1>4, <1>6, <3>1
    <3>3. WatchedTold(db, conn, sync, t)'
      <4>1. \A type \in {"watched", "progress"} : db'.heads[t][type] = db.heads[t][type]
        BY <1>1, <1>6, <3>1, HeadStays
      <4> QED
        BY <1>1, <1>3, <2>1, <3>2, <4>1 DEF WatchedTold
    <3>4. PositionTold(db, conn, sync, t)'
      BY <1>1, <1>3, <2>1, <3>2 DEF PositionTold
    <3> QED
      BY <3>3, <3>4
  <2>2. CASE \E e \in events : e.title = t /\ ProgressEventTells(e, progress'[t])
    <3>1. PICK e \in events : e.title = t /\ ProgressEventTells(e, progress'[t])
      BY <2>2
    <3>2. e.type \in sync => Told(db, conn, t, e.type, e.value)'
      BY <1>5, <3>1
    <3>3. WatchedTold(db, conn, sync, t)'
      <4>1. CASE e.type = "watched"
        BY <1>1, <3>1, <3>2, <4>1 DEF WatchedTold, ProgressEventTells
      <4>2. CASE e.type = "progress"
        <5>1. e.type \in sync => db'.heads[t]["watched"].at < db'.heads[t]["progress"].at
          BY <3>2, <4>2 DEF Told, Newest
        <5>2. db'.heads[t]["watched"].at \in Nat /\ db'.heads[t]["progress"].at \in Nat
          BY <1>1, <1>6, HeadsAdmitted
        <5>3. e.type \in sync => ~(db'.heads[t]["watched"].at > db'.heads[t]["progress"].at)
          BY <5>1, <5>2
        <5> QED
          BY <1>1, <3>1, <3>2, <4>2, <5>3 DEF WatchedTold, ProgressEventTells
      <4> QED
        BY <3>1, <4>1, <4>2 DEF ProgressEventTells
    <3>4. PositionTold(db, conn, sync, t)'
      BY <1>1, <3>1, <3>2 DEF PositionTold, ProgressEventTells
    <3> QED
      BY <3>3, <3>4
  <2> QED
    BY <2>1, <2>2 DEF Tells
<1> QED
  BY <1>7, <1>8

LEMMA RecordMirrors ==
  ASSUME WatchInv, MirrorInv, NEW events, EventsSound(events), Record(events), Tells(events),
         LibraryInv'
  PROVE  MirrorInv'
<1> DEFINE E == Enabled(events, conn # 0, sync)
<1>1. /\ Admission(db, db', sync, E)
      /\ UNCHANGED <<conn, sync, worker, remote>>
      /\ spent'.toggles = spent.toggles /\ spent'.connects = spent.connects
  BY RecordAdmission
<1>2. conn = 0 => E = {}
  BY DEF Enabled
<1> HIDE DEF E
<1>3. WorkerInv(db) /\ RemoteInv(db) /\ conn \in 0..spent.connects /\ spent.connects \in Nat
  BY DEF WatchInv, TrackingInv, AccountInv
<1>4. MarksTrue(db)'
  BY <1>1, <1>3, MarksStayTrue, MarksPrimed DEF MirrorInv
<1>5. FirstTrue'
  <2>1. ASSUME spent.connects = 0
        PROVE  worker.pc = "idle" /\ \A t \in Titles, type \in Types : db'.heads[t][type].at = 0
    <3>1. E = {}
      BY <1>2, <1>3, <2>1
    <3>2. \A t \in Titles, type \in Types : db'.heads[t][type] = db.heads[t][type]
      BY <1>1, <3>1, HeadStays
    <3> QED
      BY <2>1, <3>2 DEF MirrorInv, FirstTrue
  <2>2. ASSUME spent.connects = 1, conn # 0, worker.pc # "idle"
        PROVE  db'.heads[worker.row.title][worker.row.type].at >= worker.row.seq
    <3> DEFINE t == worker.row.title  type == worker.row.type  seq == worker.row.seq
    <3>1. t \in Titles /\ type \in Types /\ seq \in 1..db.clock
      BY <1>3, <2>2 DEF WorkerInv, WorkSound
    <3>2. db.heads[t][type].at >= seq
      BY <2>2 DEF MirrorInv, FirstTrue
    <3> HIDE DEF t, type, seq
    <3>3. /\ db.heads[t][type].at \in 0..db.clock /\ db'.heads[t][type].at \in 0..db'.clock
          /\ \/ db'.heads[t][type] = db.heads[t][type]
             \/ db'.heads[t][type].at = db'.clock /\ db'.clock > db.clock
          /\ db.clock \in Nat /\ db'.clock \in Nat
      BY <1>1, <3>1, HeadsAdmitted, RowsAdmitted
    <3>4. db'.heads[t][type].at >= seq
      BY <3>1, <3>2, <3>3
    <3> QED
      BY <3>4 DEF t, type, seq
  <2> QED
    BY <1>1, <2>1, <2>2 DEF FirstTrue
<1>6. ToldInv'
  BY RecordTells
<1> QED
  BY <1>4, <1>5, <1>6 DEF MirrorInv

-----------------------------------------------------------------------------
(* The changes of the profile tell of what they change.                     *)

LEMMA ScrobbleTells ==
  ASSUME NEW t, NEW p
  PROVE  /\ ProgressEvent(t, p).title = t /\ ProgressEvent(t, p).type = "progress"
         /\ ProgressEventTells(ProgressEvent(t, p), p)
BY DEF ProgressEvent, Event, Scrobble, ProgressEventTells

LEMMA WatchedTells ==
  ASSUME NEW t, NEW p, NEW completed \in BOOLEAN, p.completed = completed,
         completed \/ p.position = 0
  PROVE  /\ WatchedEvent(t, p).title = t /\ WatchedEvent(t, p).type = "watched"
         /\ ProgressEventTells(WatchedEvent(t, p), p)
BY DEF WatchedEvent, Event, ProgressEventTells

\* A change of one title's progress.
LEMMA OneTells ==
  ASSUME ProgressInv, NEW t \in Titles, NEW p, NEW e, e.title = t, e.type # "library",
         ProgressEventTells(e, p), progress' = [progress EXCEPT ![t] = p], UNCHANGED library
  PROVE  Tells({e})
<1>1. progress'[t] = p /\ \A u \in Titles \ {t} : progress'[u] = progress[u]
  BY DEF ProgressInv
<1> QED
  BY <1>1 DEF Tells

LEMMA NoneTells ==
  ASSUME UNCHANGED <<library, progress>>
  PROVE  Tells({})
BY DEF Tells

\* A change of one title's place in the library.
LEMMA LibraryTells ==
  ASSUME LibraryInv, NEW t \in Titles, NEW at \in Nat, library' = [library EXCEPT ![t] = at],
         NEW key, NEW value, value = IF at > 0 THEN "add" ELSE "remove", UNCHANGED progress,
         NEW events, events = IF MediaType[t] = "tv" THEN {} ELSE {LibraryEvent(t, key, value)}
  PROVE  Tells(events) /\ LibraryInv' /\ EventsSound(events)
<1>1. LibraryInv'
  BY DEF LibraryInv
<1>2. library'[t] = at /\ \A u \in Titles \ {t} : library'[u] = library[u]
  BY DEF LibraryInv
<1>3. LibraryEvent(t, key, value).title = t /\ LibraryEvent(t, key, value).type = "library"
      /\ LibraryEvent(t, key, value).value = value
  BY DEF LibraryEvent, Event
<1>4. CASE MediaType[t] = "tv"
  BY <1>1, <1>2, <1>4, NoEvents DEF Tells
<1>5. CASE MediaType[t] # "tv"
  <2> DEFINE e == LibraryEvent(t, key, value)
  <2>1. events = {e} /\ EventsSound({e})
    BY <1>5, TitleEventSound
  <2>2. e.title = t /\ e.type = "library" /\ LibraryEventTells(e, library'[t])
    BY <1>2, <1>3 DEF LibraryEventTells
  <2> HIDE DEF e
  <2>3. Tells({e})
    BY <1>2, <2>2 DEF Tells
  <2> QED
    BY <1>1, <2>1, <2>3
<1> QED
  BY <1>4, <1>5

LEMMA BatchTells ==
  ASSUME ProgressInv, NEW batch \in (SUBSET Titles) \ {{}}, NEW completed \in [batch -> BOOLEAN],
         NEW v, SetWatchedBatch(completed, v)
  PROVE  \E events : EventsSound(events) /\ Record(events) /\ Tells(events)
<1> DEFINE changed == [t \in Titles |-> IF t \in DOMAIN completed
                                        THEN Watched(progress[t], completed[t])
                                        ELSE progress[t]]
           events == {WatchedEvent(t, changed[t]) : t \in DOMAIN completed}
<1>1. Record(events) /\ progress' = changed /\ UNCHANGED library
  BY DEF SetWatchedBatch
<1>2. DOMAIN completed = batch /\ batch \in SUBSET Titles
  OBVIOUS
<1>3. \A t \in Titles \ batch : changed[t] = progress[t]
  BY <1>2
<1>4. ASSUME NEW t \in batch
      PROVE  /\ changed[t].completed = completed[t] /\ completed[t] \in BOOLEAN
             /\ completed[t] \/ changed[t].position = 0
  <2>1. changed[t] = Watched(progress[t], completed[t]) /\ completed[t] \in BOOLEAN
    BY <1>2
  <2>2. ProgressRow(progress[t])
    BY <1>2 DEF ProgressInv
  <2> HIDE DEF changed
  <2> QED
    BY <2>1, <2>2, WatchedRow
<1> HIDE DEF changed
<1>5. EventsSound(events)
  BY <1>2, BatchEventsSound
<1>6. ASSUME NEW t \in batch
      PROVE  /\ WatchedEvent(t, changed[t]).title = t
             /\ WatchedEvent(t, changed[t]).type = "watched"
             /\ ProgressEventTells(WatchedEvent(t, changed[t]), changed[t])
  BY <1>4, WatchedTells
<1>7. \A e \in events : e.type = "watched" /\ e.title \in batch
  BY <1>2, <1>6
<1>8. \A t \in batch : \E e \in events : e.title = t /\ ProgressEventTells(e, changed[t])
  BY <1>2, <1>6
<1> HIDE DEF events
<1>9. Tells(events)
  BY <1>1, <1>3, <1>7, <1>8 DEF Tells
<1> QED
  BY <1>1, <1>5, <1>9

LEMMA WriteTells ==
  ASSUME WatchInv, LibraryInv, Write
  PROVE  LibraryInv' /\ \E events : EventsSound(events) /\ Record(events) /\ Tells(events)
<1>0. ProgressInv /\ db.clock + 1 \in Nat /\ db.clock + 1 > 0
  BY DEF WatchInv, TrackingInv, OutboxInv, Shaped
<1>1. ASSUME NEW t \in Titles, NEW v, NEW input, UpdateProgress(t, v, input)
      PROVE  LibraryInv' /\ \E events : EventsSound(events) /\ Record(events) /\ Tells(events)
  <2> DEFINE p == [version |-> v + 1, position |-> input.position,
                   duration |-> 1, completed |-> input.completed]
             e == ProgressEvent(t, p)
  <2>1. progress' = [progress EXCEPT ![t] = p] /\ UNCHANGED library /\ Record({e})
    BY <1>1 DEF UpdateProgress
  <2> HIDE DEF p
  <2>2. e.title = t /\ e.type = "progress" /\ ProgressEventTells(e, p) /\ EventsSound({e})
    BY ScrobbleTells, TitleEventSound
  <2> HIDE DEF e
  <2>3. Tells({e})
    BY <1>0, <2>1, <2>2, OneTells
  <2> QED
    BY <2>1, <2>2, <2>3 DEF LibraryInv
<1>2. ASSUME NEW t \in Titles, NEW v, NEW completed \in BOOLEAN, SetWatched(t, v, completed)
      PROVE  LibraryInv' /\ \E events : EventsSound(events) /\ Record(events) /\ Tells(events)
  <2> DEFINE p == Watched(progress[t], completed)
             e == WatchedEvent(t, p)
  <2>1. progress' = [progress EXCEPT ![t] = p] /\ UNCHANGED library /\ Record({e})
    BY <1>2 DEF SetWatched
  <2>2. p.completed = completed /\ (completed \/ p.position = 0)
    BY <1>0, WatchedRow DEF ProgressInv
  <2> HIDE DEF p
  <2>3. e.title = t /\ e.type = "watched" /\ ProgressEventTells(e, p) /\ EventsSound({e})
    BY <2>2, WatchedTells, TitleEventSound
  <2> HIDE DEF e
  <2>4. Tells({e})
    BY <1>0, <2>1, <2>3, OneTells
  <2> QED
    BY <2>1, <2>3, <2>4 DEF LibraryInv
<1>3. ASSUME NEW batch \in (SUBSET Titles) \ {{}}, NEW completed \in [batch -> BOOLEAN], NEW v,
             SetWatchedBatch(completed, v)
      PROVE  LibraryInv' /\ \E events : EventsSound(events) /\ Record(events) /\ Tells(events)
  <2>1. UNCHANGED library
    BY <1>3 DEF SetWatchedBatch
  <2> QED
    BY <1>0, <1>3, <2>1, BatchTells DEF LibraryInv
<1>4. ASSUME NEW t \in Titles, NEW v, ClearProgress(t, v)
      PROVE  LibraryInv' /\ \E events : EventsSound(events) /\ Record(events) /\ Tells(events)
  <2> DEFINE e == Event(t, "progress", <<"clear", db.clock + 1>>, "clear")
  <2>1. progress' = [progress EXCEPT ![t] = NoProgress] /\ UNCHANGED library /\ Record({e})
    BY <1>4 DEF ClearProgress
  <2>2. ProgressEventTells(e, NoProgress) /\ e.title = t /\ e.type = "progress"
    BY DEF ProgressEventTells, NoProgress, Event
  <2>3. EventsSound({e})
    BY TitleEventSound
  <2> HIDE DEF e
  <2>4. Tells({e})
    BY <1>0, <2>1, <2>2, OneTells
  <2> QED
    BY <2>1, <2>3, <2>4 DEF LibraryInv
<1>5. ASSUME NEW t \in Titles, NEW input, UpdateUserData(t, input)
      PROVE  LibraryInv' /\ \E events : EventsSound(events) /\ Record(events) /\ Tells(events)
  <2>1. UNCHANGED library
    BY <1>5 DEF UpdateUserData
  <2>2. \/ UNCHANGED progress /\ Record({})
        \/ \E p : progress' = [progress EXCEPT ![t] = p] /\ Record({ProgressEvent(t, p)})
    BY <1>5 DEF UpdateUserData
  <2>3. CASE UNCHANGED progress /\ Record({})
    BY <2>1, <2>3, NoneTells, NoEvents DEF LibraryInv
  <2>4. ASSUME NEW p, progress' = [progress EXCEPT ![t] = p], Record({ProgressEvent(t, p)})
        PROVE  \E events : EventsSound(events) /\ Record(events) /\ Tells(events)
    <3> DEFINE e == ProgressEvent(t, p)
    <3>1. /\ e.title = t /\ e.type = "progress" /\ ProgressEventTells(e, p) /\ EventsSound({e})
          /\ Record({e})
      BY <2>4, ScrobbleTells, TitleEventSound
    <3> HIDE DEF e
    <3>2. Tells({e})
      BY <1>0, <2>1, <2>4, <3>1, OneTells
    <3> QED
      BY <3>1, <3>2
  <2> QED
    BY <2>1, <2>2, <2>3, <2>4 DEF LibraryInv
<1>6. ASSUME NEW t \in Titles, AddLibrary(t)
      PROVE  LibraryInv' /\ \E events : EventsSound(events) /\ Record(events) /\ Tells(events)
  <2> DEFINE now == db.clock + 1
             events == IF MediaType[t] = "tv" THEN {}
                       ELSE {LibraryEvent(t, <<"library add", now>>, "add")}
  <2>1. library' = [library EXCEPT ![t] = now] /\ UNCHANGED progress /\ Record(events)
    BY <1>6 DEF AddLibrary
  <2>2. now \in Nat /\ "add" = IF now > 0 THEN "add" ELSE "remove"
    BY <1>0
  <2> HIDE DEF now
  <2>3. events = IF MediaType[t] = "tv" THEN {}
                 ELSE {LibraryEvent(t, <<"library add", now>>, "add")}
    OBVIOUS
  <2> HIDE DEF events
  <2>4. Tells(events) /\ LibraryInv' /\ EventsSound(events)
    BY <2>1, <2>2, <2>3, LibraryTells
  <2> QED
    BY <2>1, <2>4
<1>7. ASSUME NEW t \in Titles, RemoveLibrary(t)
      PROVE  LibraryInv' /\ \E events : EventsSound(events) /\ Record(events) /\ Tells(events)
  <2> DEFINE now == db.clock + 1
             events == IF MediaType[t] = "tv" THEN {}
                       ELSE {LibraryEvent(t, <<"library remove", now>>, "remove")}
  <2>1. library' = [library EXCEPT ![t] = 0] /\ UNCHANGED progress /\ Record(events)
    BY <1>7 DEF RemoveLibrary
  <2>2. 0 \in Nat /\ "remove" = IF 0 > 0 THEN "add" ELSE "remove"
    OBVIOUS
  <2> HIDE DEF now
  <2>3. events = IF MediaType[t] = "tv" THEN {}
                 ELSE {LibraryEvent(t, <<"library remove", now>>, "remove")}
    OBVIOUS
  <2> HIDE DEF events
  <2>4. Tells(events) /\ LibraryInv' /\ EventsSound(events)
    BY <2>1, <2>2, <2>3, LibraryTells
  <2> QED
    BY <2>1, <2>4
<1>8. ASSUME NEW t \in Titles, DismissContinue(t)
      PROVE  LibraryInv' /\ \E events : EventsSound(events) /\ Record(events) /\ Tells(events)
  BY <1>8, NoneTells, NoEvents DEF DismissContinue, LibraryInv
<1> QED
  BY <1>1, <1>2, <1>3, <1>4, <1>5, <1>6, <1>7, <1>8 DEF Write

LEMMA WriteMirrors ==
  ASSUME WatchInv, MirrorInv, Write
  PROVE  MirrorInv'
BY WriteTells, RecordMirrors DEF MirrorInv

-----------------------------------------------------------------------------
(* The other steps.                                                        *)

LEMMA MirrorStutters ==
  ASSUME MirrorInv, UNCHANGED <<conn, sync, db, worker, remote, library, progress>>,
         spent'.toggles = spent.toggles, spent'.connects = spent.connects
  PROVE  MirrorInv'
<1>1. MarksTrue(db)'
  BY MarksPrimed DEF MirrorInv
<1>2. FirstTrue' /\ LibraryInv'
  BY DEF MirrorInv, FirstTrue, LibraryInv
<1>3. \A t \in Titles, type \in Types : \A value :
        Told(db, conn, t, type, value) => Told(db, conn, t, type, value)'
  BY ToldPrimed
<1>4. \A t \in Titles : Untouched(db, t) => Untouched(db, t)'
  BY DEF Untouched
<1>5. ToldInv'
  BY <1>3, <1>4, ToldKept DEF MirrorInv
<1> QED
  BY <1>1, <1>2, <1>5 DEF MirrorInv

LEMMA MarksDeleted ==
  ASSUME NEW s, NEW n, MarksTrue(s), n.heads = s.heads, n.rows \subseteq s.rows
  PROVE  MarksTrue(n)
<1>1. RowsTrue(n)
  BY DEF MarksTrue, RowsTrue, RowsSame, KeysOfHeads, LibraryApart
<1>2. WorkTrue(n)
  BY DEF MarksTrue, WorkTrue, WorkSame, Past
<1>3. RemoteTrue(n)
  BY DEF MarksTrue, RemoteTrue, Past
<1> QED
  BY <1>1, <1>2, <1>3 DEF MarksTrue

LEMMA WordPrimed ==
  ASSUME UNCHANGED worker, NEW t, NEW type, NEW value, Word(db', conn', t, type, value)
  PROVE  Told(db, conn, t, type, value)'
<1>1. Newest(db, t, type)'
  BY DEF Word, Newest
<1>2. Queued(db, conn, t, type, value)'
  BY DEF Word, Queued, Kept
<1> QED
  BY <1>1, <1>2 DEF Told

\* After a seeding everything is told, but that a title was never in the library.
LEMMA SeededTold ==
  ASSUME SeedTold(db', conn', sync'), UNCHANGED <<worker, library, progress>>,
         NEW t \in Titles
  PROVE  /\ AdditionTold(db, conn, sync, t)' /\ WatchedTold(db, conn, sync, t)'
         /\ PositionTold(db, conn, sync, t)'
<1>1. AdditionTold(db, conn, sync, t)'
  <2>1. SUFFICES ASSUME "library" \in sync', library[t] > 0
                 PROVE  Told(db, conn, t, "library", "add")'
    BY DEF AdditionTold
  <2>2. Word(db', conn', t, "library", "add")
    BY <2>1 DEF SeedTold
  <2> QED
    BY <2>2, WordPrimed
<1>2. WatchedTold(db, conn, sync, t)'
  <2>1. ASSUME "watched" \in sync', progress[t].completed
        PROVE  Told(db, conn, t, "watched", "add")'
    <3>1. Word(db', conn', t, "watched", "add")
      BY <2>1 DEF SeedTold
    <3> QED
      BY <3>1, WordPrimed
  <2>2. ASSUME "watched" \in sync', "progress" \in sync', ~progress[t].completed,
               progress[t].version > 0, db'.heads[t]["watched"].at > db'.heads[t]["progress"].at
        PROVE  Told(db, conn, t, "watched", "remove")'
    <3>1. Word(db', conn', t, "watched", "remove")
      BY <2>2 DEF SeedTold
    <3> QED
      BY <3>1, WordPrimed
  <2> QED
    BY <2>1, <2>2 DEF WatchedTold
<1>3. PositionTold(db, conn, sync, t)'
  <2>1. SUFFICES ASSUME "progress" \in sync', ~progress[t].completed, progress[t].position > 0
                 PROVE  Told(db, conn, t, "progress", "pause")'
    BY DEF PositionTold
  <2>2. Word(db', conn', t, "progress", "pause")
    BY <2>1 DEF SeedTold
  <2> QED
    BY <2>2, WordPrimed
<1> QED
  BY <1>1, <1>2, <1>3

LEMMA ConnectMirrors ==
  ASSUME WatchInv, WatchInv', MirrorInv, Connect
  PROVE  MirrorInv'
<1> DEFINE seeded == SeedProfileState(db, TRUE, sync)
<1>1. CompleteDeviceAuthorization(seeded) /\ UNCHANGED <<library, progress>>
  BY DEF Connect, watchVars
<1>2. /\ OutboxInv(db, sync) /\ sync \in SUBSET Types /\ ProgressInv
      /\ WorkerInv(db) /\ RemoteInv(db) /\ spent.connects \in Nat
      /\ MarksTrue(db) /\ FirstTrue /\ ToldInv /\ LibraryInv
      /\ spent \in [connects : Nat, toggles : Nat, faults : Nat, writes : Nat]
  BY DEF WatchInv, TrackingInv, AccountInv, MirrorInv
<1>3. CASE ~seeded.ok
  <2>1. UNCHANGED <<conn, spent, db, remote, sync, worker>>
    BY <1>1, <1>3 DEF CompleteDeviceAuthorization
  <2> QED
    BY <1>1, <2>1, MirrorStutters
<1>4. CASE seeded.ok
  <2> DEFINE c == spent.connects + 1
  <2>1. /\ conn' = c /\ spent' = [spent EXCEPT !.connects = @ + 1]
        /\ db' = seeded /\ UNCHANGED <<sync, worker>>
        /\ remote' = [t \in Titles |-> [type \in Types |-> Unknown]]
    BY <1>1, <1>4 DEF CompleteDeviceAuthorization
  <2>2. /\ MarksTrue(seeded) /\ SeedTold(seeded, c, sync)
        /\ \A t \in Titles : ~(library[t] > 0) =>
             seeded.heads[t]["library"] = db.heads[t]["library"]
    BY <1>2, <1>4, SeedTells
  <2>3. spent'.connects = spent.connects + 1
    BY <1>2, <2>1
  <2>4. OutboxInv(db, sync)' /\ WorkerInv(db)'
    BY DEF WatchInv, TrackingInv
  <2> HIDE DEF seeded, c
  <2>5. \A t \in Titles, type \in Types : remote'[t][type] = Unknown /\ remote'[t][type].at = 0
    BY <2>1 DEF Unknown
  <2>6. MarksTrue(db)'
    <3>1. RowsTrue(db)' /\ WorkTrue(db)'
      BY <2>1, <2>2 DEF MarksTrue, RowsTrue, RowsSame, KeysOfHeads, LibraryApart, WorkTrue,
                        WorkSame, Past
    <3>2. \A r \in db'.rows : Agrees(r)'
      <4>1. \A r \in db'.rows : r.title \in Titles /\ r.type \in Types /\ r.seq \in Nat \ {0}
        BY <2>4 DEF OutboxInv, RowTyped, AccountInv, WatchInv, TrackingInv
      <4> QED
        BY <2>5, <4>1 DEF Agrees
    <3>3. worker'.pc # "idle" => Agrees(worker.row)'
      <4>1. worker'.pc # "idle" => /\ worker'.row.title \in Titles /\ worker'.row.type \in Types
                                   /\ worker'.row.seq \in Nat \ {0}
        BY <2>4 DEF WorkerInv, WorkSound
      <4> QED
        BY <2>5, <4>1 DEF Agrees
    <3>4. \A t \in Titles, type \in Types : Past(db', t, type, remote'[t][type].at)
      <4>1. \A t \in Titles, type \in Types : db'.heads[t][type].at >= 0
        BY <2>4 DEF OutboxInv, HeadsTyped
      <4> QED
        BY <2>5, <4>1 DEF Past
    <3>5. RemoteTrue(db)'
      BY <3>2, <3>3, <3>4 DEF RemoteTrue, Past
    <3> QED
      BY <3>1, <3>5 DEF MarksTrue
  <2>7. spent.connects = 0 => worker.pc = "idle"
                              /\ \A t \in Titles, type \in Types : db.heads[t][type].at = 0
    BY <1>2 DEF FirstTrue
  <2>8. FirstTrue'
    BY <1>2, <2>1, <2>3, <2>7 DEF FirstTrue
  <2>9. SeedTold(db', conn', sync')
    BY <2>1, <2>2 DEF SeedTold
  <2>10. ASSUME NEW t \in Titles PROVE RemovalTold(db, conn, sync, t)'
    <3> SUFFICES ASSUME library[t] = 0, spent'.connects = 1 PROVE Untouched(db, t)'
      BY <1>1 DEF RemovalTold
    <3>1. "library" \in Types
      BY DEF Types
    <3>2. db'.heads[t]["library"].at = 0
      BY <1>2, <2>1, <2>2, <2>3, <2>7, <3>1
    <3> QED
      BY <2>5, <3>1, <3>2 DEF Untouched
  <2>11. ToldInv'
    BY <1>1, <2>1, <2>9, <2>10, SeededTold DEF ToldInv
  <2>12. LibraryInv'
    BY <1>1, <1>2 DEF LibraryInv
  <2> QED
    BY <2>6, <2>8, <2>11, <2>12 DEF MirrorInv
<1> QED
  BY <1>3, <1>4

LEMMA ChangePreferencesMirrors ==
  ASSUME WatchInv, WatchInv', MirrorInv, ChangePreferences
  PROVE  MirrorInv'
<1>1. PICK input \in Preferences :
        LET types == (sync \cup input.enabled) \ input.disabled IN
        /\ UpdatePreferences(types,
              IF input.enabled = {} THEN Cleared(input.disabled)
              ELSE SeedProfileState(Cleared(input.disabled), TRUE, types))
        /\ UNCHANGED watchVars
  BY DEF ChangePreferences
<1> DEFINE types == (sync \cup input.enabled) \ input.disabled
           s == Cleared(input.disabled)
           seeded == SeedProfileState(s, TRUE, types)
<1>2. /\ types \in SUBSET Types /\ OutboxInv(s, types)
      /\ WorkerInv(s) /\ RemoteInv(s)
  BY ClearedKeeps DEF WatchInv
<1>3. /\ s.heads = db.heads /\ s.rows = {r \in db.rows : r.type \notin input.disabled}
  BY ClearedShape DEF WatchInv, TrackingInv
<1>4. /\ conn # 0 /\ sync' = types
      /\ spent' = [spent EXCEPT !.toggles = @ + 1]
      /\ UNCHANGED <<conn, worker, remote, library, progress>>
      /\ \/ input.enabled = {} /\ db' = s
         \/ input.enabled # {} /\ db' = seeded /\ seeded.ok
  BY <1>1 DEF UpdatePreferences, watchVars
<1>5. types = (sync \cup input.enabled) \ input.disabled
  OBVIOUS
<1> HIDE DEF types, s, seeded
<1>6. /\ ProgressInv /\ MarksTrue(db) /\ FirstTrue /\ ToldInv /\ LibraryInv
      /\ spent \in [connects : Nat, toggles : Nat, faults : Nat, writes : Nat]
      /\ conn \in 0..spent.connects
  BY DEF WatchInv, TrackingInv, AccountInv, MirrorInv
<1>7. spent'.toggles = spent.toggles + 1 /\ spent.toggles \in Nat /\ spent.connects \in Nat
      /\ spent'.connects = spent.connects /\ spent.connects # 0
  BY <1>4, <1>6
<1>8. MarksTrue(s)
  BY <1>3, <1>6, MarksDeleted
<1>9. \A t \in Titles : RemovalTold(db, conn, sync, t)'
  BY <1>7 DEF RemovalTold
<1>10. CASE input.enabled = {} /\ db' = s
  <2>1. MarksTrue(db)'
    BY <1>4, <1>8, <1>10, MarksPrimed
  <2>2. db'.heads = db.heads
    BY <1>3, <1>10
  <2>3. \A t \in Titles, type \in Types : \A value :
          type \in sync' /\ Told(db, conn, t, type, value) => Told(db, conn, t, type, value)'
    <3> SUFFICES ASSUME NEW t \in Titles, NEW type \in Types, NEW value, type \in types,
                        Told(db, conn, t, type, value)
                 PROVE  Told(db, conn, t, type, value)'
      BY <1>4
    <3>1. Newest(db', t, type) /\ (Received(db, t, type, value) => Received(db', t, type, value))
      BY <2>2 DEF Told, Newest, Received
    <3>2. Queued(db, conn, t, type, value) => Queued(db', conn, t, type, value)
      BY <1>3, <1>5, <1>10, <2>2 DEF Queued
    <3>3. Told(db', conn, t, type, value)
      BY <3>1, <3>2 DEF Told
    <3> QED
      BY <1>4, <3>3, ToldPrimed
  <2>4. sync' \subseteq sync
    BY <1>4, <1>5, <1>10
  <2>5. ASSUME NEW t \in Titles
        PROVE  /\ AdditionTold(db, conn, sync, t)' /\ WatchedTold(db, conn, sync, t)'
               /\ PositionTold(db, conn, sync, t)'
    <3>1. /\ AdditionTold(db, conn, sync, t) /\ WatchedTold(db, conn, sync, t)
          /\ PositionTold(db, conn, sync, t)
      BY <1>4, <1>6 DEF ToldInv
    <3>2. \A type \in {"watched", "progress", "library"} : \A value :
            type \in sync' /\ Told(db, conn, t, type, value) => Told(db, conn, t, type, value)'
      BY <2>3 DEF Types
    <3>3. AdditionTold(db, conn, sync, t)'
      BY <1>4, <2>4, <3>1, <3>2 DEF AdditionTold
    <3>4. WatchedTold(db, conn, sync, t)'
      BY <1>4, <2>2, <2>4, <3>1, <3>2 DEF WatchedTold
    <3>5. PositionTold(db, conn, sync, t)'
      BY <1>4, <2>4, <3>1, <3>2 DEF PositionTold
    <3> QED
      BY <3>3, <3>4, <3>5
  <2>6. ToldInv'
    BY <1>9, <2>5 DEF ToldInv
  <2>7. FirstTrue' /\ LibraryInv'
    BY <1>4, <1>6, <1>7, <2>2 DEF FirstTrue, LibraryInv
  <2> QED
    BY <2>1, <2>6, <2>7 DEF MirrorInv
<1>11. CASE db' = seeded /\ seeded.ok
  <2>1. /\ MarksTrue(seeded) /\ SeedTold(seeded, conn, types)
        /\ \A t \in Titles, type \in Types : seeded.heads[t][type].at >= s.heads[t][type].at
    BY <1>2, <1>6, <1>8, <1>11, SeedTells DEF seeded
  <2>2. MarksTrue(db)'
    BY <1>4, <1>11, <2>1, MarksPrimed
  <2>3. SeedTold(db', conn', sync')
    BY <1>4, <1>11, <2>1 DEF SeedTold
  <2>4. ToldInv'
    BY <1>4, <1>9, <2>3, SeededTold DEF ToldInv
  <2>5. FirstTrue'
    <3>1. ASSUME spent.connects = 1, worker.pc # "idle"
          PROVE  db'.heads[worker.row.title][worker.row.type].at >= worker.row.seq
      <4> DEFINE t == worker.row.title  type == worker.row.type  seq == worker.row.seq
      <4>1. t \in Titles /\ type \in Types /\ seq \in Nat
        BY <3>1 DEF WatchInv, TrackingInv, WorkerInv, WorkSound
      <4>2. db.heads[t][type].at >= seq
        BY <1>4, <1>6, <3>1 DEF FirstTrue
      <4> HIDE DEF t, type, seq
      <4>3. db'.heads[t][type].at >= db.heads[t][type].at
        BY <1>3, <1>11, <2>1, <4>1
      <4>4. db.heads[t][type].at \in Nat /\ db'.heads[t][type].at \in Nat
        BY <4>1 DEF WatchInv, TrackingInv, OutboxInv, HeadsTyped
      <4>5. db'.heads[t][type].at >= seq
        BY <4>1, <4>2, <4>3, <4>4
      <4> QED
        BY <4>5 DEF t, type, seq
    <3> QED
      BY <1>4, <1>7, <3>1 DEF FirstTrue
  <2>6. LibraryInv'
    BY <1>4, <1>6 DEF LibraryInv
  <2> QED
    BY <2>2, <2>4, <2>5, <2>6 DEF MirrorInv
<1> QED
  BY <1>4, <1>10, <1>11

LEMMA AuthorizationMirrors ==
  ASSUME WatchInv, MirrorInv, BeginDeviceAuthorization \/ PollAuthorization \/ PollRefused,
         UNCHANGED watchVars
  PROVE  MirrorInv'
<1>1. /\ UNCHANGED <<conn, sync, db, worker, remote, library, progress>>
      /\ UNCHANGED spent \/ spent' = [spent EXCEPT !.faults = @ + 1]
  BY DEF BeginDeviceAuthorization, PollAuthorization, PollRefused, watchVars
<1>2. spent'.toggles = spent.toggles /\ spent'.connects = spent.connects
  BY <1>1 DEF WatchInv, TrackingInv, AccountInv
<1> QED
  BY <1>1, <1>2, MirrorStutters

LEMMA DisconnectMirrors ==
  ASSUME WatchInv, WatchInv', MirrorInv, Disconnect, UNCHANGED watchVars
  PROVE  MirrorInv'
<1>1. /\ conn' = 0 /\ UNCHANGED <<worker, spent, library>>
      /\ remote' = [t \in Titles |-> [type \in Types |-> Unknown]]
  BY DEF Disconnect, watchVars
<1>2. /\ db'.heads = [t \in Titles |-> [type \in Types |-> NoHead]] /\ db'.rows = {}
  BY DisconnectShape DEF WatchInv, TrackingInv
<1>3. \A t \in Titles, type \in Types :
        /\ db'.heads[t][type].at = 0 /\ ~db'.heads[t][type].affects /\ remote'[t][type].at = 0
  BY <1>1, <1>2 DEF NoHead, Unknown
<1>4. worker'.pc # "idle" =>
        /\ worker'.row.title \in Titles /\ worker'.row.type \in Types
        /\ worker'.row.seq \in Nat \ {0}
  BY DEF WatchInv, TrackingInv, WorkerInv, WorkSound
<1>5. RowsTrue(db)'
  <2>1. LibraryApart(db)'
    BY <1>3 DEF LibraryApart, Types
  <2> QED
    BY <1>2, <2>1 DEF RowsTrue, RowsSame, KeysOfHeads
<1>6. WorkTrue(db)'
  <2>1. WorkSame(db)'
    BY <1>2 DEF WorkSame
  <2>2. worker'.pc # "idle" => Past(db, worker.row.title, worker.row.type, worker.row.seq)'
    BY <1>3, <1>4 DEF Past
  <2> QED
    BY <2>1, <2>2 DEF WorkTrue
<1>7. RemoteTrue(db)'
  <2>1. worker'.pc # "idle" => Agrees(worker.row)'
    BY <1>3, <1>4 DEF Agrees
  <2>2. \A t \in Titles, type \in Types : Past(db, t, type, remote[t][type].at)'
    BY <1>3 DEF Past
  <2> QED
    BY <1>2, <2>1, <2>2 DEF RemoteTrue
<1>8. FirstTrue' /\ ToldInv' /\ LibraryInv'
  BY <1>1, <1>3 DEF MirrorInv, FirstTrue, ToldInv, LibraryInv
<1> QED
  BY <1>5, <1>6, <1>7, <1>8 DEF MirrorInv, MarksTrue

\* The row r is still to be sent, or the provider has its event.
Carried(r) ==
  \/ \E q \in db'.rows : /\ q.title = r.title /\ q.type = r.type /\ q.value = r.value
                         /\ q.seq = r.seq /\ Kept(q, conn)'
  \/ remote'[r.title][r.type].value = r.value /\ remote'[r.title][r.type].at = r.seq

\* r is the row of a newest event, and is not about to be deleted.
Wanted(r) ==
  /\ Newest(db, r.title, r.type) /\ r.seq = db.heads[r.title][r.type].at
  /\ Kept(r, conn)

\* A step of the worker or of time: the heads stay, and every newest event is carried on.
LEMMA CarriedTold ==
  ASSUME ToldInv, UNCHANGED <<conn, sync, library, progress>>, db'.heads = db.heads,
         spent'.toggles = spent.toggles, spent'.connects = spent.connects,
         conn # 0 =>
           /\ \A r \in db.rows : Wanted(r) => Carried(r)
           /\ \A t \in Titles, type \in Types : \A value :
                Newest(db, t, type) /\ Received(db, t, type, value) => Received(db, t, type, value)'
           /\ \A t \in Titles : spent.connects = 1 /\ Untouched(db, t) => Untouched(db, t)'
  PROVE  ToldInv'
<1>1. ASSUME conn # 0, NEW t \in Titles, NEW type \in Types, NEW value,
             Told(db, conn, t, type, value)
      PROVE  Told(db, conn, t, type, value)'
  <2>1. Newest(db, t, type) /\ Newest(db, t, type)'
    BY <1>1 DEF Told, Newest
  <2>2. CASE Received(db, t, type, value)
    BY <1>1, <2>1, <2>2 DEF Told
  <2>3. CASE Queued(db, conn, t, type, value)
    <3>1. PICK r \in db.rows : /\ r.title = t /\ r.type = type /\ r.value = value
                               /\ r.seq = db.heads[t][type].at /\ Kept(r, conn)
      BY <2>3 DEF Queued
    <3>2. Carried(r)
      BY <1>1, <2>1, <3>1 DEF Wanted
    <3>3. Queued(db, conn, t, type, value)' \/ Received(db, t, type, value)'
      BY <3>1, <3>2 DEF Carried, Queued, Received
    <3> QED
      BY <2>1, <3>3 DEF Told
  <2> QED
    BY <1>1, <2>2, <2>3 DEF Told
<1> QED
  BY <1>1, ToldKept

LEMMA SameReceived ==
  ASSUME db'.heads = db.heads, UNCHANGED remote
  PROVE  /\ \A t \in Titles, type \in Types : \A value :
              Received(db, t, type, value) => Received(db, t, type, value)'
         /\ \A t \in Titles : Untouched(db, t) => Untouched(db, t)'
BY DEF Received, Untouched

\* A row is marked: the rows are told apart as before, and nothing that was carried is dropped.
LEMMA MarkedMirrors ==
  ASSUME WatchInv, MirrorInv, NEW r \in db.rows, NEW m, Marked(m, r),
         db'.rows = (db.rows \ {r}) \cup {m}, db'.heads = db.heads,
         UNCHANGED <<conn, sync, remote, spent, library, progress>>,
         worker'.pc # "done" /\ worker'.token = 0
  PROVE  /\ RowsTrue(db)' /\ ToldInv' /\ LibraryInv'
         /\ \A q \in db'.rows : Agrees(q)'
         /\ \A t \in Titles, type \in Types : Past(db, t, type, remote[t][type].at)'
<1>1. /\ m.id = r.id /\ m.title = r.title /\ m.type = r.type /\ m.key = r.key
      /\ m.value = r.value /\ m.seq = r.seq
  BY DEF Marked
<1>2. \A q \in db'.rows : q = m \/ (q \in db.rows /\ q # r)
  OBVIOUS
<1>3. RowsTrue(db) /\ RemoteTrue(db) /\ ToldInv /\ LibraryInv
  BY DEF MirrorInv, MarksTrue
<1>4. RowsSame(db)'
  <2>1. \A p \in db.rows : p.title = r.title /\ p.seq = r.seq => p = r
    BY <1>3 DEF RowsTrue, RowsSame
  <2> SUFFICES ASSUME NEW p \in db'.rows, NEW q \in db'.rows, p.title = q.title, p.seq = q.seq
               PROVE  p = q
    BY DEF RowsSame
  <2>2. CASE p = m \/ q = m
    BY <1>1, <1>2, <2>1, <2>2
  <2>3. CASE p # m /\ q # m
    BY <1>2, <1>3, <2>3 DEF RowsTrue, RowsSame
  <2> QED
    BY <2>2, <2>3
<1>5. KeysOfHeads(db)' /\ LibraryApart(db)'
  BY <1>1, <1>2, <1>3 DEF RowsTrue, KeysOfHeads, LibraryApart
<1>6. \A q \in db'.rows : Agrees(q)'
  BY <1>1, <1>2, <1>3 DEF RemoteTrue, Agrees
<1>7. \A t \in Titles, type \in Types : Past(db, t, type, remote[t][type].at)'
  BY <1>3 DEF RemoteTrue, Past
<1>8. \A p \in db.rows : Carried(p)
  <2> SUFFICES ASSUME NEW p \in db.rows PROVE Carried(p)
    OBVIOUS
  <2>1. \A q : Kept(q, conn)'
    BY DEF Kept
  <2>2. CASE p = r
    BY <1>1, <2>1, <2>2 DEF Carried
  <2>3. CASE p # r
    BY <2>1, <2>3 DEF Carried
  <2> QED
    BY <2>2, <2>3
<1>9. ToldInv'
  BY <1>3, <1>8, SameReceived, CarriedTold
<1>10. LibraryInv'
  BY <1>3 DEF LibraryInv
<1> QED
  BY <1>4, <1>5, <1>6, <1>7, <1>9, <1>10 DEF RowsTrue

LEMMA RowTimerMirrors ==
  ASSUME WatchInv, MirrorInv, RowTimer, UNCHANGED watchVars
  PROVE  MirrorInv'
<1>1. worker.pc = "idle" /\ UNCHANGED <<authorization, polling, conn, sync, worker, remote, spent>>
      /\ UNCHANGED <<library, progress>>
  BY DEF RowTimer, watchVars
<1>2. worker.token = 0 /\ TrackingInv
  BY <1>1 DEF WatchInv, TrackingInv, WorkerInv, Idle
<1>3. PICK r, m :
           /\ r \in db.rows
           /\ Marked(m, r) /\ (m.lease = "none" => r.lease = "none")
           /\ db' = [db EXCEPT !.rows = (@ \ {r}) \cup {m}]
  BY <1>2, RowTimerStep
<1>4. db'.rows = (db.rows \ {r}) \cup {m} /\ db'.heads = db.heads
  BY <1>1, <1>2, <1>3, MarkedStep
<1>5. /\ RowsTrue(db)' /\ ToldInv' /\ LibraryInv'
      /\ \A q \in db'.rows : Agrees(q)'
      /\ \A t \in Titles, type \in Types : Past(db, t, type, remote[t][type].at)'
  BY <1>1, <1>2, <1>3, <1>4, MarkedMirrors
<1>6. WorkTrue(db)' /\ RemoteTrue(db)'
  BY <1>1, <1>5 DEF WorkTrue, RemoteTrue
<1>7. FirstTrue'
  BY <1>1, <1>4 DEF MirrorInv, FirstTrue
<1> QED
  BY <1>5, <1>6, <1>7 DEF MirrorInv, MarksTrue

LEMMA ClaimMirrors ==
  ASSUME WatchInv, MirrorInv, Claim, UNCHANGED watchVars
  PROVE  MirrorInv'
<1>1. TrackingInv
  BY DEF WatchInv
<1>2. PICK r, m :
           /\ r \in db.rows
           /\ Claimable(r) /\ Marked(m, r) /\ m.lease = "held"
           /\ db' = [db EXCEPT !.rows = (@ \ {r}) \cup {m}]
           /\ worker' = [pc |-> "claimed", row |-> r, token |-> 0]
           /\ worker.pc = "idle"
           /\ UNCHANGED <<authorization, polling, conn, sync, remote, spent>>
  BY <1>1, ClaimStep
<1>3. db'.rows = (db.rows \ {r}) \cup {m} /\ db'.heads = db.heads
  BY <1>1, <1>2, MarkedStep
<1>4. worker'.pc = "claimed" /\ worker'.row = r /\ worker'.token = 0
      /\ UNCHANGED <<library, progress>>
  BY <1>2 DEF watchVars
<1>5. /\ RowsTrue(db)' /\ ToldInv' /\ LibraryInv'
      /\ \A q \in db'.rows : Agrees(q)'
      /\ \A t \in Titles, type \in Types : Past(db, t, type, remote[t][type].at)'
  BY <1>2, <1>3, <1>4, MarkedMirrors
<1>6. /\ m.id = r.id /\ m.title = r.title /\ m.type = r.type
      /\ m.value = r.value /\ m.seq = r.seq /\ m \in db'.rows
  BY <1>2, <1>3 DEF Marked
<1>7. /\ r.title \in Titles /\ r.type \in Types /\ r.seq \in Nat \ {0}
      /\ db.heads[r.title][r.type].at >= r.seq
      /\ IdsUnique(db)
  BY <1>1, <1>2 DEF TrackingInv, OutboxInv, RowTyped, AccountInv
<1>8. WorkSame(db)'
  <2>1. \A q \in db'.rows : q.id = r.id => q = m
    BY <1>2, <1>3, <1>7 DEF IdsUnique
  <2>2. \A q \in db'.rows : q.title = m.title /\ q.seq = m.seq => q = m
    BY <1>5, <1>6 DEF RowsTrue, RowsSame
  <2> QED
    BY <1>4, <1>6, <2>1, <2>2 DEF WorkSame
<1>9. WorkTrue(db)'
  BY <1>3, <1>4, <1>7, <1>8 DEF WorkTrue, Past
<1>10. Agrees(worker.row)'
  BY <1>4, <1>5, <1>6 DEF Agrees
<1>11. RemoteTrue(db)'
  BY <1>5, <1>10 DEF RemoteTrue
<1>12. FirstTrue'
  BY <1>2, <1>3, <1>4, <1>7 DEF MirrorInv, FirstTrue
<1> QED
  BY <1>5, <1>9, <1>11, <1>12 DEF MirrorInv, MarksTrue

\* A row of a newest event is not superseded.
LEMMA WantedCurrent ==
  ASSUME WatchInv, MirrorInv, NEW r \in db.rows, Wanted(r)
  PROVE  Current(db.heads, r)
<1>1. HeadsTyped(db) /\ db.clock \in Nat /\ r.title \in Titles /\ r.type \in Types
  BY DEF WatchInv, TrackingInv, OutboxInv, Shaped, RowTyped, AccountInv
<1>2. LibraryApart(db) /\ r.key = db.heads[r.title][r.type].key
  BY DEF MirrorInv, MarksTrue, RowsTrue, KeysOfHeads, Wanted
<1> QED
  BY <1>1, <1>2, NewestCurrent DEF Wanted

LEMMA WorkCurrent ==
  ASSUME WatchInv, MirrorInv, worker.pc # "idle", NEW r \in db.rows, Wanted(r),
         r.id = worker.row.id
  PROVE  Current(db.heads, worker.row)
<1>1. r.title = worker.row.title /\ r.type = worker.row.type /\ r.key = worker.row.key
  BY DEF WatchInv, TrackingInv, WorkerInv, WorkSound
<1>2. Current(db.heads, r)
  BY WantedCurrent
<1> QED
  BY <1>1, <1>2 DEF Current

\* The worker goes on with its row.
LEMMA WorkingTrue ==
  ASSUME MirrorInv, UNCHANGED <<db, conn, library>>, worker.pc # "idle",
         worker'.row = worker.row, spent'.connects = spent.connects
  PROVE  RowsTrue(db)' /\ WorkTrue(db)' /\ LibraryInv' /\ FirstTrue'
<1>1. RowsTrue(db)' /\ LibraryInv'
  BY DEF MirrorInv, MarksTrue, RowsTrue, RowsSame, KeysOfHeads, LibraryApart, LibraryInv
<1>2. WorkTrue(db)'
  BY DEF MirrorInv, MarksTrue, WorkTrue, WorkSame, Past
<1>3. FirstTrue'
  BY DEF MirrorInv, FirstTrue
<1> QED
  BY <1>1, <1>2, <1>3

\* Its row, or the row it would delete, is no row of a newest event that was not sent.
LEMMA WorkingKept ==
  ASSUME WatchInv, MirrorInv, CheckLatest \/ AccessToken \/ SendToOldAccount
  PROVE  /\ worker'.row = worker.row /\ worker.pc # "idle"
         /\ \A r \in db.rows : Wanted(r) => Kept(r, conn)'
<1>1. UNCHANGED <<conn, db>> /\ worker.pc # "idle" /\ WorkerInv(db)
  BY DEF CheckLatest, AccessToken, SendToOldAccount, WatchInv, TrackingInv
<1> DEFINE row == worker.row  token == worker.token  pc == worker.pc
<1>2. CASE CheckLatest
  <2> DEFINE next == IF Current(db.heads, row) THEN "latest" ELSE "done"
  <2>1. worker' = [worker EXCEPT !.pc = next]
    BY <1>2 DEF CheckLatest
  <2>2. next = "done" => ~Current(db.heads, row)
    OBVIOUS
  <2> HIDE DEF next
  <2>3. worker'.pc = next /\ worker'.row = row /\ worker'.token = token
    BY <1>1, <2>1, WorkerMoves
  <2>4. ASSUME NEW r \in db.rows, Wanted(r) PROVE Kept(r, conn)'
    <3>1. r.id = row.id => next # "done"
      BY <1>1, <2>2, <2>4, WorkCurrent
    <3> QED
      BY <1>1, <2>3, <2>4, <3>1 DEF Wanted, Kept
  <2> QED
    BY <1>1, <2>3, <2>4
<1>3. CASE AccessToken
  <2> DEFINE next == IF conn = 0 THEN "failed" ELSE "sending"
  <2>1. worker = [pc |-> pc, row |-> row, token |-> token]
    BY <1>1 DEF WorkerInv
  <2>2. worker' = [worker EXCEPT !.pc = next, !.token = conn] /\ next # "done"
    BY <1>3 DEF AccessToken
  <2> HIDE DEF next, row, token, pc
  <2>3. worker' = [pc |-> next, row |-> row, token |-> conn]
    BY <2>1, <2>2
  <2>4. worker'.pc = next /\ worker'.row = row /\ worker'.token = conn
    BY <2>3
  <2> QED
    BY <1>1, <2>2, <2>4 DEF Kept, row
<1>4. CASE SendToOldAccount
  <2>1. PICK next \in {"done", "failed", "latest"} : worker' = [worker EXCEPT !.pc = next]
    BY <1>4 DEF SendToOldAccount
  <2>2. worker'.row = row /\ worker'.token = token
    BY <1>1, <2>1, WorkerMoves
  <2>3. token # conn /\ token # 0
    BY <1>1, <1>4 DEF SendToOldAccount, WorkerInv
  <2>4. \A r \in db.rows : Wanted(r) => r.id # row.id
    BY <2>3 DEF Wanted, Kept
  <2> QED
    BY <1>1, <2>2, <2>4 DEF Kept
<1> QED
  BY <1>2, <1>3, <1>4

LEMMA WorkingMirrors ==
  ASSUME WatchInv, MirrorInv, CheckLatest \/ AccessToken \/ SendToOldAccount,
         UNCHANGED watchVars
  PROVE  MirrorInv'
<1>1. UNCHANGED <<conn, sync, db, remote, spent, library, progress>>
  BY DEF CheckLatest, AccessToken, SendToOldAccount, watchVars
<1>2. /\ worker'.row = worker.row /\ worker.pc # "idle"
      /\ \A r \in db.rows : Wanted(r) => Kept(r, conn)'
  BY WorkingKept
<1>3. RowsTrue(db)' /\ WorkTrue(db)' /\ LibraryInv' /\ FirstTrue'
  BY <1>1, <1>2, WorkingTrue
<1>4. RemoteTrue(db)'
  BY <1>1, <1>2 DEF MirrorInv, MarksTrue, RemoteTrue, Agrees, Past
<1>5. \A r \in db.rows : Wanted(r) => Carried(r)
  BY <1>1, <1>2 DEF Carried
<1>6. ToldInv'
  BY <1>1, <1>5, SameReceived, CarriedTold DEF MirrorInv
<1> QED
  BY <1>3, <1>4, <1>6 DEF MirrorInv, MarksTrue

\* The provider applies the worker's event: it is at least as new as what the provider had, and
\* not newer than the newest one.
LEMMA AppliedMirrors ==
  ASSUME WatchInv, MirrorInv, worker.pc = "sending", worker.token = conn,
         remote' = Applied(worker.row), worker'.row = worker.row,
         UNCHANGED <<conn, sync, db>>
  PROVE  /\ RemoteTrue(db)'
         /\ \A t \in Titles, type \in Types : \A value :
              Newest(db, t, type) /\ Received(db, t, type, value) => Received(db, t, type, value)'
         /\ \A t \in Titles : spent.connects = 1 /\ Untouched(db, t) => Untouched(db, t)'
         /\ \A r \in db.rows : r.id = worker.row.id => Carried(r)
<1> DEFINE work == worker.row
           event == [value |-> work.value, at |-> work.seq]
<1>1. /\ WorkSound(db) /\ RemoteInv(db) /\ conn # 0 /\ OutboxInv(db, sync)
      /\ sync \in SUBSET Types
  BY DEF WatchInv, TrackingInv, WorkerInv, AccountInv
<1>2. /\ work.title \in Titles /\ work.type \in Types /\ work.seq \in Nat \ {0}
      /\ work.seq >= remote[work.title][work.type].at
      /\ \A r \in db.rows : r.id = work.id => r.title = work.title /\ r.type = work.type
                                              /\ r.seq = work.seq
  BY <1>1 DEF WorkSound
<1>3. /\ WorkSame(db) /\ Past(db, work.title, work.type, work.seq) /\ Agrees(work)
      /\ \A r \in db.rows : Agrees(r)
      /\ \A t \in Titles, type \in Types : Past(db, t, type, remote[t][type].at)
  BY DEF MirrorInv, MarksTrue, WorkTrue, RemoteTrue
<1>4. \A t \in Titles, type \in Types :
        db.heads[t][type].at \in Nat /\ remote[t][type].at \in Nat
  BY <1>1 DEF OutboxInv, HeadsTyped, RemoteInv
<1>5. \A r \in db.rows : r.title \in Titles /\ r.type \in Types
  BY <1>1 DEF OutboxInv, RowTyped
<1>6. /\ remote' = [remote EXCEPT ![work.title][work.type] = event]
      /\ remote = [t \in Titles |-> [type \in Types |-> remote[t][type]]]
  BY <1>1 DEF Applied, RemoteInv
<1>7. event.value = work.value /\ event.at = work.seq
  OBVIOUS
<1>8. worker'.row = work
  OBVIOUS
<1> HIDE DEF event, work
<1>9. \A t \in Titles, type \in Types :
        remote'[t][type] = IF t = work.title /\ type = work.type THEN event ELSE remote[t][type]
  BY <1>2, <1>6
<1>10. RemoteTrue(db)'
  <2>1. \A r \in db.rows : r.title = work.title /\ r.seq = work.seq => r.value = work.value
    BY <1>3 DEF WorkSame, work
  <2>2. \A r \in db.rows : Agrees(r)'
    BY <1>3, <1>5, <1>7, <1>9, <2>1 DEF Agrees
  <2>3. Agrees(worker.row)'
    BY <1>2, <1>7, <1>8, <1>9 DEF Agrees
  <2>4. \A t \in Titles, type \in Types : Past(db, t, type, remote[t][type].at)'
    BY <1>3, <1>7, <1>9 DEF Past
  <2> QED
    BY <2>2, <2>3, <2>4 DEF RemoteTrue
<1>11. ASSUME NEW t \in Titles, NEW type \in Types, NEW value,
              Newest(db, t, type), Received(db, t, type, value)
       PROVE  Received(db, t, type, value)'
  <2>1. CASE t = work.title /\ type = work.type
    <3>1. /\ db.heads[t][type].at # 0 /\ remote[t][type].at = db.heads[t][type].at
          /\ remote[t][type].value = value
      BY <1>11 DEF Newest, Received
    <3>2. work.seq = db.heads[t][type].at
      BY <1>2, <1>3, <1>4, <2>1, <3>1 DEF Past
    <3>3. value = work.value
      BY <1>3, <2>1, <3>1, <3>2 DEF Agrees
    <3> QED
      BY <1>7, <1>9, <2>1, <3>2, <3>3 DEF Received
  <2>2. CASE ~(t = work.title /\ type = work.type)
    BY <1>9, <1>11, <2>2 DEF Received
  <2> QED
    BY <2>1, <2>2
<1>12. ASSUME NEW t \in Titles, spent.connects = 1, Untouched(db, t)
       PROVE  Untouched(db, t)'
  <2>1. db.heads[t]["library"].at = 0 /\ remote[t]["library"] = Unknown /\ "library" \in Types
    BY <1>12 DEF Untouched, Types
  <2>2. db.heads[work.title][work.type].at >= work.seq
    BY <1>1, <1>12 DEF MirrorInv, FirstTrue, work
  <2>3. ~(t = work.title /\ "library" = work.type)
    BY <1>2, <1>4, <2>1, <2>2
  <2>4. remote'[t]["library"] = remote[t]["library"]
    BY <1>9, <2>1, <2>3
  <2> QED
    BY <2>1, <2>4 DEF Untouched
<1>13. ASSUME NEW r \in db.rows, r.id = work.id PROVE Carried(r)
  <2>1. r.value = work.value
    BY <1>3, <1>13 DEF WorkSame, work
  <2> QED
    BY <1>2, <1>5, <1>7, <1>9, <1>13, <2>1 DEF Carried
<1> QED
  BY <1>10, <1>11, <1>12, <1>13 DEF work

LEMMA SendMirrors ==
  ASSUME WatchInv, MirrorInv, Send \/ SendFails, UNCHANGED watchVars
  PROVE  MirrorInv'
<1>1. /\ UNCHANGED <<conn, sync, db, library, progress>>
      /\ UNCHANGED spent \/ spent' = [spent EXCEPT !.faults = @ + 1]
      /\ worker.pc = "sending" /\ worker.token = conn
      /\ \/ remote' = Applied(worker.row)
         \/ remote' = remote /\ worker' = [worker EXCEPT !.pc = "failed"]
      /\ worker' = [worker EXCEPT !.pc = "done"] \/ worker' = [worker EXCEPT !.pc = "failed"]
  BY DEF Send, SendFails, Deliver, watchVars
<1>2. WorkerInv(db) /\ spent'.toggles = spent.toggles /\ spent'.connects = spent.connects
  BY <1>1 DEF WatchInv, TrackingInv, AccountInv
<1>3. worker'.row = worker.row /\ worker'.token = worker.token
  BY <1>1, <1>2, WorkerMoves
<1>4. RowsTrue(db)' /\ WorkTrue(db)' /\ LibraryInv' /\ FirstTrue'
  BY <1>1, <1>2, <1>3, WorkingTrue
<1>5. \A r \in db.rows : r.id # worker.row.id => Carried(r)
  <2>1. \A r : r.id # worker.row.id => Kept(r, conn)'
    BY <1>3 DEF Kept
  <2> QED
    BY <1>1, <2>1 DEF Carried
<1>6. CASE remote' = Applied(worker.row)
  <2>1. /\ RemoteTrue(db)'
        /\ \A t \in Titles, type \in Types : \A value :
             Newest(db, t, type) /\ Received(db, t, type, value) => Received(db, t, type, value)'
        /\ \A t \in Titles : spent.connects = 1 /\ Untouched(db, t) => Untouched(db, t)'
        /\ \A r \in db.rows : r.id = worker.row.id => Carried(r)
    BY <1>1, <1>3, <1>6, AppliedMirrors
  <2>2. ToldInv'
    BY <1>1, <1>2, <1>5, <2>1, CarriedTold DEF MirrorInv
  <2> QED
    BY <1>4, <2>1, <2>2 DEF MirrorInv, MarksTrue
<1>7. CASE remote' = remote /\ worker' = [worker EXCEPT !.pc = "failed"]
  <2>1. RemoteTrue(db)'
    BY <1>1, <1>3, <1>7 DEF MirrorInv, MarksTrue, RemoteTrue, Agrees, Past
  <2>2. worker'.pc = "failed"
    BY <1>2, <1>7, WorkerMoves
  <2>3. \A r : Kept(r, conn)'
    BY <1>1, <1>3, <2>2 DEF Kept
  <2>4. \A r \in db.rows : Carried(r)
    BY <1>1, <2>3 DEF Carried
  <2>5. ToldInv'
    BY <1>1, <1>2, <1>7, <2>4, SameReceived, CarriedTold DEF MirrorInv
  <2> QED
    BY <1>4, <2>1, <2>5 DEF MirrorInv, MarksTrue
<1> QED
  BY <1>1, <1>6, <1>7

\* The worker is done with its row, and some rows are gone.
LEMMA IdleMirrors ==
  ASSUME WatchInv, MirrorInv, worker' = Idle, db'.heads = db.heads, db'.rows \subseteq db.rows,
         UNCHANGED <<conn, sync, remote, library, progress>>,
         spent'.toggles = spent.toggles, spent'.connects = spent.connects,
         \A r \in db.rows : Wanted(r) => r \in db'.rows
  PROVE  MirrorInv'
<1>1. worker'.pc = "idle" /\ worker'.token = 0
  BY DEF Idle
<1>2. MarksTrue(db')
  BY MarksDeleted DEF MirrorInv
<1>3. RowsTrue(db)' /\ WorkTrue(db)'
  BY <1>1, <1>2 DEF MarksTrue, RowsTrue, RowsSame, KeysOfHeads, LibraryApart, WorkTrue
<1>4. RemoteTrue(db)'
  BY <1>1, <1>2 DEF MarksTrue, RemoteTrue, Agrees, Past
<1>5. FirstTrue' /\ LibraryInv'
  BY <1>1 DEF MirrorInv, FirstTrue, LibraryInv
<1>6. \A r \in db.rows : Wanted(r) => Carried(r)
  BY <1>1 DEF Carried, Kept
<1>7. ToldInv'
  BY <1>6, SameReceived, CarriedTold DEF MirrorInv
<1> QED
  BY <1>3, <1>4, <1>5, <1>7 DEF MirrorInv, MarksTrue

LEMMA CompleteMirrors ==
  ASSUME WatchInv, MirrorInv, Complete, UNCHANGED watchVars
  PROVE  MirrorInv'
<1>1. worker.pc = "done" /\ TrackingInv /\ UNCHANGED <<library, progress>>
  BY DEF Complete, WatchInv, watchVars
<1>2. /\ Done(worker.row) \in SUBSET db.rows
      /\ db' = [db EXCEPT !.rows = Done(worker.row)]
      /\ worker' = Idle
      /\ UNCHANGED <<authorization, polling, conn, sync, remote, spent>>
  BY <1>1, CompleteStep
<1>3. db'.rows = Done(worker.row) /\ db'.heads = db.heads
  BY <1>1, <1>2, DeletedStep
<1>4. \A r \in db.rows : Wanted(r) => r \in db'.rows
  BY <1>1, <1>3 DEF Wanted, Kept, Done
<1> QED
  BY <1>1, <1>2, <1>3, <1>4, IdleMirrors

\* A row whose event is the newest is not deleted for a pending one: that one would be as new.
LEMMA WantedRetried ==
  ASSUME WatchInv, MirrorInv, worker.pc # "idle", NEW r \in db.rows, Wanted(r),
         r.id = worker.row.id
  PROVE  Current(db.heads, worker.row) /\ \A q \in Pending(db.rows, worker.row) : q.id = r.id
<1>1. Current(db.heads, worker.row)
  BY WorkCurrent
<1>2. ASSUME NEW q \in Pending(db.rows, worker.row) PROVE q = r
  <2>1. q \in db.rows /\ q.title = worker.row.title /\ q.type = worker.row.type
    BY DEF Pending
  <2>2. /\ r.title = worker.row.title /\ r.type = worker.row.type /\ r.seq = worker.row.seq
        /\ q.seq >= worker.row.seq
    BY <2>1 DEF WatchInv, TrackingInv, WorkerInv, WorkSound
  <2>3. /\ q.seq \in Nat /\ r.seq \in Nat
        /\ db.heads[q.title][q.type].at >= q.seq /\ db.heads[q.title][q.type].at = r.seq
    BY <2>1, <2>2 DEF WatchInv, TrackingInv, OutboxInv, RowTyped, Wanted
  <2>4. q.seq = r.seq
    BY <2>2, <2>3
  <2> QED
    BY <2>1, <2>2, <2>4 DEF MirrorInv, MarksTrue, RowsTrue, RowsSame
<1> QED
  BY <1>1, <1>2

LEMMA RetryMirrors ==
  ASSUME WatchInv, MirrorInv, Retry, UNCHANGED watchVars
  PROVE  MirrorInv'
<1>1. worker.pc = "failed" /\ TrackingInv /\ UNCHANGED <<library, progress>>
  BY DEF Retry, WatchInv, watchVars
<1>2. worker' = Idle /\ UNCHANGED <<authorization, polling, conn, sync, remote, spent>>
  BY <1>1, RetryStep
<1>3. CASE /\ db' = [db EXCEPT !.rows = Done(worker.row)]
           /\ \/ ~Current(db.heads, worker.row)
              \/ \E r \in Pending(db.rows, worker.row) : r.id # worker.row.id
  <2>1. Done(worker.row) \in SUBSET db.rows
    BY DEF Done
  <2>2. db'.rows = Done(worker.row) /\ db'.heads = db.heads
    BY <1>1, <1>2, <1>3, <2>1, DeletedStep
  <2>3. \A r \in db.rows : Wanted(r) => r.id # worker.row.id
    BY <1>1, <1>3, WantedRetried
  <2>4. \A r \in db.rows : Wanted(r) => r \in db'.rows
    BY <2>2, <2>3 DEF Done
  <2> QED
    BY <1>1, <1>2, <2>1, <2>2, <2>4, IdleMirrors
<1>4. CASE db' = [db EXCEPT !.rows = db.rows]
  <2>1. db.rows \in SUBSET db.rows
    OBVIOUS
  <2>2. db'.rows = db.rows /\ db'.heads = db.heads
    BY <1>1, <1>2, <1>4, <2>1, DeletedStep
  <2> QED
    BY <1>1, <1>2, <2>2, IdleMirrors
<1>5. CASE \E r, m :
             /\ r \in db.rows
             /\ r.id = worker.row.id /\ Marked(m, r) /\ Current(db.heads, r)
             /\ \A q \in db.rows : q.lease = "none" /\ q.title = r.title
                                     /\ q.type = r.type => q = r
             /\ db' = [db EXCEPT !.rows = (db.rows \ {r}) \cup {m}]
  <2>1. PICK r, m :
             /\ r \in db.rows
             /\ r.id = worker.row.id /\ Marked(m, r) /\ Current(db.heads, r)
             /\ \A q \in db.rows : q.lease = "none" /\ q.title = r.title
                                     /\ q.type = r.type => q = r
             /\ db' = [db EXCEPT !.rows = (db.rows \ {r}) \cup {m}]
    BY <1>5
  <2> DEFINE rows == (db.rows \ {r}) \cup {m}
  <2>2. rows = (db.rows \ {r}) \cup {m} /\ db' = [db EXCEPT !.rows = rows]
    BY <2>1
  <2> HIDE DEF rows
  <2>3. db'.rows = rows /\ db'.heads = db.heads
    BY <1>1, <1>2, <2>1, <2>2, GivenBack
  <2>4. worker'.pc = "idle" /\ worker'.token = 0
    BY <1>2 DEF Idle
  <2>5. /\ RowsTrue(db)' /\ ToldInv' /\ LibraryInv'
        /\ \A q \in db'.rows : Agrees(q)'
        /\ \A t \in Titles, type \in Types : Past(db, t, type, remote[t][type].at)'
    BY <1>1, <1>2, <2>1, <2>2, <2>3, <2>4, MarkedMirrors
  <2>6. WorkTrue(db)' /\ RemoteTrue(db)'
    BY <2>4, <2>5 DEF WorkTrue, RemoteTrue
  <2>7. FirstTrue'
    BY <1>2, <2>3, <2>4 DEF MirrorInv, FirstTrue
  <2> QED
    BY <2>5, <2>6, <2>7 DEF MirrorInv, MarksTrue
<1> QED
  BY <1>1, <1>3, <1>4, <1>5, RetryStep

LEMMA CrashMirrors ==
  ASSUME WatchInv, MirrorInv, Crash, UNCHANGED watchVars
  PROVE  MirrorInv'
<1>1. /\ worker' = Idle /\ spent' = [spent EXCEPT !.faults = @ + 1]
      /\ UNCHANGED <<conn, sync, db, remote, library, progress>>
  BY DEF Crash, watchVars
<1>2. spent'.toggles = spent.toggles /\ spent'.connects = spent.connects
  BY <1>1 DEF WatchInv, TrackingInv, AccountInv
<1> QED
  BY <1>1, <1>2, IdleMirrors

LEMMA MirrorInit == Init => MirrorInv
<1> SUFFICES ASSUME Init PROVE MirrorInv
  OBVIOUS
<1> DEFINE none == [t \in Titles |-> [type \in Types |-> NoHead]]
<1>1. /\ db = [heads |-> none, rows |-> {}, clock |-> 1, ok |-> TRUE]
      /\ conn = 0 /\ worker = Idle
      /\ remote = [t \in Titles |-> [type \in Types |-> Unknown]]
  BY DEF Init, TrackingInit
<1>2. db.rows = {} /\ db.clock = 1 /\ worker.pc = "idle"
  BY <1>1 DEF Idle
<1>3. \A t \in Titles, type \in Types :
        db.heads[t][type].at = 0 /\ ~db.heads[t][type].affects /\ remote[t][type].at = 0
  BY <1>1 DEF NoHead, Unknown
<1>4. RowsTrue(db)
  <2>1. LibraryApart(db)
    BY <1>3 DEF LibraryApart, Types
  <2> QED
    BY <1>2, <2>1 DEF RowsTrue, RowsSame, KeysOfHeads
<1>5. WorkTrue(db) /\ RemoteTrue(db)
  BY <1>2, <1>3 DEF WorkTrue, RemoteTrue, Past
<1>6. FirstTrue /\ ToldInv
  BY <1>1, <1>2, <1>3 DEF FirstTrue, ToldInv
<1>7. LibraryInv
  BY <1>2 DEF Init, LibraryInv
<1> QED
  BY <1>4, <1>5, <1>6, <1>7 DEF MirrorInv, MarksTrue

LEMMA MirrorNext == WatchInv /\ WatchInv' /\ MirrorInv /\ [Next]_vars => MirrorInv'
<1> SUFFICES ASSUME WatchInv, WatchInv', MirrorInv, [Next]_vars PROVE MirrorInv'
  OBVIOUS
<1>1. CASE TrackingStep
  BY <1>1, AuthorizationMirrors, DisconnectMirrors, RowTimerMirrors, ClaimMirrors,
     WorkingMirrors, SendMirrors, CompleteMirrors, RetryMirrors, CrashMirrors
     DEF TrackingStep, WorkerStep
<1>2. CASE UNCHANGED vars
  BY <1>2, MirrorStutters DEF vars, trackingVars, watchVars
<1> QED
  BY <1>1, <1>2, WriteMirrors, ConnectMirrors, ChangePreferencesMirrors DEF Next

-----------------------------------------------------------------------------
(* What the provider's history and list hold.                              *)

\* The last event of the two types that was applied puts the title in the history.
LastPut(t) ==
  \/ remote[t]["watched"].value = "add" /\ remote[t]["progress"].at < remote[t]["watched"].at
  \/ remote[t]["progress"].value = "stop" /\ remote[t]["watched"].at < remote[t]["progress"].at

\* It takes the title out.
LastRemoved(t) ==
  remote[t]["watched"].value = "remove" /\ remote[t]["progress"].at < remote[t]["watched"].at

ListTrue(t) ==
  /\ remote[t]["library"].value = "add" => held[t].list \in {"in", "taken"}
  /\ held[t].list = "in" => remote[t]["library"].value # "remove" /\ remote[t]["library"].at # 0

HistoryTrue(t) ==
  /\ LastPut(t) => held[t].history \in {"in", "taken"}
  /\ held[t].history = "in" => ~LastRemoved(t)

HeldInv == \A t \in Titles : ListTrue(t) /\ HistoryTrue(t)

LEMMA NothingHeld ==
  ASSUME remote = [t \in Titles |-> [type \in Types |-> Unknown]],
         held = [t \in Titles |-> NothingKnown]
  PROVE  HeldInv
<1>1. \A t \in Titles, type \in Types :
        remote[t][type].value = "unknown" /\ remote[t][type].at = 0
  BY DEF Unknown
<1>2. \A t \in Titles : held[t].history = "unknown" /\ held[t].list = "unknown"
  BY DEF NothingKnown
<1> QED
  BY <1>1, <1>2 DEF HeldInv, ListTrue, HistoryTrue, LastPut, LastRemoved, Types

LEMMA PutOrRemoved ==
  ASSUME NEW row, NEW t, NEW kind
  PROVE  /\ Puts(row, t, kind) => HeldAfter(row, t, kind) = "in"
         /\ ~Puts(row, t, kind) /\ Removes(row, t, kind) => HeldAfter(row, t, kind) = "out"
<1>1. Puts(row, t, kind) => ~Removes(row, t, kind) /\ ~TakesAlong(row, t, kind)
  BY DEF Puts, Removes, TakesAlong
<1> QED
  BY <1>1 DEF HeldAfter

\* The worker's row is at least as new as all the provider has seen of the title.
LEMMA DeliverHeld ==
  ASSUME WatchInv, HeldInv, worker.pc = "sending", Deliver(worker.row)
  PROVE  HeldInv'
<1> DEFINE work == worker.row
<1>1. WorkSound(db) /\ RemoteInv(db)
  BY DEF WatchInv, TrackingInv, WorkerInv
<1>2. /\ work.title \in Titles /\ work.type \in Types /\ work.seq \in Nat \ {0}
      /\ \A type \in Types : work.seq >= remote[work.title][type].at
  BY <1>1 DEF WorkSound
<1>3. remote' = Applied(work) /\ held' = Holding(work)
  BY DEF Deliver
<1>4. \A t \in Titles, type \in Types : remote[t][type].at \in Nat
  BY <1>1 DEF RemoteInv
<1>5. \A t \in Titles, type \in Types :
        /\ remote'[t][type].value = IF t = work.title /\ type = work.type THEN work.value
                                    ELSE remote[t][type].value
        /\ remote'[t][type].at = IF t = work.title /\ type = work.type THEN work.seq
                                 ELSE remote[t][type].at
  <2> DEFINE event == [value |-> work.value, at |-> work.seq]
  <2>1. event.value = work.value /\ event.at = work.seq
    OBVIOUS
  <2>2. /\ remote' = [remote EXCEPT ![work.title][work.type] = event]
        /\ remote = [t \in Titles |-> [type \in Types |-> remote[t][type]]]
    BY <1>1, <1>3 DEF Applied, RemoteInv
  <2> HIDE DEF event, work
  <2>3. \A t \in Titles, type \in Types :
          remote'[t][type] = IF t = work.title /\ type = work.type THEN event
                             ELSE remote[t][type]
    BY <1>2, <2>2
  <2> QED
    BY <2>1, <2>3
<1>6. \A t \in Titles : /\ held'[t].history = HeldAfter(work, t, "history")
                        /\ held'[t].list = HeldAfter(work, t, "list")
  <2> HIDE DEF work
  <2> SUFFICES ASSUME NEW t \in Titles
               PROVE  /\ held'[t].history = HeldAfter(work, t, "history")
                      /\ held'[t].list = HeldAfter(work, t, "list")
    OBVIOUS
  <2> DEFINE history == HeldAfter(work, t, "history")  list == HeldAfter(work, t, "list")
  <2>1. held'[t] = [history |-> history, list |-> list]
    BY <1>3 DEF Holding
  <2> HIDE DEF history, list
  <2>2. held'[t].history = history /\ held'[t].list = list
    BY <2>1
  <2> QED
    BY <2>2 DEF history, list
<1> HIDE DEF work
<1>7. "library" \in Types /\ "watched" \in Types /\ "progress" \in Types
  BY DEF Types
<1> SUFFICES ASSUME NEW t \in Titles PROVE ListTrue(t)' /\ HistoryTrue(t)'
  BY DEF HeldInv
<1>8. ListTrue(t) /\ HistoryTrue(t)
  BY DEF HeldInv
\* What is not the row's kind stays as it is, or is taken along.
<1>9. ASSUME NEW kind \in {"history", "list"}, ~(t = work.title /\ kind = Kind(work.type))
      PROVE  HeldAfter(work, t, kind) \in {held[t][kind], "taken"}
  BY <1>9 DEF HeldAfter, Puts, Removes
<1>10. ListTrue(t)'
  <2>1. CASE t = work.title /\ work.type = "library"
    <3>1. remote'[t]["library"].value = work.value /\ remote'[t]["library"].at = work.seq
      BY <1>5, <1>7, <2>1
    <3>2. /\ work.value = "add" => held'[t].list = "in"
          /\ work.value = "remove" => held'[t].list = "out"
      <4>1. /\ work.value = "add" => Puts(work, t, "list")
            /\ work.value = "remove" => ~Puts(work, t, "list") /\ Removes(work, t, "list")
        BY <2>1 DEF Puts, Removes, Kind
      <4> QED
        BY <1>6, <4>1, PutOrRemoved
    <3> QED
      BY <1>2, <3>1, <3>2 DEF ListTrue
  <2>2. CASE ~(t = work.title /\ work.type = "library")
    <3>1. /\ remote'[t]["library"].value = remote[t]["library"].value
          /\ remote'[t]["library"].at = remote[t]["library"].at
      BY <1>5, <1>7, <2>2
    <3>2. held'[t].list \in {held[t].list, "taken"}
      BY <1>6, <1>9, <2>2 DEF Kind
    <3> QED
      BY <1>8, <3>1, <3>2 DEF ListTrue
  <2> QED
    BY <2>1, <2>2
<1>11. HistoryTrue(t)'
  <2>1. CASE t = work.title /\ work.type # "library"
    <3>1. work.type \in {"watched", "progress"}
      BY <1>2, <2>1 DEF Types
    <3>2. /\ work.value \in {"add", "stop"} => held'[t].history = "in"
          /\ work.value = "remove" => held'[t].history = "out"
      <4>1. /\ work.value \in {"add", "stop"} => Puts(work, t, "history")
            /\ work.value = "remove" => ~Puts(work, t, "history") /\ Removes(work, t, "history")
        BY <2>1 DEF Puts, Removes, Kind
      <4> QED
        BY <1>6, <4>1, PutOrRemoved
    <3>3. CASE work.type = "watched"
      <4>1. /\ remote'[t]["watched"].value = work.value /\ remote'[t]["watched"].at = work.seq
            /\ remote'[t]["progress"].at <= remote'[t]["watched"].at
            /\ remote'[t]["watched"].at \in Nat /\ remote'[t]["progress"].at \in Nat
        BY <1>2, <1>4, <1>5, <1>7, <2>1, <3>3
      <4>2. ~(remote'[t]["watched"].at < remote'[t]["progress"].at)
        BY <4>1
      <4> QED
        BY <3>2, <4>1, <4>2 DEF HistoryTrue, LastPut, LastRemoved
    <3>4. CASE work.type = "progress"
      <4>1. /\ remote'[t]["progress"].value = work.value /\ remote'[t]["progress"].at = work.seq
            /\ remote'[t]["watched"].at <= remote'[t]["progress"].at
            /\ remote'[t]["watched"].at \in Nat /\ remote'[t]["progress"].at \in Nat
        BY <1>2, <1>4, <1>5, <1>7, <2>1, <3>4
      <4>2. ~(remote'[t]["progress"].at < remote'[t]["watched"].at)
        BY <4>1
      <4> QED
        BY <3>2, <4>1, <4>2 DEF HistoryTrue, LastPut, LastRemoved
    <3> QED
      BY <3>1, <3>3, <3>4
  <2>2. CASE ~(t = work.title /\ work.type # "library")
    <3>1. \A type \in {"watched", "progress"} :
            /\ remote'[t][type].value = remote[t][type].value
            /\ remote'[t][type].at = remote[t][type].at
      BY <1>5, <1>7, <2>2
    <3>2. held'[t].history \in {held[t].history, "taken"}
      BY <1>6, <1>9, <2>2 DEF Kind
    <3> QED
      BY <1>8, <3>1, <3>2 DEF HistoryTrue, LastPut, LastRemoved
  <2> QED
    BY <2>1, <2>2
<1> QED
  BY <1>10, <1>11

LEMMA HeldInit == Init => HeldInv
BY NothingHeld DEF Init, TrackingInit

\* What is held changes with what was applied, and with the account.
LEMMA HeldNext == WatchInv /\ HeldInv /\ [Next]_vars => HeldInv'
<1> SUFFICES ASSUME WatchInv, HeldInv, [Next]_vars PROVE HeldInv'
  OBVIOUS
<1>1. CASE UNCHANGED <<remote, held>>
  BY <1>1 DEF HeldInv, ListTrue, HistoryTrue, LastPut, LastRemoved
<1>2. CASE /\ remote' = [t \in Titles |-> [type \in Types |-> Unknown]]
           /\ held' = [t \in Titles |-> NothingKnown]
  <2>1. \A t \in Titles, type \in Types :
          remote'[t][type].value = "unknown" /\ remote'[t][type].at = 0
    BY <1>2 DEF Unknown
  <2>2. \A t \in Titles : held'[t].history = "unknown" /\ held'[t].list = "unknown"
    BY <1>2 DEF NothingKnown
  <2> QED
    BY <2>1, <2>2 DEF HeldInv, ListTrue, HistoryTrue, LastPut, LastRemoved, Types
<1>3. CASE worker.pc = "sending" /\ Deliver(worker.row)
  BY <1>3, DeliverHeld
<1>4. CASE Write
  <2>1. PICK events : Record(events)
    BY <1>4, WriteRecords DEF WatchInv
  <2> QED
    BY <1>1, <2>1 DEF Record
<1>5. CASE Connect
  <2>1. \/ UNCHANGED <<remote, held>>
        \/ /\ remote' = [t \in Titles |-> [type \in Types |-> Unknown]]
           /\ held' = [t \in Titles |-> NothingKnown]
    BY <1>5 DEF Connect, CompleteDeviceAuthorization
  <2> QED
    BY <1>1, <1>2, <2>1
<1>6. CASE ChangePreferences
  BY <1>1, <1>6 DEF ChangePreferences, UpdatePreferences
<1>7. CASE TrackingStep
  BY <1>1, <1>2, <1>3, <1>7
     DEF TrackingStep, BeginDeviceAuthorization, PollAuthorization, PollRefused, Disconnect,
         RowTimer, WorkerStep, Claim, CheckLatest, AccessToken, Send, SendToOldAccount, Complete,
         Retry, SendFails, Crash
<1>8. CASE UNCHANGED vars
  BY <1>1, <1>8 DEF vars, trackingVars
<1> QED
  BY <1>4, <1>5, <1>6, <1>7, <1>8 DEF Next

\* Once nothing of a title is queued, the provider has the newest of what was told of it, and
\* holds it, unless it took it out along with something else.
LEMMA MirrorImplies == WatchInv /\ MirrorInv /\ HeldInv => Mirrored
<1> SUFFICES ASSUME WatchInv, MirrorInv, HeldInv, NEW t \in Titles, conn # 0,
                    t \notin {r.title : r \in db.rows}
             PROVE  /\ "library" \in sync /\ library[t] > 0 /\ MediaType[t] # "tv"
                         => held[t].list \in {"in", "taken"}
                    /\ "library" \in sync /\ library[t] = 0 /\ MediaType[t] # "tv"
                         /\ spent.toggles = 0 /\ spent.connects = 1
                         => held[t].list # "in"
                    /\ {"watched", "progress"} \subseteq sync /\ progress[t].completed
                         => held[t].history \in {"in", "taken"}
                    /\ {"watched", "progress"} \subseteq sync /\ ~progress[t].completed
                         /\ SetLast(t)
                         => held[t].history # "in"
                    /\ "progress" \in sync /\ ~progress[t].completed /\ progress[t].position > 0
                         => remote[t]["progress"].value = "pause"
  BY DEF Mirrored
<1>1. /\ AdditionTold(db, conn, sync, t) /\ WatchedTold(db, conn, sync, t)
      /\ PositionTold(db, conn, sync, t) /\ RemovalTold(db, conn, sync, t)
      /\ ListTrue(t) /\ HistoryTrue(t)
  BY DEF MirrorInv, ToldInv, HeldInv
<1>2. \A type, value : Told(db, conn, t, type, value) =>
        Newest(db, t, type) /\ Received(db, t, type, value)
  BY DEF Told, Queued
<1>3. \A type \in {"watched", "progress"} :
        /\ db.heads[t][type].at \in Nat /\ remote[t][type].at \in Nat
        /\ Past(db, t, type, remote[t][type].at)
  BY DEF WatchInv, TrackingInv, OutboxInv, HeadsTyped, RemoteInv, MirrorInv, MarksTrue,
         RemoteTrue, Types
<1>4. ASSUME NEW type \in {"watched", "progress"}, NEW other \in {"watched", "progress"} \ {type},
             NEW value, Told(db, conn, t, type, value)
      PROVE  remote[t][type].value = value /\ remote[t][other].at < remote[t][type].at
  <2>1. /\ remote[t][type].value = value
        /\ remote[t][type].at = db.heads[t][type].at
        /\ db.heads[t][type].at # 0
        /\ db.heads[t][other].at < db.heads[t][type].at
    BY <1>2, <1>4 DEF Newest, Received
  <2>2. remote[t][other].at < remote[t][type].at
    BY <1>3, <2>1 DEF Past, Types
  <2> QED
    BY <2>1, <2>2
<1>5. "library" \in sync /\ library[t] > 0 /\ MediaType[t] # "tv"
        => held[t].list \in {"in", "taken"}
  BY <1>1, <1>2 DEF AdditionTold, Received, ListTrue
<1>6. "library" \in sync /\ library[t] = 0 /\ spent.toggles = 0 /\ spent.connects = 1
        /\ MediaType[t] # "tv" => held[t].list # "in"
  <2>1. Unknown.at = 0
    BY DEF Unknown
  <2> QED
    BY <1>1, <1>2, <2>1 DEF RemovalTold, Received, Untouched, ListTrue
<1>7. {"watched", "progress"} \subseteq sync /\ progress[t].completed
        => held[t].history \in {"in", "taken"}
  BY <1>1, <1>4 DEF WatchedTold, HistoryTrue, LastPut
<1>8. {"watched", "progress"} \subseteq sync /\ ~progress[t].completed /\ SetLast(t)
        => held[t].history # "in"
  BY <1>1, <1>4 DEF WatchedTold, HistoryTrue, LastRemoved, SetLast
<1>9. "progress" \in sync /\ ~progress[t].completed /\ progress[t].position > 0
        => remote[t]["progress"].value = "pause"
  BY <1>1, <1>2 DEF PositionTold, Received
<1> QED
  BY <1>5, <1>6, <1>7, <1>8, <1>9

\* A title with nothing queued is held by the provider as it is here, in the library, in the
\* history or out of it, or was taken out along with something else: no interleaving of changes,
\* connections, preferences, leases, failed and unanswered requests and crashes loses the last
\* word on it (enqueueBatchWithProviderTx, seedProfileState, process, complete, retry).
THEOREM WatchMirrored == Spec => []Mirrored
<1>1. Init => MirrorInv /\ HeldInv
  BY MirrorInit, HeldInit
<1>2. WatchInv /\ WatchInv' /\ (MirrorInv /\ HeldInv) /\ [Next]_vars => (MirrorInv /\ HeldInv)'
  BY MirrorNext, HeldNext
<1>3. WatchInv /\ MirrorInv /\ HeldInv => Mirrored
  BY MirrorImplies
<1> QED
  BY <1>1, <1>2, <1>3, WatchInvariant, PTL DEF Spec

=============================================================================
