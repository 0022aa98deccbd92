-------------------------- MODULE HouseholdProofs --------------------------
(***************************************************************************)
(* Theorems about Household, for any sets of categories, profiles, users,  *)
(* add-ons, collections and transactions and any limit.                    *)
(***************************************************************************)
EXTENDS Household, FiniteSetTheorems, TLAPS

-----------------------------------------------------------------------------
(* Rows and views.                                                          *)

LEMMA RowNames ==
  /\ \A c : Category(c)[1] = "access_categories" /\ Category(c)[2] = c
  /\ \A p : Profile(p)[1] = "profiles" /\ Profile(p)[2] = p
  /\ \A u : User(u)[1] = "users" /\ User(u)[2] = u
  /\ \A a : Addon(a)[1] = "profile_addons" /\ Addon(a)[2] = a
  /\ \A k : Collection(k)[1] = "profile_collections" /\ Collection(k)[2] = k
  /\ \A r, x : Access(r, x)[1] = "access" /\ Access(r, x)[2] = r /\ Access(r, x)[3] = x
BY DEF Category, Profile, User, Addon, Collection, Access

LEMMA HolderRows ==
  \A x, y : /\ Category(x) # Profile(y)
            /\ Category(x) = Category(y) => x = y
            /\ Profile(x) = Profile(y) => x = y
BY DEF Category, Profile

LEMMA RowSet ==
  /\ \A c \in Categories : Category(c) \in Rows
  /\ \A p \in Profiles : Profile(p) \in Rows
  /\ \A u \in Users : User(u) \in Rows
  /\ \A a \in Addons : Addon(a) \in Rows
  /\ \A k \in Collections : Collection(k) \in Rows
  /\ \A r \in Resources, x \in Holders : Access(r, x) \in Rows
  /\ \A r \in Resources : ResourceRow(r) \in Rows
BY DEF Rows, AccessRows, ResourceRow, Resources

LEMMA RowValues ==
  /\ \A c : Values(Category(c)) = {"absent", "live", "default"}
  /\ \A p : Values(Profile(p)) = [home : Categories, open : BOOLEAN] \cup {None}
  /\ \A u : Values(User(u)) = {"admin", "user", None}
  /\ \A a : Values(Addon(a)) = Transports \cup {None}
  /\ \A k : Values(Collection(k)) = BOOLEAN
  /\ \A r, x : Values(Access(r, x)) = BOOLEAN
BY RowNames DEF Values

\* The rows of resources are neither assignments nor rows of the other tables.
LEMMA ResourceRows ==
  /\ \A r : ResourceRow(r)[1] \in {"profile_addons", "profile_collections"} /\ ResourceRow(r)[2] = r
  /\ \A a \in Addons : ResourceRow(a) = Addon(a) /\ Absent(a) = None
  /\ \A k \in Collections : ResourceRow(k) = Collection(k) /\ Absent(k) = FALSE
BY RowNames, HouseholdAssumption DEF ResourceRow, Absent

LEMMA Single ==
  ASSUME NEW row, NEW value
  PROVE  DOMAIN (row :> value) = {row} /\ (row :> value)[row] = value
BY DEF :>

-----------------------------------------------------------------------------
(* What is true of a transaction with locks ls and writes w, that an       *)
(* actor asked for, over the committed database d.                         *)

Locked(ls, row) == X(row) \in ls \/ S(row) \in ls

\* What it writes has the types of the columns; it holds the rows themselves, those of
\* assignments excepted, which it may be about to insert.
Written(ls, w) ==
  \A row \in DOMAIN w :
    row \in Rows /\ w[row] \in Values(row) /\ (row[1] # "access" => X(row) \in ls)

\* It keeps the category that it sends a profile to.
HomeHeld(d, ls, w) ==
  \A p \in Profiles : Profile(p) \in DOMAIN w /\ w[Profile(p)] # None =>
    \/ Locked(ls, Category(w[Profile(p)].home))
    \/ Exists(d, p) /\ Home(d, p) = w[Profile(p)].home

Gives(w, r, x) == Access(r, x) \in DOMAIN w /\ w[Access(r, x)]

\* It keeps both ends of an assignment.
AssignmentHeld(d, ls, w) ==
  \A r \in Resources, x \in Holders : Gives(w, r, x) =>
    /\ X(ResourceRow(r)) \in ls
    /\ x \in Categories => X(Category(x)) \in ls
    /\ x \in Profiles => S(Profile(x)) \in ls /\ Exists(d, x)

\* Nobody else gives an add-on to the category of a profile it gives one to, and a new transport
\* comes with all the assignments of the add-on.
AddonHeld(d, ls, w) ==
  \A a \in Addons :
    /\ \A p \in Profiles : Gives(w, a, p) => X(Category(Home(d, p))) \in ls
    /\ Addon(a) \in DOMAIN w /\ w[Addon(a)] # None => \A x \in Holders : Access(a, x) \in DOMAIN w

\* Nobody else gives a collection to a profile that one it gives reaches.
CollectionHeld(d, ls, w) ==
  \A k \in Collections, p \in Profiles :
    /\ Gives(w, k, p) => X(CollectionLock(p)) \in ls
    /\ \A c \in Categories : Gives(w, k, c) /\ Exists(d, p) /\ Home(d, p) = c => X(CollectionLock(p)) \in ls

\* It has the table of users to itself, or takes nobody's role.
UserHeld(d, ls, w) ==
  \A u \in Users : User(u) \in DOMAIN w =>
    X(UserTable) \in ls \/ (S(UserTable) \in ls /\ d[User(u)] # "admin")

\* It asks for an administrator, whose role is held.
Rightful(d, actor, ls) == actor \in Admins(d) /\ S(User(actor)) \in ls

\* It writes nothing that is for administrators.
Harmless(d, actor, ls, w) ==
  /\ \A c \in Categories : Category(c) \in DOMAIN w => w[Category(c)] # "absent"
  /\ \A p \in Profiles : Profile(p) \in DOMAIN w /\ w[Profile(p)] # None =>
       IF Exists(d, p) THEN w[Profile(p)].home = Home(d, p) ELSE actor = None
  /\ \A a \in Addons : Addon(a) \in DOMAIN w => w[Addon(a)] \in {None, d[Addon(a)]}
  /\ \A r \in Resources, c \in Categories : Access(r, c) \in DOMAIN w =>
       ~w[Access(r, c)] /\ ~d[Access(r, c)] /\ X(ResourceRow(r)) \in ls

ActorHeld(d, actor, ls, w) == Rightful(d, actor, ls) \/ Harmless(d, actor, ls, w)

Sound(d) == WellFormed(d) /\ WithinLimits(d) /\ Admins(d) # {}

Held(d, ls, w) ==
  Written(ls, w) /\ HomeHeld(d, ls, w) /\ AssignmentHeld(d, ls, w) /\ AddonHeld(d, ls, w)
    /\ CollectionHeld(d, ls, w) /\ UserHeld(d, ls, w)

\* Its commit would leave the database sound, whatever was committed since its checks.
Good(d, actor, ls, w) == Held(d, ls, w) /\ ActorHeld(d, actor, ls, w) /\ Sound(w @@ d)

LEMMA ViewRows ==
  ASSUME NEW d, DOMAIN d = Rows, \A row \in Rows : d[row] \in Values(row), NEW ls, NEW w, Written(ls, w)
  PROVE  /\ DOMAIN (w @@ d) = Rows
         /\ \A row \in Rows : (w @@ d)[row] = IF row \in DOMAIN w THEN w[row] ELSE d[row]
         /\ \A row \in Rows : (w @@ d)[row] \in Values(row)
<1>1. DOMAIN w \subseteq Rows /\ \A row \in DOMAIN w : w[row] \in Values(row)
  BY DEF Written
<1>2. DOMAIN (w @@ d) = Rows
  BY <1>1 DEF @@
<1>3. \A row \in Rows : (w @@ d)[row] = IF row \in DOMAIN w THEN w[row] ELSE d[row]
  BY DEF @@
<1> QED BY <1>1, <1>2, <1>3

\* Over the writes of another transaction.
LEMMA ViewOfBoth ==
  ASSUME NEW d, DOMAIN d = Rows, \A row \in Rows : d[row] \in Values(row),
         NEW l1, NEW w1, Written(l1, w1), NEW l2, NEW w2, Written(l2, w2)
  PROVE  /\ DOMAIN (w1 @@ (w2 @@ d)) = Rows
         /\ \A row \in Rows : (w1 @@ (w2 @@ d))[row] =
              IF row \in DOMAIN w1 THEN w1[row] ELSE IF row \in DOMAIN w2 THEN w2[row] ELSE d[row]
         /\ \A row \in Rows : (w1 @@ (w2 @@ d))[row] \in Values(row)
<1>1. /\ DOMAIN (w2 @@ d) = Rows
      /\ \A row \in Rows : (w2 @@ d)[row] = IF row \in DOMAIN w2 THEN w2[row] ELSE d[row]
      /\ \A row \in Rows : (w2 @@ d)[row] \in Values(row)
  BY ViewRows
<1> DEFINE d2 == w2 @@ d
<1> HIDE DEF d2
<1>2. /\ DOMAIN (w1 @@ d2) = Rows
      /\ \A row \in Rows : (w1 @@ d2)[row] = IF row \in DOMAIN w1 THEN w1[row] ELSE d2[row]
      /\ \A row \in Rows : (w1 @@ d2)[row] \in Values(row)
  BY <1>1, ViewRows DEF d2
<1> QED BY <1>1, <1>2 DEF d2

\* Locks of transactions side by side, and what they therefore do not write.
LEMMA LocksApart ==
  ASSUME NEW l1, NEW l2, ~Conflict(l1, l2), NEW row
  PROVE  ~(X(row) \in l1 /\ Locked(l2, row)) /\ ~(Locked(l1, row) /\ X(row) \in l2)
BY DEF Conflict, Locked, X, S

LEMMA WritesApart ==
  ASSUME NEW l1, NEW l2, ~Conflict(l1, l2), NEW row, row[1] # "access", Locked(l1, row),
         NEW w2, Written(l2, w2)
  PROVE  row \notin DOMAIN w2
BY LocksApart DEF Written

-----------------------------------------------------------------------------
(* What a transaction holds is not disturbed by the commit of another.      *)

LEMMA HeldStays ==
  ASSUME NEW d, Sound(d), NEW l1, NEW w1, Held(d, l1, w1), NEW l2, NEW w2, Held(d, l2, w2),
         ~Conflict(l1, l2), Sound(w2 @@ d)
  PROVE  Held(w2 @@ d, l1, w1)
<1> DEFINE e == w2 @@ d
<1>1. /\ DOMAIN d = Rows /\ \A row \in Rows : d[row] \in Values(row)
      /\ Written(l1, w1) /\ Written(l2, w2)
  BY DEF Sound, WellFormed, Held
<1>2. \A row \in Rows : e[row] = IF row \in DOMAIN w2 THEN w2[row] ELSE d[row]
  BY <1>1, ViewRows
<1> HIDE DEF e
<1>3. ASSUME NEW p \in Profiles, Locked(l1, Profile(p)) PROVE e[Profile(p)] = d[Profile(p)]
  BY <1>1, <1>2, <1>3, WritesApart, RowNames, RowSet
<1>4. HomeHeld(e, l1, w1)
  <2>1. ASSUME NEW p \in Profiles, Profile(p) \in DOMAIN w1 PROVE e[Profile(p)] = d[Profile(p)]
    BY <1>1, <1>3, <2>1, RowNames DEF Written, Locked
  <2> QED BY <2>1 DEF Held, HomeHeld, Exists, Home
<1>5. AssignmentHeld(e, l1, w1)
  BY <1>3 DEF Held, AssignmentHeld, Exists, Locked
<1>6. AddonHeld(e, l1, w1)
  <2>1. ASSUME NEW a \in Addons, NEW p \in Profiles, Gives(w1, a, p)
        PROVE  X(Category(Home(e, p))) \in l1
    <3>1. S(Profile(p)) \in l1
      BY <2>1 DEF Held, AssignmentHeld, Resources, Holders
    <3>2. Home(e, p) = Home(d, p)
      BY <3>1, <1>3 DEF Locked, Home
    <3> QED BY <2>1, <3>2 DEF Held, AddonHeld
  <2> QED BY <2>1 DEF Held, AddonHeld
<1>7. CollectionHeld(e, l1, w1)
  <2>1. ASSUME NEW k \in Collections, NEW p \in Profiles, NEW c \in Categories,
               Gives(w1, k, c), Exists(e, p), Home(e, p) = c
        PROVE  X(CollectionLock(p)) \in l1
    <3>1. X(Category(c)) \in l1
      BY <2>1 DEF Held, AssignmentHeld, Resources, Holders
    <3>2. Exists(d, p) /\ Home(d, p) = c
      <4>1. CASE Profile(p) \in DOMAIN w2
        <5>1. w2[Profile(p)] # None /\ w2[Profile(p)].home = c
          BY <1>2, <2>1, <4>1, RowSet DEF Exists, Home
        <5>2. ~Locked(l2, Category(c))
          BY <3>1, LocksApart
        <5> QED BY <4>1, <5>1, <5>2 DEF Held, HomeHeld
      <4>2. CASE Profile(p) \notin DOMAIN w2
        BY <1>2, <2>1, <4>2, RowSet DEF Exists, Home
      <4> QED BY <4>1, <4>2
    <3> QED BY <2>1, <3>2 DEF Held, CollectionHeld
  <2> QED BY <2>1 DEF Held, CollectionHeld
<1>8. UserHeld(e, l1, w1)
  <2>1. ASSUME NEW u \in Users, User(u) \in DOMAIN w1 PROVE e[User(u)] = d[User(u)]
    <3>1. Locked(l1, User(u))
      BY <1>1, <2>1, RowNames DEF Written, Locked
    <3> QED BY <1>1, <1>2, <3>1, WritesApart, RowNames, RowSet
  <2> QED BY <2>1 DEF Held, UserHeld
<1> QED BY <1>1, <1>4, <1>5, <1>6, <1>7, <1>8 DEF Held, e

LEMMA RightStays ==
  ASSUME NEW d, Sound(d), NEW actor, NEW l1, Rightful(d, actor, l1), NEW l2, NEW w2, Held(d, l2, w2),
         ~Conflict(l1, l2)
  PROVE  Rightful(w2 @@ d, actor, l1)
<1>1. actor \in Users /\ d[User(actor)] = "admin" /\ S(User(actor)) \in l1
  BY DEF Rightful, Admins
<1>2. User(actor) \notin DOMAIN w2
  BY <1>1, WritesApart, RowNames DEF Held, Locked
<1>3. (w2 @@ d)[User(actor)] = "admin"
  BY <1>1, <1>2, ViewRows, RowSet DEF Sound, WellFormed, Held
<1> QED BY <1>1, <1>3 DEF Admins, Rightful

LEMMA HarmlessStays ==
  ASSUME NEW d, Sound(d), NEW actor, NEW l1, NEW w1, Written(l1, w1), Harmless(d, actor, l1, w1),
         NEW l2, NEW w2, Held(d, l2, w2), ~Conflict(l1, l2)
  PROVE  Harmless(w2 @@ d, actor, l1, w1)
<1> DEFINE e == w2 @@ d
<1>1. /\ DOMAIN d = Rows /\ \A row \in Rows : d[row] \in Values(row)
      /\ Written(l2, w2)
  BY DEF Sound, WellFormed, Held
<1>2. \A row \in Rows : e[row] = IF row \in DOMAIN w2 THEN w2[row] ELSE d[row]
  BY <1>1, ViewRows
<1> HIDE DEF e
<1>3. ASSUME NEW row \in DOMAIN w1, row[1] # "access" PROVE e[row] = d[row]
  <2>1. row \in Rows /\ Locked(l1, row)
    BY <1>3 DEF Written, Locked
  <2> QED BY <1>1, <1>2, <1>3, <2>1, WritesApart
<1>4. \A p \in Profiles : Profile(p) \in DOMAIN w1 /\ w1[Profile(p)] # None =>
        IF Exists(e, p) THEN w1[Profile(p)].home = Home(e, p) ELSE actor = None
  BY <1>3, RowNames DEF Harmless, Exists, Home
<1>5. \A a \in Addons : Addon(a) \in DOMAIN w1 => w1[Addon(a)] \in {None, e[Addon(a)]}
  BY <1>3, RowNames DEF Harmless
<1>6. ASSUME NEW r \in Resources, NEW c \in Categories, Access(r, c) \in DOMAIN w1
      PROVE  ~w1[Access(r, c)] /\ ~e[Access(r, c)] /\ X(ResourceRow(r)) \in l1
  <2>1. ~w1[Access(r, c)] /\ ~d[Access(r, c)] /\ X(ResourceRow(r)) \in l1
    BY <1>6 DEF Harmless
  <2>2. c \in Holders /\ Access(r, c) \in Rows
    BY RowSet DEF Holders
  <2>3. ~Gives(w2, r, c)
    BY <2>1, <2>2, LocksApart DEF Held, AssignmentHeld, Locked
  <2> QED BY <1>2, <2>1, <2>2, <2>3 DEF Gives
<1>7. \A c \in Categories : Category(c) \in DOMAIN w1 => w1[Category(c)] # "absent"
  BY DEF Harmless
<1>8. Harmless(e, actor, l1, w1)
  BY <1>4, <1>5, <1>6, <1>7 DEF Harmless
<1> QED BY <1>8 DEF e

LEMMA ActorStays ==
  ASSUME NEW d, Sound(d), NEW actor, NEW l1, NEW w1, Written(l1, w1), ActorHeld(d, actor, l1, w1),
         NEW l2, NEW w2, Held(d, l2, w2), ~Conflict(l1, l2)
  PROVE  ActorHeld(w2 @@ d, actor, l1, w1)
BY RightStays, HarmlessStays DEF ActorHeld

LEMMA HarmlessKept ==
  ASSUME NEW d, Sound(d), NEW actor, NEW ls, NEW w, Written(ls, w), Harmless(d, actor, ls, w), NEW row \in Rows
  PROVE  ~Reserved(actor, row, d[row], (w @@ d)[row])
<1> DEFINE new == (w @@ d)[row]
<1>1. /\ \A o \in Rows : d[o] \in Values(o)
      /\ new = IF row \in DOMAIN w THEN w[row] ELSE d[row]
      /\ new \in Values(row)
  BY ViewRows DEF Sound, WellFormed
<1> HIDE DEF new
<1> SUFFICES ASSUME row \in DOMAIN w, new = w[row], new # d[row], Reserved(actor, row, d[row], new) PROVE FALSE
  BY <1>1 DEF Reserved, new
<1>2. ASSUME NEW c \in Categories, row = Category(c) PROVE FALSE
  <2>1. new # "absent"
    BY <1>2 DEF Harmless
  <2> QED BY <1>2, <2>1, RowNames DEF Reserved
<1>3. ASSUME NEW p \in Profiles, row = Profile(p) PROVE FALSE
  BY <1>3, RowNames DEF Reserved, Harmless, Exists, Home
<1>4. ASSUME NEW a \in Addons, row = Addon(a) PROVE FALSE
  BY <1>4, RowNames DEF Reserved, Harmless
<1>5. ASSUME NEW r \in Resources, NEW x \in Holders, row = Access(r, x) PROVE FALSE
  <2>1. row[1] = "access" /\ row[3] = x /\ Values(row) = BOOLEAN
    BY <1>5, RowNames, RowValues
  <2>2. x \in Categories
    BY <2>1 DEF Reserved
  <2>3. ~new /\ ~d[row]
    BY <1>5, <2>2 DEF Harmless
  <2>4. new \in BOOLEAN /\ d[row] \in BOOLEAN
    BY <1>1, <2>1
  <2> QED BY <2>3, <2>4
<1>6. ASSUME row[1] \in {"users", "profile_collections"} PROVE FALSE
  BY <1>6 DEF Reserved
<1>7. row[1] \notin {"users", "profile_collections"} =>
        \/ \E c \in Categories : row = Category(c)
        \/ \E p \in Profiles : row = Profile(p)
        \/ \E a \in Addons : row = Addon(a)
        \/ \E r \in Resources, x \in Holders : row = Access(r, x)
  BY RowNames DEF Rows, AccessRows
<1> QED BY <1>2, <1>3, <1>4, <1>5, <1>6, <1>7

LEMMA AdministratorStays ==
  ASSUME NEW d, Sound(d), NEW l1, NEW w1, Held(d, l1, w1), Admins(w1 @@ d) # {},
         NEW l2, NEW w2, Held(d, l2, w2), Admins(w2 @@ d) # {}, ~Conflict(l1, l2)
  PROVE  Admins(w1 @@ (w2 @@ d)) # {}
<1>1. /\ DOMAIN d = Rows /\ \A row \in Rows : d[row] \in Values(row)
      /\ Written(l1, w1) /\ Written(l2, w2)
  BY DEF Sound, WellFormed, Held
<1> DEFINE both == w1 @@ (w2 @@ d)
           one == w1 @@ d
           two == w2 @@ d
<1>2. \A u \in Users : both[User(u)] =
        IF User(u) \in DOMAIN w1 THEN w1[User(u)] ELSE IF User(u) \in DOMAIN w2 THEN w2[User(u)] ELSE d[User(u)]
  BY <1>1, ViewOfBoth, RowSet
<1>3. \A u \in Users : one[User(u)] = IF User(u) \in DOMAIN w1 THEN w1[User(u)] ELSE d[User(u)]
  BY <1>1, ViewRows, RowSet
<1>4. \A u \in Users : two[User(u)] = IF User(u) \in DOMAIN w2 THEN w2[User(u)] ELSE d[User(u)]
  BY <1>1, ViewRows, RowSet
<1> HIDE DEF both, one, two
<1>5. CASE \A u \in Users : User(u) \notin DOMAIN w2
  <2>1. \A u \in Users : both[User(u)] = one[User(u)]
    BY <1>2, <1>3, <1>5
  <2>2. Admins(one) # {}
    BY DEF one
  <2> QED BY <2>1, <2>2 DEF Admins, both
<1>6. CASE \A u \in Users : User(u) \notin DOMAIN w1
  <2>1. \A u \in Users : both[User(u)] = two[User(u)]
    BY <1>2, <1>4, <1>6
  <2>2. Admins(two) # {}
    BY DEF two
  <2> QED BY <2>1, <2>2 DEF Admins, both
<1>7. CASE /\ \E u \in Users : User(u) \in DOMAIN w1
           /\ \E u \in Users : User(u) \in DOMAIN w2
  <2>1. X(UserTable) \notin l1 /\ X(UserTable) \notin l2
    BY <1>7, LocksApart DEF Held, UserHeld, Locked
  <2>2. PICK u \in Users : d[User(u)] = "admin"
    BY DEF Sound, Admins
  <2>3. User(u) \notin DOMAIN w1 /\ User(u) \notin DOMAIN w2
    BY <2>1, <2>2 DEF Held, UserHeld
  <2>4. both[User(u)] = "admin"
    BY <1>2, <2>2, <2>3
  <2> QED BY <2>4 DEF Admins, both
<1> QED BY <1>5, <1>6, <1>7

LEMMA KeysStay ==
  ASSUME NEW d, Sound(d), NEW l1, NEW w1, Held(d, l1, w1), WellFormed(w1 @@ d),
         NEW l2, NEW w2, Held(d, l2, w2), WellFormed(w2 @@ d), ~Conflict(l1, l2)
  PROVE  WellFormed(w1 @@ (w2 @@ d))
<1>1. /\ DOMAIN d = Rows /\ \A row \in Rows : d[row] \in Values(row)
      /\ Written(l1, w1) /\ Written(l2, w2)
  BY DEF Sound, WellFormed, Held
<1> DEFINE both == w1 @@ (w2 @@ d)
           one == w1 @@ d
           two == w2 @@ d
<1>2. /\ DOMAIN both = Rows /\ \A row \in Rows : both[row] \in Values(row)
      /\ \A row \in Rows : both[row] =
           IF row \in DOMAIN w1 THEN w1[row] ELSE IF row \in DOMAIN w2 THEN w2[row] ELSE d[row]
  BY <1>1, ViewOfBoth
<1>3. \A row \in Rows : one[row] = IF row \in DOMAIN w1 THEN w1[row] ELSE d[row]
  BY <1>1, ViewRows
<1>4. \A row \in Rows : two[row] = IF row \in DOMAIN w2 THEN w2[row] ELSE d[row]
  BY <1>1, ViewRows
<1>5. WellFormed(one) /\ WellFormed(two)
  OBVIOUS
<1> HIDE DEF both, one, two
<1>6. \A row \in Rows : row[1] # "access" =>
        /\ Locked(l1, row) => row \notin DOMAIN w2
        /\ Locked(l2, row) => row \notin DOMAIN w1
        /\ row \in DOMAIN w1 => row \notin DOMAIN w2 /\ ~Locked(l2, row)
        /\ row \in DOMAIN w2 => ~Locked(l1, row)
  BY <1>1, LocksApart DEF Written, Locked
<1>7. ASSUME NEW p \in Profiles, Exists(both, p) PROVE Lives(both, Home(both, p))
  <2> DEFINE c == Home(both, p)
  <2>1. c \in Categories /\ Category(c) \in Rows /\ Category(c)[1] # "access"
    BY <1>2, <1>7, RowSet, RowValues, RowNames DEF Exists, Home
  <2>2. Profile(p) \in Rows /\ Profile(p)[1] # "access"
    BY RowSet, RowNames
  <2> HIDE DEF c
  <2>3. ASSUME both[Profile(p)] = one[Profile(p)] PROVE one[Category(c)] # "absent"
    BY <1>5, <1>7, <2>3 DEF WellFormed, Exists, Home, Lives, c
  <2>4. ASSUME both[Profile(p)] = two[Profile(p)] PROVE two[Category(c)] # "absent"
    BY <1>5, <1>7, <2>4 DEF WellFormed, Exists, Home, Lives, c
  <2>5. CASE Profile(p) \in DOMAIN w1 /\ Category(c) \in DOMAIN w2
    <3>1. w1[Profile(p)] # None /\ w1[Profile(p)].home = c
      BY <1>2, <1>7, <2>2, <2>5 DEF Exists, Home, c
    <3>2. Exists(d, p) /\ Home(d, p) = c
      BY <1>6, <2>1, <2>5, <3>1 DEF Held, HomeHeld
    <3>3. two[Profile(p)] = d[Profile(p)]
      BY <1>4, <1>6, <2>2, <2>5
    <3>4. two[Category(c)] # "absent"
      BY <1>5, <3>2, <3>3 DEF WellFormed, Exists, Home, Lives
    <3>5. both[Category(c)] = two[Category(c)]
      BY <1>2, <1>4, <1>6, <2>1, <2>5
    <3> QED BY <3>4, <3>5 DEF Lives, c
  <2>6. CASE Profile(p) \in DOMAIN w1 /\ Category(c) \notin DOMAIN w2
    BY <1>2, <1>3, <2>1, <2>2, <2>3, <2>6 DEF Lives, c
  <2>7. CASE Profile(p) \notin DOMAIN w1 /\ Profile(p) \in DOMAIN w2 /\ Category(c) \in DOMAIN w1
    <3>1. w2[Profile(p)] # None /\ w2[Profile(p)].home = c
      BY <1>2, <1>7, <2>2, <2>7 DEF Exists, Home, c
    <3>2. Exists(d, p) /\ Home(d, p) = c
      BY <1>6, <2>1, <2>7, <3>1 DEF Held, HomeHeld
    <3>3. one[Profile(p)] = d[Profile(p)]
      BY <1>3, <2>2, <2>7
    <3>4. one[Category(c)] # "absent"
      BY <1>5, <3>2, <3>3 DEF WellFormed, Exists, Home, Lives
    <3>5. both[Category(c)] = one[Category(c)]
      BY <1>2, <1>3, <2>1, <2>7
    <3> QED BY <3>4, <3>5 DEF Lives, c
  <2>8. CASE Profile(p) \notin DOMAIN w1 /\ Category(c) \notin DOMAIN w1
    BY <1>2, <1>4, <2>1, <2>2, <2>4, <2>8 DEF Lives, c
  <2>9. CASE Profile(p) \notin DOMAIN w1 /\ Profile(p) \notin DOMAIN w2 /\ Category(c) \in DOMAIN w1
    BY <1>2, <1>3, <2>1, <2>2, <2>3, <2>9 DEF Lives, c
  <2> QED BY <2>5, <2>6, <2>7, <2>8, <2>9
<1>8. ASSUME NEW r \in Resources, NEW x \in Holders, both[Access(r, x)]
      PROVE  both[ResourceRow(r)] # Absent(r) /\ IF x \in Profiles THEN Exists(both, x) ELSE Lives(both, x)
  <2> DEFINE g == Access(r, x)
  <2>1. g \in Rows /\ (Gives(w1, r, x) <=> g \in DOMAIN w1 /\ w1[g]) /\ (Gives(w2, r, x) <=> g \in DOMAIN w2 /\ w2[g])
    BY RowSet DEF Gives
  <2>2. both[g]
    BY <1>8
  \* Both ends are as one of the two leaves them, and it leaves the assignment too.
  <2>3. ASSUME NEW row \in Rows, row[1] # "access",
               Gives(w1, r, x) => Locked(l1, row), Gives(w2, r, x) => Locked(l2, row)
        PROVE  (one[g] /\ both[row] = one[row]) \/ (two[g] /\ both[row] = two[row])
    <3> HIDE DEF g
    <3>1. CASE g \in DOMAIN w1
      BY <1>2, <1>3, <1>6, <2>1, <2>2, <2>3, <3>1
    <3>2. CASE g \notin DOMAIN w1 /\ row \notin DOMAIN w1
      BY <1>2, <1>4, <2>1, <2>2, <3>2
    <3>3. CASE g \notin DOMAIN w1 /\ row \in DOMAIN w1
      <4>1. g \notin DOMAIN w2
        BY <1>2, <1>6, <2>1, <2>2, <2>3, <3>3
      <4> QED BY <1>2, <1>3, <2>1, <2>2, <3>3, <4>1
    <3> QED BY <3>1, <3>2, <3>3
  <2>4. both[ResourceRow(r)] # Absent(r)
    <3>1. ResourceRow(r) \in Rows /\ ResourceRow(r)[1] # "access"
      BY RowSet, ResourceRows
    <3>2. /\ Gives(w1, r, x) => Locked(l1, ResourceRow(r))
          /\ Gives(w2, r, x) => Locked(l2, ResourceRow(r))
      BY DEF Held, AssignmentHeld, Locked
    <3>3. (one[g] /\ both[ResourceRow(r)] = one[ResourceRow(r)]) \/ (two[g] /\ both[ResourceRow(r)] = two[ResourceRow(r)])
      BY <2>3, <3>1, <3>2
    <3> QED BY <1>5, <3>3 DEF WellFormed
  <2>5. CASE x \in Profiles
    <3>1. Profile(x) \in Rows /\ Profile(x)[1] # "access"
      BY <2>5, RowSet, RowNames
    <3>2. /\ Gives(w1, r, x) => Locked(l1, Profile(x))
          /\ Gives(w2, r, x) => Locked(l2, Profile(x))
      BY <2>5 DEF Held, AssignmentHeld, Locked
    <3>3. (one[g] /\ both[Profile(x)] = one[Profile(x)]) \/ (two[g] /\ both[Profile(x)] = two[Profile(x)])
      BY <2>3, <3>1, <3>2
    <3> QED BY <1>5, <2>4, <2>5, <3>3 DEF WellFormed, Exists
  <2>6. CASE x \notin Profiles
    <3>1. x \in Categories /\ Category(x) \in Rows /\ Category(x)[1] # "access"
      BY <2>6, RowSet, RowNames DEF Holders
    <3>2. /\ Gives(w1, r, x) => Locked(l1, Category(x))
          /\ Gives(w2, r, x) => Locked(l2, Category(x))
      BY <3>1 DEF Held, AssignmentHeld, Locked
    <3>3. (one[g] /\ both[Category(x)] = one[Category(x)]) \/ (two[g] /\ both[Category(x)] = two[Category(x)])
      BY <2>3, <3>1, <3>2
    <3> QED BY <1>5, <2>4, <2>6, <3>3 DEF WellFormed, Lives
  <2> QED BY <2>5, <2>6
<1> QED BY <1>2, <1>7, <1>8 DEF WellFormed, both

\* What a transaction may add to the resources among R that profile p of category h sees.
Adds(w, R, p, h) == \E r \in R : Gives(w, r, p) \/ Gives(w, r, h)
Moves(d, w, p, h) == Profile(p) \in DOMAIN w /\ ~(Exists(d, p) /\ Home(d, p) = h)

LEMMA LimitsStay ==
  ASSUME NEW d, Sound(d), NEW l1, NEW w1, Held(d, l1, w1), Sound(w1 @@ d),
         NEW l2, NEW w2, Held(d, l2, w2), Sound(w2 @@ d), ~Conflict(l1, l2),
         WellFormed(w1 @@ (w2 @@ d))
  PROVE  WithinLimits(w1 @@ (w2 @@ d))
<1>1. /\ DOMAIN d = Rows /\ \A row \in Rows : d[row] \in Values(row)
      /\ Written(l1, w1) /\ Written(l2, w2)
  BY DEF Sound, WellFormed, Held
<1> DEFINE both == w1 @@ (w2 @@ d)
           one == w1 @@ d
           two == w2 @@ d
<1>2. /\ DOMAIN both = Rows /\ \A row \in Rows : both[row] \in Values(row)
      /\ \A row \in Rows : both[row] =
           IF row \in DOMAIN w1 THEN w1[row] ELSE IF row \in DOMAIN w2 THEN w2[row] ELSE d[row]
  BY <1>1, ViewOfBoth
<1>3. \A row \in Rows : one[row] = IF row \in DOMAIN w1 THEN w1[row] ELSE d[row]
  BY <1>1, ViewRows
<1>4. \A row \in Rows : two[row] = IF row \in DOMAIN w2 THEN w2[row] ELSE d[row]
  BY <1>1, ViewRows
<1>5. Sound(one) /\ Sound(two) /\ WellFormed(both)
  OBVIOUS
<1> HIDE DEF both, one, two
<1>6. \A row \in Rows : row[1] # "access" =>
        /\ Locked(l1, row) => row \notin DOMAIN w2
        /\ Locked(l2, row) => row \notin DOMAIN w1
        /\ row \in DOMAIN w1 => row \notin DOMAIN w2 /\ ~Locked(l2, row)
        /\ row \in DOMAIN w2 => ~Locked(l1, row)
  BY <1>1, LocksApart DEF Written, Locked
<1> SUFFICES ASSUME NEW p \in Profiles, Exists(both, p)
             PROVE  ~DuplicateTransport(both, p) /\ ~OverLimit(both, p)
  BY DEF WithinLimits, both
<1> DEFINE h == Home(both, p)
<1>7. /\ h \in Categories /\ Category(h) \in Rows /\ Category(h)[1] # "access"
      /\ Profile(p) \in Rows /\ Profile(p)[1] # "access"
      /\ \A r \in Resources : Access(r, p) \in Rows /\ Access(r, h) \in Rows
  BY <1>2, RowSet, RowValues, RowNames DEF Exists, Home, Holders
<1>8. both[Profile(p)] # None /\ both[Profile(p)].home = h
  BY DEF Exists, Home
<1>9. \A r \in Effective(both, p) : r \in Resources /\ (both[Access(r, p)] \/ both[Access(r, h)])
  BY DEF Effective
<1> HIDE DEF h
\* If the second adds nothing, the profile sees no more than the first alone would leave it.
<1>10. ASSUME ~Moves(d, w2, p, h)
       PROVE  Exists(one, p) /\ Home(one, p) = h
  BY <1>2, <1>3, <1>7, <1>8, <1>10 DEF Moves, Exists, Home
<1>11. ASSUME ~Moves(d, w2, p, h), NEW R \in SUBSET Resources, ~Adds(w2, R, p, h)
       PROVE  Effective(both, p) \cap R \subseteq Effective(one, p) \cap R
  <2> SUFFICES ASSUME NEW r \in R, r \in Effective(both, p) PROVE one[Access(r, p)] \/ one[Access(r, h)]
    BY <1>10, <1>11 DEF Effective
  <2> QED BY <1>2, <1>3, <1>7, <1>9, <1>11 DEF Adds, Gives
<1>12. ASSUME ~Moves(d, w1, p, h)
       PROVE  Exists(two, p) /\ Home(two, p) = h
  BY <1>2, <1>4, <1>6, <1>7, <1>8, <1>12 DEF Moves, Exists, Home
<1>13. ASSUME ~Moves(d, w1, p, h), NEW R \in SUBSET Resources, ~Adds(w1, R, p, h)
       PROVE  Effective(both, p) \cap R \subseteq Effective(two, p) \cap R
  <2> SUFFICES ASSUME NEW r \in R, r \in Effective(both, p) PROVE two[Access(r, p)] \/ two[Access(r, h)]
    BY <1>12, <1>13 DEF Effective
  <2> QED BY <1>2, <1>4, <1>7, <1>9, <1>13 DEF Adds, Gives
\* Two that add to what the profile sees would have waited for each other.
<1>14. ~(Moves(d, w1, p, h) /\ Moves(d, w2, p, h))
  BY <1>6, <1>7 DEF Moves
<1>15. Moves(d, w1, p, h) => Locked(l1, Category(h)) /\ X(Profile(p)) \in l1
  BY <1>1, <1>2, <1>7, <1>8 DEF Held, HomeHeld, Moves, Written
<1>16. Moves(d, w2, p, h) => Locked(l2, Category(h)) /\ X(Profile(p)) \in l2
  <2>1. ASSUME Moves(d, w2, p, h) PROVE w2[Profile(p)] # None /\ w2[Profile(p)].home = h
    BY <1>2, <1>6, <1>7, <1>8, <2>1 DEF Moves
  <2> QED BY <1>1, <1>7, <2>1 DEF Held, HomeHeld, Moves, Written
<1>17. ASSUME NEW R \in SUBSET Resources
       PROVE  /\ Adds(w1, R, p, h) => Locked(l1, Profile(p)) \/ X(Category(h)) \in l1
              /\ Adds(w2, R, p, h) => Locked(l2, Profile(p)) \/ X(Category(h)) \in l2
  BY <1>7, <1>17 DEF Adds, Held, AssignmentHeld, Locked, Holders
<1>18. ASSUME NEW R \in SUBSET Resources
       PROVE  /\ ~(Moves(d, w1, p, h) /\ Adds(w2, R, p, h))
              /\ ~(Moves(d, w2, p, h) /\ Adds(w1, R, p, h))
  BY <1>15, <1>16, <1>17, <1>18, LocksApart DEF Locked
<1>19. ~Moves(d, w1, p, h) /\ ~Moves(d, w2, p, h) => Exists(d, p) /\ Home(d, p) = h
  BY <1>2, <1>7, <1>8 DEF Moves, Exists, Home
<1>20. ~(Adds(w1, Addons, p, h) /\ Adds(w2, Addons, p, h))
  <2> SUFFICES ASSUME Adds(w1, Addons, p, h), Adds(w2, Addons, p, h) PROVE FALSE
    OBVIOUS
  <2>1. Home(d, p) = h
    BY <1>18, <1>19 DEF Resources
  <2>2. X(Category(h)) \in l1
    BY <1>7, <2>1 DEF Adds, Held, AssignmentHeld, AddonHeld, Resources, Holders
  <2>3. X(Category(h)) \in l2
    BY <1>7, <2>1 DEF Adds, Held, AssignmentHeld, AddonHeld, Resources, Holders
  <2> QED BY <2>2, <2>3, LocksApart DEF Locked
<1>21. ~(Adds(w1, Collections, p, h) /\ Adds(w2, Collections, p, h))
  <2> SUFFICES ASSUME Adds(w1, Collections, p, h), Adds(w2, Collections, p, h) PROVE FALSE
    OBVIOUS
  <2>1. Exists(d, p) /\ Home(d, p) = h
    BY <1>18, <1>19 DEF Resources
  <2>2. X(CollectionLock(p)) \in l1
    BY <1>7, <2>1 DEF Adds, Held, CollectionHeld
  <2>3. X(CollectionLock(p)) \in l2
    BY <1>7, <2>1 DEF Adds, Held, CollectionHeld
  <2> QED BY <2>2, <2>3, LocksApart DEF Locked
<1>22. ~OverLimit(both, p)
  <2>1. ASSUME NEW e, Sound(e), Exists(e, p),
               Effective(both, p) \cap Collections \subseteq Effective(e, p) \cap Collections
        PROVE  ~OverLimit(both, p)
    <3>1. IsFiniteSet(Effective(e, p) \cap Collections)
      BY HouseholdAssumption, FS_Subset
    <3>2. /\ Cardinality(Effective(both, p) \cap Collections) <= Cardinality(Effective(e, p) \cap Collections)
          /\ Cardinality(Effective(both, p) \cap Collections) \in Nat
          /\ Cardinality(Effective(e, p) \cap Collections) \in Nat
      BY <2>1, <3>1, FS_Subset, FS_CardinalityType
    <3>3. ~OverLimit(e, p)
      BY <2>1 DEF Sound, WithinLimits
    <3> QED BY <3>2, <3>3, HouseholdAssumption DEF OverLimit
  <2>2. Collections \in SUBSET Resources
    BY DEF Resources
  <2>3. CASE Moves(d, w2, p, h) \/ Adds(w2, Collections, p, h)
    BY <1>5, <1>12, <1>13, <1>14, <1>18, <1>21, <2>1, <2>2, <2>3
  <2>4. CASE ~(Moves(d, w2, p, h) \/ Adds(w2, Collections, p, h))
    BY <1>5, <1>10, <1>11, <2>1, <2>2, <2>4
  <2> QED BY <2>3, <2>4
<1>23. ~DuplicateTransport(both, p)
  <2>1. ASSUME NEW e, Sound(e), Exists(e, p),
               Effective(both, p) \cap Addons \subseteq Effective(e, p) \cap Addons,
               \A a \in Effective(both, p) \cap Addons : both[Addon(a)] = e[Addon(a)]
        PROVE  ~DuplicateTransport(both, p)
    <3>1. ~DuplicateTransport(e, p)
      BY <2>1 DEF Sound, WithinLimits
    <3> QED BY <2>1, <3>1 DEF DuplicateTransport
  <2>2. Addons \in SUBSET Resources
    BY DEF Resources
  <2>3. ASSUME NEW a \in Effective(both, p) \cap Addons
        PROVE  /\ both[Access(a, p)] \/ both[Access(a, h)]
               /\ both[Addon(a)] # None
               /\ Addon(a) \in Rows /\ Addon(a)[1] # "access"
    <3>1. both[Access(a, p)] \/ both[Access(a, h)]
      BY <1>9
    <3>2. both[Addon(a)] # None
      BY <1>5, <1>7, <3>1, ResourceRows DEF WellFormed, Resources, Holders
    <3> QED BY <3>1, <3>2, RowSet, RowNames
  \* The transports are those that the same one leaves.
  <2>4. ASSUME ~Adds(w2, Addons, p, h), NEW a \in Effective(both, p) \cap Addons
        PROVE  both[Addon(a)] = one[Addon(a)]
    <3>1. ASSUME Addon(a) \in DOMAIN w2, Addon(a) \notin DOMAIN w1 PROVE FALSE
      <4>1. w2[Addon(a)] # None
        BY <1>2, <2>3, <3>1
      <4>2. Access(a, p) \in DOMAIN w2 /\ Access(a, h) \in DOMAIN w2
        BY <1>7, <3>1, <4>1 DEF Held, AddonHeld, Holders
      <4>3. Gives(w1, a, p) \/ Gives(w1, a, h)
        BY <1>2, <1>7, <2>3, <2>4, <4>2 DEF Adds, Gives, Resources
      <4>4. Locked(l1, Addon(a))
        BY <1>7, <4>3, ResourceRows DEF Held, AssignmentHeld, Resources, Holders, Locked
      <4> QED BY <1>6, <2>3, <3>1, <4>4
    <3> QED BY <1>2, <1>3, <2>3, <3>1
  <2>5. ASSUME ~Adds(w1, Addons, p, h), NEW a \in Effective(both, p) \cap Addons
        PROVE  both[Addon(a)] = two[Addon(a)]
    <3>1. ASSUME Addon(a) \in DOMAIN w1 PROVE FALSE
      <4>1. w1[Addon(a)] # None
        BY <1>2, <2>3, <3>1
      <4>2. Access(a, p) \in DOMAIN w1 /\ Access(a, h) \in DOMAIN w1
        BY <1>7, <3>1, <4>1 DEF Held, AddonHeld, Holders
      <4> QED BY <1>2, <1>7, <2>3, <2>5, <4>2 DEF Adds, Gives, Resources
    <3> QED BY <1>2, <1>4, <2>3, <3>1
  <2>6. CASE Moves(d, w2, p, h) \/ Adds(w2, Addons, p, h)
    <3>1. ~Moves(d, w1, p, h) /\ ~Adds(w1, Addons, p, h)
      BY <1>14, <1>18, <1>20, <2>2, <2>6
    <3> QED BY <1>5, <1>12, <1>13, <2>1, <2>2, <2>5, <3>1
  <2>7. CASE ~(Moves(d, w2, p, h) \/ Adds(w2, Addons, p, h))
    BY <1>5, <1>10, <1>11, <2>1, <2>2, <2>4, <2>7
  <2> QED BY <2>6, <2>7
<1> QED BY <1>22, <1>23

\* The commit of one leaves the other as good as it was.
LEMMA GoodStays ==
  ASSUME NEW d, Sound(d), NEW a1, NEW l1, NEW w1, Good(d, a1, l1, w1),
         NEW a2, NEW l2, NEW w2, Good(d, a2, l2, w2), ~Conflict(l1, l2)
  PROVE  Good(w2 @@ d, a1, l1, w1)
<1>1. /\ Held(d, l1, w1) /\ ActorHeld(d, a1, l1, w1) /\ Sound(w1 @@ d)
      /\ Held(d, l2, w2) /\ Sound(w2 @@ d)
  BY DEF Good
<1>2. Held(w2 @@ d, l1, w1)
  BY <1>1, HeldStays
<1>3. ActorHeld(w2 @@ d, a1, l1, w1)
  BY <1>1, ActorStays DEF Held
<1>4. Admins(w1 @@ (w2 @@ d)) # {}
  BY <1>1, AdministratorStays DEF Sound
<1>5. WellFormed(w1 @@ (w2 @@ d))
  BY <1>1, KeysStay DEF Sound
<1>6. WithinLimits(w1 @@ (w2 @@ d))
  BY <1>1, <1>5, LimitsStay
<1> QED BY <1>2, <1>3, <1>4, <1>5, <1>6 DEF Good, Sound

-----------------------------------------------------------------------------
(* The transactions.                                                        *)

\* Every transaction has the fields of New.
Whole(x) == x = [at |-> x.at, call |-> x.call, snap |-> x.snap, homes |-> x.homes,
                 seen |-> x.seen, actor |-> x.actor, locks |-> x.locks, writes |-> x.writes]

Shape ==
  /\ DOMAIN tx = Txs
  /\ tx = [t \in Txs |-> tx[t]]
  /\ \A t \in Txs : Whole(tx[t])
  /\ \A t \in Txs : tx[t].at \in {"read", "fetching"} => tx[t].call \in AddonCalls

HeldApart ==
  \A t \in Txs : \A s \in Txs \ {t} :
    tx[t].at = "held" /\ tx[s].at = "held" => ~Conflict(tx[t].locks, tx[s].locks)

HeldGood == \A t \in Txs : tx[t].at = "held" => Good(db, tx[t].actor, tx[t].locks, tx[t].writes)

HouseholdInv == Sound(db) /\ Shape /\ HeldApart /\ HeldGood

LEMMA ConflictSymmetric == \A ls, ms : Conflict(ls, ms) <=> Conflict(ms, ls)
BY DEF Conflict

LEMMA HoldKeeps ==
  ASSUME HouseholdInv, NEW t \in Txs, NEW actor, NEW locks, NEW writes,
         Hold(t, actor, locks, writes), Good(db, actor, locks, writes)
  PROVE  HouseholdInv'
<1>1. /\ tx'[t] = [tx[t] EXCEPT !.at = "held", !.actor = actor, !.locks = locks, !.writes = writes]
      /\ tx' = [s \in Txs |-> IF s = t THEN tx'[t] ELSE tx[s]]
      /\ \A s \in Txs : s # t => tx'[s] = tx[s]
      /\ db' = db
  BY DEF HouseholdInv, Shape, Hold
<1>2. tx'[t] = [at |-> "held", call |-> tx[t].call, snap |-> tx[t].snap, homes |-> tx[t].homes,
                seen |-> tx[t].seen, actor |-> actor, locks |-> locks, writes |-> writes]
  BY <1>1 DEF HouseholdInv, Shape, Whole
<1>3. /\ tx'[t].at = "held" /\ tx'[t].actor = actor /\ tx'[t].locks = locks /\ tx'[t].writes = writes
  BY <1>2
<1>4. Shape'
  <2>1. DOMAIN tx' = Txs /\ tx' = [s \in Txs |-> tx'[s]]
    BY <1>1
  <2>2. \A s \in Txs : tx'[s].at \in {"read", "fetching"} => tx'[s].call \in AddonCalls
    BY <1>1, <1>3 DEF HouseholdInv, Shape
  <2>3. ASSUME NEW s \in Txs PROVE Whole(tx'[s])
    <3>1. CASE s = t
      BY <1>2, <3>1 DEF Whole
    <3>2. CASE s # t
      BY <1>1, <3>2 DEF HouseholdInv, Shape
    <3> QED BY <3>1, <3>2
  <2> QED BY <2>1, <2>2, <2>3 DEF Shape
<1>5. HeldApart'
  BY <1>1, <1>3, ConflictSymmetric DEF HouseholdInv, HeldApart, Hold
<1>6. HeldGood'
  BY <1>1, <1>3 DEF HouseholdInv, HeldGood
<1> QED BY <1>1, <1>4, <1>5, <1>6 DEF HouseholdInv

LEMMA DoneShape ==
  ASSUME Shape, NEW t \in Txs, tx' = [tx EXCEPT ![t] = [New EXCEPT !.at = "done"]]
  PROVE  /\ Shape'
         /\ tx'[t].at = "done"
         /\ \A s \in Txs : s # t => tx'[s] = tx[s]
<1>1. /\ tx'[t] = [New EXCEPT !.at = "done"]
      /\ tx' = [s \in Txs |-> IF s = t THEN tx'[t] ELSE tx[s]]
      /\ \A s \in Txs : s # t => tx'[s] = tx[s]
  BY DEF Shape
<1>2. tx'[t] = [at |-> "done", call |-> NoCall, snap |-> {}, homes |-> {}, seen |-> None,
                actor |-> None, locks |-> {}, writes |-> <<>>]
  BY <1>1 DEF New
<1>3. tx'[t].at = "done"
  BY <1>2
<1> QED BY <1>1, <1>2, <1>3 DEF Shape, Whole

LEMMA CommitKeeps ==
  ASSUME HouseholdInv, NEW t \in Txs, Commit(t)
  PROVE  HouseholdInv'
<1>1. /\ tx[t].at = "held"
      /\ db' = tx[t].writes @@ db
      /\ tx' = [tx EXCEPT ![t] = [New EXCEPT !.at = "done"]]
  BY DEF Commit
<1>2. /\ Shape' /\ tx'[t].at = "done"
      /\ \A s \in Txs : s # t => tx'[s] = tx[s]
  BY <1>1, DoneShape DEF HouseholdInv
<1>3. Good(db, tx[t].actor, tx[t].locks, tx[t].writes) /\ Sound(db)
  BY <1>1 DEF HouseholdInv, HeldGood
<1>4. Sound(db')
  BY <1>1, <1>3 DEF Good
<1>5. HeldApart'
  BY <1>2 DEF HouseholdInv, HeldApart
<1>6. ASSUME NEW s \in Txs, tx'[s].at = "held" PROVE Good(db', tx'[s].actor, tx'[s].locks, tx'[s].writes)
  <2>1. s # t /\ tx'[s] = tx[s]
    BY <1>2, <1>6
  <2>2. Good(db, tx[s].actor, tx[s].locks, tx[s].writes) /\ ~Conflict(tx[s].locks, tx[t].locks)
    BY <1>1, <1>6, <2>1 DEF HouseholdInv, HeldGood, HeldApart
  <2>3. Good(tx[t].writes @@ db, tx[s].actor, tx[s].locks, tx[s].writes)
    BY <1>3, <2>2, GoodStays
  <2> QED BY <1>1, <2>1, <2>3
<1>7. HeldGood'
  BY <1>6 DEF HeldGood
<1>8. Sound(db)'
  BY <1>4 DEF Sound, WellFormed, WithinLimits, Admins
<1> QED BY <1>2, <1>5, <1>7, <1>8 DEF HouseholdInv

-----------------------------------------------------------------------------
(* Operations that assign nothing.                                          *)

\* Neither an assignment nor a transport is written.
Plain(w) ==
  /\ \A r \in Resources, x \in Holders : ~Gives(w, r, x)
  /\ \A a \in Addons : Addon(a) \in DOMAIN w => w[Addon(a)] = None

\* The row of a profile, a category or a resource is deleted.
Gone(row) == IF row[1] = "access_categories" THEN "absent"
             ELSE IF row[1] = "profile_collections" THEN FALSE ELSE None
Deletes(w, row) == row \in DOMAIN w /\ w[row] = Gone(row)

LEMMA GoneRows ==
  /\ \A r \in Resources : Gone(ResourceRow(r)) = Absent(r)
  /\ \A p : Gone(Profile(p)) = None
  /\ \A c : Gone(Category(c)) = "absent"
<1>1. \A p, c : Gone(Profile(p)) = None /\ Gone(Category(c)) = "absent"
  BY RowNames DEF Gone
<1>2. \A a \in Addons : Gone(ResourceRow(a)) = Absent(a)
  BY RowNames, ResourceRows DEF Gone
<1>3. ASSUME NEW k \in Collections PROVE Gone(ResourceRow(k)) = Absent(k)
  <2>1. ResourceRow(k)[1] = "profile_collections" /\ Absent(k) = FALSE
    BY RowNames, ResourceRows
  <2>2. ResourceRow(k)[1] # "access_categories"
    BY <2>1
  <2>3. Gone(ResourceRow(k)) = FALSE
    BY <2>1, <2>2, Zenon DEF Gone
  <2> QED BY <2>1, <2>3
<1> QED BY <1>1, <1>2, <1>3 DEF Resources

\* What refers to a deleted row goes with it.
Cascades(d, w) ==
  \A r \in Resources, x \in Holders :
    d[Access(r, x)] /\ (\E row \in {ResourceRow(r), Profile(x), Category(x)} : Deletes(w, row))
      => Access(r, x) \in DOMAIN w

HomesLive(e) == \A p \in Profiles : Exists(e, p) => Lives(e, Home(e, p))

\* Who is moved or made was found to fit where he goes.
ArrivalsFit(d, e) ==
  \A p \in Profiles : Exists(e, p) /\ ~(Exists(d, p) /\ Home(d, p) = Home(e, p))
    => ~DuplicateTransport(e, p) /\ ~OverLimit(e, p)

LEMMA KeysAfter ==
  ASSUME NEW d, Sound(d), NEW ls, NEW w, Written(ls, w), Plain(w), Cascades(d, w), HomesLive(w @@ d)
  PROVE  WellFormed(w @@ d)
<1> DEFINE e == w @@ d
<1>1. /\ DOMAIN d = Rows /\ \A row \in Rows : d[row] \in Values(row)
      /\ WellFormed(d)
  BY DEF Sound, WellFormed
<1>2. /\ DOMAIN e = Rows /\ \A row \in Rows : e[row] \in Values(row)
      /\ \A row \in Rows : e[row] = IF row \in DOMAIN w THEN w[row] ELSE d[row]
  BY <1>1, ViewRows
<1>3. HomesLive(e)
  OBVIOUS
<1> HIDE DEF e
<1>4. ASSUME NEW r \in Resources, NEW x \in Holders, e[Access(r, x)]
      PROVE  e[ResourceRow(r)] # Absent(r) /\ IF x \in Profiles THEN Exists(e, x) ELSE Lives(e, x)
  <2>1. Access(r, x) \notin DOMAIN w /\ d[Access(r, x)]
    BY <1>2, <1>4, RowSet DEF Plain, Gives
  <2>2. \A row \in {ResourceRow(r), Profile(x), Category(x)} : ~Deletes(w, row)
    BY <2>1 DEF Cascades
  <2>3. e[ResourceRow(r)] # Absent(r)
    <3>1. d[ResourceRow(r)] # Absent(r)
      BY <1>1, <2>1 DEF WellFormed
    <3> QED BY <1>2, <2>2, <3>1, RowSet, GoneRows DEF Deletes
  <2>4. CASE x \in Profiles
    <3>1. Exists(d, x)
      BY <1>1, <2>1, <2>4 DEF WellFormed
    <3> QED BY <1>2, <2>2, <2>3, <2>4, <3>1, RowSet, GoneRows DEF Deletes, Exists
  <2>5. CASE x \notin Profiles
    <3>1. x \in Categories /\ Lives(d, x)
      BY <1>1, <2>1, <2>5 DEF WellFormed, Holders
    <3> QED BY <1>2, <2>2, <2>3, <2>5, <3>1, RowSet, GoneRows DEF Deletes, Lives
  <2> QED BY <2>4, <2>5
<1> QED BY <1>2, <1>3, <1>4 DEF WellFormed, HomesLive, e

\* A profile that sees less than one that fits.
LEMMA FewerSeen ==
  ASSUME NEW d, NEW e, NEW p, Effective(e, p) \subseteq Effective(d, p),
         \A a \in Effective(e, p) \cap Addons : e[Addon(a)] = d[Addon(a)],
         ~DuplicateTransport(d, p), ~OverLimit(d, p)
  PROVE  ~DuplicateTransport(e, p) /\ ~OverLimit(e, p)
<1>1. ~DuplicateTransport(e, p)
  BY DEF DuplicateTransport
<1>2. /\ Effective(e, p) \cap Collections \subseteq Effective(d, p) \cap Collections
      /\ IsFiniteSet(Effective(d, p) \cap Collections)
  BY HouseholdAssumption, FS_Subset
<1>3. /\ Cardinality(Effective(e, p) \cap Collections) <= Cardinality(Effective(d, p) \cap Collections)
      /\ Cardinality(Effective(e, p) \cap Collections) \in Nat
      /\ Cardinality(Effective(d, p) \cap Collections) \in Nat
  BY <1>2, FS_Subset, FS_CardinalityType
<1> QED BY <1>1, <1>3, HouseholdAssumption DEF OverLimit

LEMMA LimitsAfter ==
  ASSUME NEW d, Sound(d), NEW ls, NEW w, Written(ls, w), Plain(w), WellFormed(w @@ d), ArrivalsFit(d, w @@ d)
  PROVE  WithinLimits(w @@ d)
<1> DEFINE e == w @@ d
<1>1. /\ DOMAIN d = Rows /\ \A row \in Rows : d[row] \in Values(row)
      /\ WithinLimits(d)
  BY DEF Sound, WellFormed
<1>2. /\ DOMAIN e = Rows /\ \A row \in Rows : e[row] \in Values(row)
      /\ \A row \in Rows : e[row] = IF row \in DOMAIN w THEN w[row] ELSE d[row]
  BY <1>1, ViewRows
<1>3. WellFormed(e) /\ ArrivalsFit(d, e)
  OBVIOUS
<1> HIDE DEF e
<1> SUFFICES ASSUME NEW p \in Profiles, Exists(e, p) PROVE ~DuplicateTransport(e, p) /\ ~OverLimit(e, p)
  BY DEF WithinLimits, e
<1>4. CASE ~(Exists(d, p) /\ Home(d, p) = Home(e, p))
  BY <1>3, <1>4 DEF ArrivalsFit
<1>5. CASE Exists(d, p) /\ Home(d, p) = Home(e, p)
  <2> DEFINE h == Home(e, p)
  <2>1. h \in Holders /\ h = Home(d, p)
    BY <1>2, <1>5, RowSet, RowValues DEF Exists, Home, Holders
  <2>2. \A r \in Resources : (e[Access(r, p)] => d[Access(r, p)]) /\ (e[Access(r, h)] => d[Access(r, h)])
    BY <1>2, <2>1, RowSet DEF Plain, Gives, Holders
  <2>3. \A r : r \in Effective(e, p) => r \in Resources /\ (e[Access(r, p)] \/ e[Access(r, h)])
    BY DEF Effective
  <2> HIDE DEF h
  <2>4. Effective(e, p) \subseteq Effective(d, p)
    BY <2>1, <2>2, <2>3 DEF Effective
  <2>5. ~DuplicateTransport(d, p) /\ ~OverLimit(d, p)
    BY <1>1, <1>5 DEF WithinLimits
  <2>6. \A a \in Effective(e, p) \cap Addons : e[Addon(a)] = d[Addon(a)]
    <3> SUFFICES ASSUME NEW a \in Effective(e, p) \cap Addons PROVE e[Addon(a)] = d[Addon(a)]
      OBVIOUS
    <3>1. e[ResourceRow(a)] # Absent(a)
      BY <1>3, <2>1, <2>3 DEF WellFormed, Holders
    <3>2. Addon(a) \notin DOMAIN w
      BY <1>2, <3>1, RowSet, ResourceRows DEF Plain
    <3> QED BY <1>2, <3>2, RowSet
  <2> QED BY <2>4, <2>5, <2>6, FewerSeen
<1> QED BY <1>4, <1>5

\* No role is written.
LEMMA RolesKept ==
  ASSUME NEW d, Sound(d), NEW ls, NEW w, Written(ls, w), \A u \in Users : User(u) \notin DOMAIN w
  PROVE  Admins(w @@ d) # {} /\ UserHeld(d, ls, w)
<1>1. \A u \in Users : (w @@ d)[User(u)] = d[User(u)]
  BY ViewRows, RowSet DEF Sound, WellFormed
<1> QED BY <1>1 DEF Admins, Sound, UserHeld

LEMMA PlainGood ==
  ASSUME NEW d, Sound(d), NEW ls, NEW w, Written(ls, w), Plain(w), HomeHeld(d, ls, w),
         \A u \in Users : User(u) \notin DOMAIN w,
         Cascades(d, w), HomesLive(w @@ d), ArrivalsFit(d, w @@ d),
         NEW actor, ActorHeld(d, actor, ls, w)
  PROVE  Good(d, actor, ls, w)
<1>1. WellFormed(w @@ d) /\ WithinLimits(w @@ d)
  BY KeysAfter, LimitsAfter
<1>2. Admins(w @@ d) # {} /\ UserHeld(d, ls, w)
  BY RolesKept
<1>3. AssignmentHeld(d, ls, w) /\ AddonHeld(d, ls, w) /\ CollectionHeld(d, ls, w)
  BY DEF Plain, AssignmentHeld, AddonHeld, CollectionHeld, Resources, Holders
<1> QED BY <1>1, <1>2, <1>3 DEF Good, Held, Sound

LEMMA CategoryRowsGood ==
  ASSUME NEW d, Sound(d), NEW ls, NEW w, NEW actor,
         \A row \in DOMAIN w : /\ \E c \in Categories : row = Category(c)
                               /\ w[row] \in {"live", "default"}
                               /\ X(row) \in ls
  PROVE  Good(d, actor, ls, w)
<1>1. Written(ls, w)
  BY RowSet, RowValues DEF Written
<1>2. /\ Plain(w) /\ HomeHeld(d, ls, w)
      /\ \A u \in Users : User(u) \notin DOMAIN w
      /\ \A p \in Profiles : Profile(p) \notin DOMAIN w
  BY RowNames DEF Plain, Gives, HomeHeld
<1>3. Cascades(d, w)
  <2>1. \A row \in DOMAIN w : ~Deletes(w, row)
    BY GoneRows DEF Deletes
  <2> QED BY <2>1 DEF Cascades, Deletes
<1> DEFINE e == w @@ d
<1>4. \A row \in Rows : e[row] = IF row \in DOMAIN w THEN w[row] ELSE d[row]
  BY <1>1, ViewRows DEF Sound, WellFormed
<1> HIDE DEF e
<1>5. \A p \in Profiles : (Exists(e, p) <=> Exists(d, p)) /\ Home(e, p) = Home(d, p)
  BY <1>2, <1>4, RowSet DEF Exists, Home
<1>6. \A c \in Categories : Lives(d, c) => Lives(e, c)
  BY <1>4, RowSet DEF Lives
<1>7. HomesLive(e)
  <2> SUFFICES ASSUME NEW p \in Profiles, Exists(d, p) PROVE Lives(e, Home(d, p))
    BY <1>5 DEF HomesLive
  <2>1. Home(d, p) \in Categories /\ Lives(d, Home(d, p))
    BY RowSet, RowValues DEF Sound, WellFormed, Exists, Home
  <2> QED BY <1>6, <2>1
<1>8. ArrivalsFit(d, e)
  BY <1>5 DEF ArrivalsFit
<1>9. ActorHeld(d, actor, ls, w)
  BY RowNames DEF ActorHeld, Harmless
<1> QED BY <1>1, <1>2, <1>3, <1>7, <1>8, <1>9, PlainGood DEF e

LEMMA CreateCategoryGood ==
  ASSUME HouseholdInv, NEW t \in Txs, NEW u \in Users, NEW c \in Categories, CreateCategory(t, u, c)
  PROVE  HouseholdInv'
<1> DEFINE ls == {X(CategoryTable), X(Category(c))}
           w == Category(c) :> "live"
<1>1. DOMAIN w = {Category(c)} /\ w[Category(c)] = "live"
  BY Single
<1>2. Hold(t, u, ls, w)
  BY DEF CreateCategory
<1> HIDE DEF w
<1>3. Good(db, u, ls, w)
  BY <1>1, CategoryRowsGood DEF HouseholdInv
<1> QED BY <1>2, <1>3, HoldKeeps

LEMMA MakeDefaultGood ==
  ASSUME HouseholdInv, NEW t \in Txs, NEW u \in Users, NEW c \in Categories, MakeDefault(t, u, c)
  PROVE  HouseholdInv'
<1> DEFINE previous == {d \in Categories : db[Category(d)] = "default"}
           ls == {X(CategoryTable)} \cup XAll({Category(d) : d \in previous \cup {c}})
           w1 == Category(c) :> "default"
           w2 == [r \in {Category(d) : d \in previous} |-> "live"]
           w == w1 @@ w2
<1>1. Hold(t, u, ls, w)
  BY DEF MakeDefault
<1>2. DOMAIN w1 = {Category(c)} /\ w1[Category(c)] = "default"
  BY Single
<1>3. DOMAIN w2 = {Category(d) : d \in previous} /\ \A row \in DOMAIN w2 : w2[row] = "live"
  OBVIOUS
<1> HIDE DEF w1, w2
<1>4. /\ DOMAIN w = DOMAIN w1 \cup DOMAIN w2
      /\ \A row \in DOMAIN w : w[row] = IF row \in DOMAIN w1 THEN w1[row] ELSE w2[row]
  BY DEF @@
<1> HIDE DEF w
<1>5. \A row \in DOMAIN w : /\ \E e \in Categories : row = Category(e)
                            /\ w[row] \in {"live", "default"}
                            /\ X(row) \in ls
  BY <1>2, <1>3, <1>4 DEF XAll
<1> HIDE DEF ls
<1>6. Good(db, u, ls, w)
  BY <1>5, CategoryRowsGood DEF HouseholdInv
<1> QED BY <1>1, <1>6, HoldKeeps

\* Profiles are moved or made.
LEMMA ProfileRowsGood ==
  ASSUME NEW d, Sound(d), NEW ls, NEW w, NEW actor, ActorHeld(d, actor, ls, w), HomeHeld(d, ls, w),
         \A row \in DOMAIN w : /\ \E p \in Profiles : row = Profile(p)
                               /\ w[row] \in [home : Categories, open : BOOLEAN]
                               /\ Lives(d, w[row].home)
                               /\ X(row) \in ls,
         ArrivalsFit(d, w @@ d)
  PROVE  Good(d, actor, ls, w)
<1>1. Written(ls, w)
  BY RowSet, RowValues DEF Written
<1>2. /\ Plain(w)
      /\ \A u \in Users : User(u) \notin DOMAIN w
      /\ \A c \in Categories : Category(c) \notin DOMAIN w
  BY RowNames DEF Plain, Gives
<1>3. Cascades(d, w)
  <2>1. \A row \in DOMAIN w : ~Deletes(w, row)
    BY GoneRows, HouseholdAssumption DEF Deletes
  <2> QED BY <2>1 DEF Cascades, Deletes
<1> DEFINE e == w @@ d
<1>4. \A row \in Rows : e[row] = IF row \in DOMAIN w THEN w[row] ELSE d[row]
  BY <1>1, ViewRows DEF Sound, WellFormed
<1> HIDE DEF e
<1>5. HomesLive(e)
  <2> SUFFICES ASSUME NEW p \in Profiles, Exists(e, p) PROVE Lives(e, Home(e, p))
    BY DEF HomesLive
  <2>1. CASE Profile(p) \in DOMAIN w
    BY <1>2, <1>4, <2>1, RowSet DEF Home, Lives
  <2>2. CASE Profile(p) \notin DOMAIN w
    <3>1. Home(e, p) = Home(d, p) /\ Exists(d, p)
      BY <1>4, <2>2, RowSet DEF Exists, Home
    <3>2. Home(d, p) \in Categories /\ Lives(d, Home(d, p))
      BY <3>1, RowSet, RowValues DEF Sound, WellFormed, Exists, Home
    <3> QED BY <1>2, <1>4, <3>1, <3>2, RowSet DEF Lives
  <2> QED BY <2>1, <2>2
<1> QED BY <1>1, <1>2, <1>3, <1>5, PlainGood DEF e

LEMMA MovedRows ==
  ASSUME Sound(db), NEW ps \in SUBSET Profiles, \A p \in ps : Exists(db, p), NEW c \in Categories
  PROVE  /\ DOMAIN Moved(ps, c) = {Profile(p) : p \in ps}
         /\ \A p \in ps : /\ Moved(ps, c)[Profile(p)] \in [home : Categories, open : BOOLEAN]
                          /\ Moved(ps, c)[Profile(p)].home = c
<1>1. DOMAIN Moved(ps, c) = {Profile(p) : p \in ps}
  BY DEF Moved
<1>2. ASSUME NEW p \in ps
      PROVE  /\ Moved(ps, c)[Profile(p)] \in [home : Categories, open : BOOLEAN]
             /\ Moved(ps, c)[Profile(p)].home = c
  <2>1. db[Profile(p)] \in [home : Categories, open : BOOLEAN]
    BY <1>2, RowSet, RowValues DEF Sound, WellFormed, Exists
  <2>2. Moved(ps, c)[Profile(p)] = [db[Profile(p)] EXCEPT !.home = c]
    BY DEF Moved
  <2> QED BY <2>1, <2>2
<1> QED BY <1>1, <1>2

\* Who was found to fit is who arrives.
LEMMA ArrivalsAfter ==
  ASSUME NEW d, Sound(d), NEW ls, NEW w, Written(ls, w), NEW ps \in SUBSET Profiles,
         \A p \in Profiles : Profile(p) \in DOMAIN w => p \in ps \/ (Exists(d, p) /\ Home(d, p) = w[Profile(p)].home),
         MoveFits(w @@ d, ps)
  PROVE  ArrivalsFit(d, w @@ d)
<1> DEFINE e == w @@ d
<1>1. \A row \in Rows : e[row] = IF row \in DOMAIN w THEN w[row] ELSE d[row]
  BY ViewRows DEF Sound, WellFormed
<1>2. MoveFits(e, ps)
  OBVIOUS
<1> HIDE DEF e
<1>3. ASSUME NEW p \in Profiles, Exists(e, p), ~(Exists(d, p) /\ Home(d, p) = Home(e, p)) PROVE p \in ps
  BY <1>1, <1>3, RowSet DEF Exists, Home
<1>4. ArrivalsFit(d, e)
  BY <1>2, <1>3 DEF ArrivalsFit, MoveFits
<1> QED BY <1>4 DEF e

LEMMA MoveProfilesGood ==
  ASSUME HouseholdInv, NEW t \in Txs, NEW u \in Users, NEW ps \in SUBSET Profiles, NEW c \in Categories,
         MoveProfiles(t, u, ps, c)
  PROVE  HouseholdInv'
<1> DEFINE moved == {p \in ps : Home(db, p) # c}
           ls == {S(User(u)), X(CategoryTable), X(Category(c)), S(ProfileTable)} \cup XAll({Profile(p) : p \in ps})
           w == Moved(moved, c)
<1>1. /\ Hold(t, u, ls, w) /\ u \in Admins(db) /\ Lives(db, c) /\ MoveFits(w @@ db, moved)
      /\ \A p \in ps : Exists(db, p)
  BY DEF MoveProfiles
<1>2. Sound(db)
  BY DEF HouseholdInv
<1>3. /\ DOMAIN w = {Profile(p) : p \in moved}
      /\ \A p \in moved : w[Profile(p)] \in [home : Categories, open : BOOLEAN] /\ w[Profile(p)].home = c
  BY <1>1, <1>2, MovedRows
<1>4. /\ \A p \in moved : X(Profile(p)) \in ls
      /\ X(Category(c)) \in ls /\ S(User(u)) \in ls
  BY DEF XAll
<1> HIDE DEF w, ls
<1>5. \A row \in DOMAIN w : /\ \E p \in Profiles : row = Profile(p)
                            /\ w[row] \in [home : Categories, open : BOOLEAN]
                            /\ Lives(db, w[row].home)
                            /\ X(row) \in ls
  BY <1>1, <1>3, <1>4
<1>6. HomeHeld(db, ls, w)
  <2>1. ASSUME NEW p \in Profiles, Profile(p) \in DOMAIN w PROVE w[Profile(p)].home = c
    BY <1>3, <2>1
  <2> QED BY <1>4, <2>1 DEF HomeHeld, Locked
<1>7. ActorHeld(db, u, ls, w)
  BY <1>1, <1>4 DEF ActorHeld, Rightful
<1>8. Written(ls, w)
  BY <1>5, RowSet, RowValues DEF Written
<1>9. ArrivalsFit(db, w @@ db)
  <2>1. \A p \in Profiles : Profile(p) \in DOMAIN w => p \in moved
    BY <1>3, RowNames
  <2> QED BY <1>1, <1>2, <1>8, <2>1, ArrivalsAfter
<1>10. Good(db, u, ls, w)
  BY <1>2, <1>5, <1>6, <1>7, <1>9, ProfileRowsGood
<1> QED BY <1>1, <1>10, HoldKeeps

LEMMA CreateProfileGood ==
  ASSUME HouseholdInv, NEW t \in Txs, NEW u \in Users \cup {None}, NEW p \in Profiles, NEW c \in Categories, NEW open \in BOOLEAN,
         CreateProfile(t, u, p, c, open)
  PROVE  HouseholdInv'
<1> DEFINE value == [home |-> c, open |-> open]
           w == Profile(p) :> value
           reasons == IF u = None THEN {Profile(m) : m \in Members(db, c)} ELSE {User(v) : v \in {u} \cap Admins(db)}
<1>11. PICK reason \in reasons :
         Hold(t, u, {S(reason), X(CategoryTable), S(Category(c)), S(ProfileTable), X(Profile(p))}, w)
  BY DEF CreateProfile
<1> DEFINE ls == {S(reason), X(CategoryTable), S(Category(c)), S(ProfileTable), X(Profile(p))}
<1>1. Hold(t, u, ls, w) /\ ~Exists(db, p) /\ Lives(db, c) /\ MoveFits(w @@ db, {p})
  BY <1>11 DEF CreateProfile
<1>12. u = None \/ (u \in Admins(db) /\ reason = User(u))
  BY <1>11
<1>2. Sound(db)
  BY DEF HouseholdInv
<1>3. /\ DOMAIN w = {Profile(p)} /\ w[Profile(p)] = value
      /\ value \in [home : Categories, open : BOOLEAN] /\ value.home = c
  BY Single
<1>4. X(Profile(p)) \in ls /\ S(Category(c)) \in ls /\ S(reason) \in ls
  OBVIOUS
<1> HIDE DEF w, ls, value
<1>5. \A row \in DOMAIN w : /\ \E q \in Profiles : row = Profile(q)
                            /\ w[row] \in [home : Categories, open : BOOLEAN]
                            /\ Lives(db, w[row].home)
                            /\ X(row) \in ls
  BY <1>1, <1>3, <1>4
<1>6. HomeHeld(db, ls, w)
  BY <1>3, <1>4 DEF HomeHeld, Locked
<1>7. ActorHeld(db, u, ls, w)
  <2>1. CASE u = None
    <3>1. Harmless(db, u, ls, w)
      BY <1>1, <1>3, <2>1, RowNames DEF Harmless
    <3> QED BY <3>1 DEF ActorHeld
  <2>2. CASE u # None
    BY <1>4, <1>12, <2>2 DEF ActorHeld, Rightful
  <2> QED BY <2>1, <2>2
<1>8. Written(ls, w)
  BY <1>5, RowSet, RowValues DEF Written
<1>9. ArrivalsFit(db, w @@ db)
  <2>1. \A q \in Profiles : Profile(q) \in DOMAIN w => q \in {p}
    BY <1>3, RowNames
  <2> QED BY <1>1, <1>2, <1>8, <2>1, ArrivalsAfter
<1>10. Good(db, u, ls, w)
  BY <1>2, <1>5, <1>6, <1>7, <1>9, ProfileRowsGood
<1> QED BY <1>1, <1>10, HoldKeeps

LEMMA UpdateProfileGood ==
  ASSUME HouseholdInv, NEW t \in Txs, NEW u \in Users \cup {None}, NEW p \in Profiles, NEW c \in Categories \cup {None},
         NEW open \in BOOLEAN, UpdateProfile(t, u, p, c, open)
  PROVE  HouseholdInv'
<1> DEFINE old == Home(db, p)
           new == IF c = None THEN old ELSE c
           value == [home |-> new, open |-> open]
           w == Profile(p) :> value
           ls == {X(ProfileTable), X(Profile(p))} \cup (IF c = None THEN {} ELSE {X(CategoryTable)})
                   \cup (IF u = None \/ c = None THEN {} ELSE {S(User(u))})
                   \cup (IF new = old THEN {} ELSE {S(Category(new))})
<1>1. /\ Hold(t, u, ls, w) /\ Exists(db, p)
      /\ c # None => IF u = None THEN c = old ELSE u \in Admins(db) /\ Lives(db, c)
      /\ new # old => MoveFits(w @@ db, {p})
  BY DEF UpdateProfile
<1>2. Sound(db)
  BY DEF HouseholdInv
<1>3. old \in Categories /\ Lives(db, old)
  BY <1>1, <1>2, RowSet, RowValues DEF Sound, WellFormed, Exists, Home
<1>4. new \in Categories /\ Lives(db, new)
  BY <1>1, <1>3
<1>5. /\ X(Profile(p)) \in ls
      /\ new # old => S(Category(new)) \in ls
      /\ c # None /\ u # None => S(User(u)) \in ls
  OBVIOUS
<1>13. new = old \/ (u \in Admins(db) /\ S(User(u)) \in ls)
  BY <1>1, <1>5
<1> HIDE DEF new, ls
<1>6. /\ DOMAIN w = {Profile(p)} /\ w[Profile(p)] = value
      /\ value \in [home : Categories, open : BOOLEAN] /\ value.home = new
  BY <1>4, Single
<1> HIDE DEF w, value
<1>7. \A row \in DOMAIN w : /\ \E q \in Profiles : row = Profile(q)
                            /\ w[row] \in [home : Categories, open : BOOLEAN]
                            /\ Lives(db, w[row].home)
                            /\ X(row) \in ls
  BY <1>4, <1>5, <1>6
<1>8. HomeHeld(db, ls, w)
  <2>1. ASSUME NEW q \in Profiles, Profile(q) \in DOMAIN w PROVE q = p
    BY <1>6, <2>1, RowNames
  <2> QED BY <1>1, <1>5, <1>6, <2>1 DEF HomeHeld, Locked
<1>9. ActorHeld(db, u, ls, w)
  <2>1. CASE new = old
    <3>1. Harmless(db, u, ls, w)
      BY <1>1, <1>6, <2>1, RowNames DEF Harmless
    <3> QED BY <3>1 DEF ActorHeld
  <2>2. CASE new # old
    BY <1>13, <2>2 DEF ActorHeld, Rightful
  <2> QED BY <2>1, <2>2
<1>10. Written(ls, w)
  BY <1>7, RowSet, RowValues DEF Written
<1>11. ArrivalsFit(db, w @@ db)
  <2> DEFINE ps == IF new = old THEN {} ELSE {p}
  <2>1. MoveFits(w @@ db, ps)
    BY <1>1 DEF MoveFits
  <2>2. \A q \in Profiles : Profile(q) \in DOMAIN w => q \in ps \/ (Exists(db, q) /\ Home(db, q) = w[Profile(q)].home)
    BY <1>1, <1>6, RowNames
  <2> QED BY <1>2, <1>10, <2>1, <2>2, ArrivalsAfter
<1>12. Good(db, u, ls, w)
  BY <1>2, <1>7, <1>8, <1>9, <1>11, ProfileRowsGood
<1> QED BY <1>1, <1>12, HoldKeeps

-----------------------------------------------------------------------------
(* Deletions of profiles and categories.                                    *)

\* What DeleteHolder writes and locks.
IsDeletion(x, row, value, others, w, lk) ==
  /\ w = DeleteHolder(x, row, value, others).writes
  /\ lk = DeleteHolder(x, row, value, others).locks

\* Namely this.
DeletionFacts(x, row, value, others, w, ls) ==
  /\ row \in DOMAIN w /\ w[row] = value
  /\ \A r \in Resources : db[Access(r, x)] => Access(r, x) \in DOMAIN w
  /\ \A r, y : Access(r, y) \in DOMAIN w => r \in Resources /\ y = x /\ w[Access(r, y)] = FALSE
  /\ \A r \in Resources : ResourceRow(r) \in DOMAIN w =>
       /\ w[ResourceRow(r)] = Absent(r)
       /\ \A y \in Holders : db[Access(r, y)] => y = x
  /\ \A o \in DOMAIN others : o \in DOMAIN w /\ w[o] = others[o]
  /\ \A o \in DOMAIN w :
       \/ o = row \/ o \in DOMAIN others
       \/ \E r \in Resources : o = Access(r, x) \/ o = ResourceRow(r)
  /\ \A o \in DOMAIN w : o \in DOMAIN others \/ X(o) \in ls

LEMMA Deletion ==
  ASSUME Sound(db), NEW x \in Holders, NEW row \in {Profile(x), Category(x)}, NEW value,
         NEW others, \A o \in DOMAIN others : o[1] = "profiles" /\ o # row,
         NEW w, NEW ls, IsDeletion(x, row, value, others, w, ls)
  PROVE  DeletionFacts(x, row, value, others, w, ls)
<1> DEFINE held == {r \in Resources : db[Access(r, x)]}
           falses == [g \in AccessRows(held, {x}) |-> FALSE]
           first == (row :> value) @@ falses
           cascade == first @@ others
           gone == Orphans(cascade @@ db, held)
           absents == [o \in {ResourceRow(r) : r \in gone} |-> Absent(o[2])]
<1>1. /\ w = cascade @@ absents
      /\ ls = XAll({row} \cup AccessRows(held, {x}) \cup {ResourceRow(r) : r \in gone})
  BY DEF DeleteHolder, IsDeletion
<1>2. row[1] \in {"profiles", "access_categories"}
  BY RowNames
<1>3. AccessRows(held, {x}) = {Access(r, x) : r \in held}
  BY DEF AccessRows
<1>4. /\ DOMAIN falses = {Access(r, x) : r \in held}
      /\ \A g \in DOMAIN falses : falses[g] = FALSE
      /\ \A g \in DOMAIN falses : g[1] = "access"
  <2>1. DOMAIN falses = {Access(r, x) : r \in held}
    BY <1>3
  <2>2. \A g \in DOMAIN falses : falses[g] = FALSE
    OBVIOUS
  <2> HIDE DEF falses
  <2> QED BY <2>1, <2>2, RowNames
<1>5. DOMAIN (row :> value) = {row} /\ (row :> value)[row] = value
  BY Single
<1> HIDE DEF falses
<1>6. /\ DOMAIN first = {row} \cup DOMAIN falses
      /\ first[row] = value
      /\ \A g \in DOMAIN falses : first[g] = FALSE
  BY <1>2, <1>4, <1>5 DEF @@
<1> HIDE DEF first
<1>7. /\ DOMAIN cascade = {row} \cup DOMAIN falses \cup DOMAIN others
      /\ cascade[row] = value
      /\ \A g \in DOMAIN falses : cascade[g] = FALSE
      /\ \A o \in DOMAIN others : cascade[o] = others[o]
  BY <1>2, <1>4, <1>6 DEF @@
<1> HIDE DEF cascade
<1>8. ASSUME NEW r \in gone, NEW y \in Holders, db[Access(r, y)] PROVE y = x
  <2>1. r \in held /\ ~(cascade @@ db)[Access(r, y)]
    BY <1>8 DEF Orphans, Assigned
  <2>2. Access(r, y) \in DOMAIN db
    BY <2>1, <1>8, RowSet DEF Sound, WellFormed
  <2>3. Access(r, y) \in DOMAIN cascade
    BY <1>8, <2>1, <2>2 DEF @@
  <2>4. Access(r, y) \in DOMAIN falses
    BY <1>2, <1>7, <2>3, RowNames
  <2> QED BY <1>4, <2>4, RowNames
<1>9. gone \subseteq held
  BY DEF Orphans
<1> HIDE DEF gone
<1>10. /\ DOMAIN absents = {ResourceRow(r) : r \in gone}
       /\ \A r \in gone : absents[ResourceRow(r)] = Absent(r)
  BY ResourceRows
<1> HIDE DEF absents
<1>11. /\ DOMAIN w = DOMAIN cascade \cup DOMAIN absents
       /\ \A o \in DOMAIN cascade : w[o] = cascade[o]
       /\ \A o \in DOMAIN absents : o \notin DOMAIN cascade => w[o] = absents[o]
  BY <1>1 DEF @@
<1>12. \A o \in DOMAIN absents : o[1] \in {"profile_addons", "profile_collections"}
  BY <1>10, ResourceRows
<1>13. \A o \in DOMAIN cascade : o[1] \in {"profiles", "access_categories", "access"}
  BY <1>2, <1>4, <1>7
<1>14. row \in DOMAIN w /\ w[row] = value
  BY <1>7, <1>11
<1>15. \A r \in Resources : db[Access(r, x)] => Access(r, x) \in DOMAIN w
  BY <1>4, <1>7, <1>11
<1>16. ASSUME NEW r, NEW y, Access(r, y) \in DOMAIN w
       PROVE  r \in Resources /\ y = x /\ w[Access(r, y)] = FALSE
  <2>1. Access(r, y) \in DOMAIN falses
    BY <1>2, <1>7, <1>11, <1>12, <1>16, RowNames
  <2> QED BY <1>4, <1>7, <1>11, <2>1, RowNames
<1>17. ASSUME NEW r \in Resources, ResourceRow(r) \in DOMAIN w
       PROVE  /\ w[ResourceRow(r)] = Absent(r)
              /\ \A y \in Holders : db[Access(r, y)] => y = x
  <2>1. ResourceRow(r) \notin DOMAIN cascade
    BY <1>13, ResourceRows
  <2>2. r \in gone
    BY <1>10, <1>11, <1>17, <2>1, ResourceRows
  <2> QED BY <1>8, <1>10, <1>11, <1>17, <2>1, <2>2
<1>18. \A o \in DOMAIN others : o \in DOMAIN w /\ w[o] = others[o]
  BY <1>7, <1>11
<1>19. \A o \in DOMAIN w :
         \/ o = row \/ o \in DOMAIN others
         \/ \E r \in Resources : o = Access(r, x) \/ o = ResourceRow(r)
  BY <1>4, <1>7, <1>9, <1>10, <1>11
<1>20. \A o \in DOMAIN w : o \in DOMAIN others \/ X(o) \in ls
  BY <1>1, <1>3, <1>4, <1>7, <1>10, <1>11 DEF XAll
<1> QED BY <1>14, <1>15, <1>16, <1>17, <1>18, <1>19, <1>20 DEF DeletionFacts

LEMMA FalseIsValue ==
  /\ \A r, y : FALSE \in Values(Access(r, y))
  /\ \A r \in Resources : Absent(r) \in Values(ResourceRow(r))
<1>1. \A r, y : FALSE \in Values(Access(r, y))
  BY RowValues
<1>2. ASSUME NEW a \in Addons PROVE Absent(a) \in Values(ResourceRow(a))
  BY RowValues, ResourceRows
<1>3. ASSUME NEW k \in Collections PROVE Absent(k) \in Values(ResourceRow(k))
  <2>1. Absent(k) = FALSE /\ Values(ResourceRow(k)) = BOOLEAN
    BY RowValues, ResourceRows
  <2>2. FALSE \in BOOLEAN
    OBVIOUS
  <2> QED BY <2>1, <2>2, Zenon
<1> QED BY <1>1, <1>2, <1>3 DEF Resources

\* The rows of the profiles it moves, which others stands for.
MovedAside(others, row, ls) ==
  \A o \in DOMAIN others : /\ o # row /\ \E p \in Profiles : o = Profile(p)
                           /\ others[o] \in [home : Categories, open : BOOLEAN]
                           /\ X(o) \in ls

LEMMA DeletionWritten ==
  ASSUME Sound(db), NEW x \in Holders, NEW row \in {Profile(x), Category(x)}, row \in Rows,
         NEW others,
         NEW w, NEW lk, IsDeletion(x, row, Gone(row), others, w, lk),
         NEW ls, lk \subseteq ls, MovedAside(others, row, ls)
  PROVE  Written(ls, w) /\ DeletionFacts(x, row, Gone(row), others, w, lk)
<1>1. \A o \in DOMAIN others : o[1] = "profiles" /\ o # row
  BY RowNames DEF MovedAside
<1> DEFINE value == Gone(row)
<1> HIDE DEF value
<1>3. DeletionFacts(x, row, value, others, w, lk)
  BY <1>1, Deletion DEF value
<1>2. /\ row \in DOMAIN w /\ w[row] = Gone(row)
      /\ \A r, y : Access(r, y) \in DOMAIN w => r \in Resources /\ y = x /\ w[Access(r, y)] = FALSE
      /\ \A r \in Resources : ResourceRow(r) \in DOMAIN w => w[ResourceRow(r)] = Absent(r)
      /\ \A o \in DOMAIN others : o \in DOMAIN w /\ w[o] = others[o]
      /\ \A o \in DOMAIN w :
           \/ o = row \/ o \in DOMAIN others
           \/ \E r \in Resources : o = Access(r, x) \/ o = ResourceRow(r)
      /\ \A o \in DOMAIN w : o \in DOMAIN others \/ X(o) \in lk
  BY <1>3 DEF DeletionFacts, value
<1>4. Written(ls, w)
  <2> SUFFICES ASSUME NEW o \in DOMAIN w PROVE o \in Rows /\ w[o] \in Values(o) /\ X(o) \in ls
    BY DEF Written
  <2>1. X(o) \in ls
    BY <1>2 DEF MovedAside
  <2>2. CASE o = row
    <3>1. Gone(row) \in Values(row)
      BY RowValues, GoneRows
    <3> QED BY <1>2, <2>1, <2>2, <3>1
  <2>3. CASE o \in DOMAIN others
    BY <1>2, <2>1, <2>3, RowSet, RowValues DEF MovedAside
  <2>4. ASSUME NEW r \in Resources, o = Access(r, x) PROVE o \in Rows /\ w[o] \in Values(o)
    <3>1. w[Access(r, x)] = FALSE
      BY <1>2, <2>4
    <3>2. w[o] \in Values(o)
      BY <2>4, <3>1, FalseIsValue
    <3> QED BY <2>4, <3>2, RowSet
  <2>5. ASSUME NEW r \in Resources, o = ResourceRow(r) PROVE o \in Rows /\ w[o] \in Values(o)
    BY <1>2, <2>5, RowSet, FalseIsValue
  <2> QED BY <1>2, <2>1, <2>2, <2>3, <2>4, <2>5
<1> QED BY <1>3, <1>4 DEF value

LEMMA DeletionGood ==
  ASSUME Sound(db), NEW x \in Holders, NEW row \in {Profile(x), Category(x)}, row \in Rows,
         NEW others,
         NEW w, NEW lk, IsDeletion(x, row, Gone(row), others, w, lk),
         NEW ls, Written(ls, w), MovedAside(others, row, ls),
         HomeHeld(db, ls, w), HomesLive(w @@ db), ArrivalsFit(db, w @@ db),
         NEW actor, ActorHeld(db, actor, ls, w)
  PROVE  Good(db, actor, ls, w)
<1>1. /\ row[1] \in {"profiles", "access_categories"}
      /\ \A o \in DOMAIN others : o[1] = "profiles" /\ o # row
  BY RowNames DEF MovedAside
<1> DEFINE value == Gone(row)
<1> HIDE DEF value
<1>6. DeletionFacts(x, row, value, others, w, lk)
  BY <1>1, Deletion DEF value
<1>7. row \in DOMAIN w /\ w[row] = Gone(row)
  BY <1>6 DEF DeletionFacts, value
<1>2. /\ \A r \in Resources : db[Access(r, x)] => Access(r, x) \in DOMAIN w
      /\ \A r, y : Access(r, y) \in DOMAIN w => w[Access(r, y)] = FALSE
      /\ \A r \in Resources : ResourceRow(r) \in DOMAIN w =>
           /\ w[ResourceRow(r)] = Absent(r)
           /\ \A y \in Holders : db[Access(r, y)] => y = x
      /\ \A o \in DOMAIN others : o \in DOMAIN w /\ w[o] = others[o]
      /\ \A o \in DOMAIN w :
           \/ o = row \/ o \in DOMAIN others
           \/ \E r \in Resources : o = Access(r, x) \/ o = ResourceRow(r)
  BY <1>6 DEF DeletionFacts
<1>3. Plain(w)
  <2>1. \A r \in Resources, y \in Holders : ~Gives(w, r, y)
    BY <1>2, Zenon DEF Gives
  <2>2. ASSUME NEW a \in Addons, Addon(a) \in DOMAIN w PROVE w[Addon(a)] = None
    BY <1>2, <2>2, ResourceRows DEF Resources
  <2> QED BY <2>1, <2>2 DEF Plain
<1>4. \A u \in Users : User(u) \notin DOMAIN w
  <2>1. \A o \in DOMAIN w : o[1] # "users"
    BY <1>1, <1>2, RowNames, ResourceRows
  <2> QED BY <2>1, RowNames
<1>5. Cascades(db, w)
  <2> SUFFICES ASSUME NEW r \in Resources, NEW y \in Holders, db[Access(r, y)],
                      NEW z \in {ResourceRow(r), Profile(y), Category(y)}, Deletes(w, z)
               PROVE  y = x
    BY <1>2 DEF Cascades
  <2>1. CASE z = ResourceRow(r)
    BY <1>2, <2>1 DEF Deletes
  <2>2. CASE z = Profile(y)
    <3>1. z \notin DOMAIN others
      BY <1>2, <2>2, GoneRows, HouseholdAssumption DEF Deletes, MovedAside
    <3>2. z = row
      BY <1>2, <2>2, <3>1, RowNames, ResourceRows DEF Deletes
    <3> QED BY <2>2, <3>2, HolderRows
  <2>3. CASE z = Category(y)
    <3>1. z = row
      BY <1>1, <1>2, <2>3, RowNames, ResourceRows DEF Deletes
    <3> QED BY <2>3, <3>1, HolderRows
  <2> QED BY <2>1, <2>2, <2>3
<1> QED BY <1>3, <1>4, <1>5, PlainGood

LEMMA DeleteProfileGood ==
  ASSUME HouseholdInv, NEW t \in Txs, NEW u \in Users \cup {None}, NEW p \in Profiles, DeleteProfile(t, u, p)
  PROVE  HouseholdInv'
<1> DEFINE row == Profile(p)
           w == DeleteHolder(p, row, None, <<>>).writes
           lk == DeleteHolder(p, row, None, <<>>).locks
           ls == {X(ProfileTable)} \cup lk
<1>1. Hold(t, u, ls, w)
  BY DEF DeleteProfile
<1>2. IsDeletion(p, row, None, <<>>, w, lk)
  BY DEF IsDeletion
<1>3. lk \subseteq ls
  OBVIOUS
<1> HIDE DEF w, lk, ls
<1>4. Sound(db) /\ p \in Holders /\ row \in Rows /\ row \in {Profile(p), Category(p)}
  BY RowSet DEF HouseholdInv, Holders
<1>5. Gone(row) = None
  BY GoneRows
<1>6. DOMAIN <<>> = {}
  OBVIOUS
<1> DEFINE others == <<>>
<1>7. MovedAside(others, row, ls) /\ DOMAIN others = {} /\ IsDeletion(p, row, Gone(row), others, w, lk)
  BY <1>2, <1>5, <1>6 DEF MovedAside
<1> HIDE DEF others
<1> HIDE DEF row
<1>17. Written(ls, w) /\ DeletionFacts(p, row, Gone(row), others, w, lk)
  BY <1>3, <1>4, <1>7, DeletionWritten
<1>8. /\ Written(ls, w)
      /\ row \in DOMAIN w /\ w[row] = Gone(row)
      /\ \A o \in DOMAIN w : o = row \/ \E r \in Resources : o = Access(r, p) \/ o = ResourceRow(r)
  BY <1>7, <1>17 DEF DeletionFacts
<1>9. /\ \A q \in Profiles : Profile(q) \in DOMAIN w => q = p
      /\ \A c \in Categories : Category(c) \notin DOMAIN w
  BY <1>8, RowNames, ResourceRows DEF row
<1>10. HomeHeld(db, ls, w)
  BY <1>5, <1>8, <1>9 DEF HomeHeld, row
<1> DEFINE e == w @@ db
<1>11. \A o \in Rows : e[o] = IF o \in DOMAIN w THEN w[o] ELSE db[o]
  BY <1>4, <1>8, ViewRows DEF Sound, WellFormed
<1> HIDE DEF e
<1>12. ASSUME NEW q \in Profiles, Exists(e, q) PROVE Exists(db, q) /\ Home(e, q) = Home(db, q)
  BY <1>5, <1>8, <1>9, <1>11, <1>12, RowSet DEF Exists, Home, row
<1>13. HomesLive(e)
  <2> SUFFICES ASSUME NEW q \in Profiles, Exists(e, q) PROVE Lives(e, Home(e, q))
    BY DEF HomesLive
  <2>1. Home(db, q) \in Categories /\ Lives(db, Home(db, q)) /\ Home(e, q) = Home(db, q)
    BY <1>4, <1>12, RowSet, RowValues DEF Sound, WellFormed, Exists, Home
  <2> QED BY <1>9, <1>11, <2>1, RowSet DEF Lives
<1>14. ArrivalsFit(db, e)
  BY <1>12 DEF ArrivalsFit
<1>15. ActorHeld(db, u, ls, w)
  <2>1. \A q \in Profiles : Profile(q) \in DOMAIN w => w[Profile(q)] = None
    BY <1>5, <1>8, <1>9 DEF row
  <2>2. \A a \in Addons : Addon(a) \in DOMAIN w => w[Addon(a)] = None
    BY <1>17, ResourceRows DEF DeletionFacts, Resources
  <2>3. \A r \in Resources, c \in Categories : Access(r, c) \notin DOMAIN w
    BY <1>17, HouseholdAssumption DEF DeletionFacts
  <2>4. Harmless(db, u, ls, w)
    BY <1>9, <2>1, <2>2, <2>3 DEF Harmless
  <2> QED BY <2>4 DEF ActorHeld
<1>16. Good(db, u, ls, w)
  BY <1>4, <1>7, <1>8, <1>10, <1>13, <1>14, <1>15, DeletionGood DEF e
<1> QED BY <1>1, <1>16, HoldKeeps

LEMMA DeleteCategoryGood ==
  ASSUME HouseholdInv, NEW t \in Txs, NEW u \in Users, NEW c \in Categories,
         NEW destination \in (Categories \ {c}) \cup {None}, DeleteCategory(t, u, c, destination)
  PROVE  HouseholdInv'
<1> DEFINE row == Category(c)
           members == Members(db, c)
           moved == IF destination = None THEN <<>> ELSE Moved(members, destination)
           w == DeleteHolder(c, row, "absent", moved).writes
           lk == DeleteHolder(c, row, "absent", moved).locks
           ls == {S(User(u)), X(CategoryTable)} \cup lk \cup XAll({Profile(p) : p \in members})
                   \cup (IF destination = None THEN {} ELSE {X(Category(destination)), S(ProfileTable)})
<1>1. /\ Hold(t, u, ls, w) /\ u \in Admins(db)
      /\ IF destination = None THEN members = {} ELSE Lives(db, destination) /\ MoveFits(moved @@ db, members)
  BY DEF DeleteCategory
<1>2. IsDeletion(c, row, "absent", moved, w, lk)
  BY DEF IsDeletion
<1>3. /\ lk \subseteq ls /\ S(User(u)) \in ls
      /\ \A p \in members : X(Profile(p)) \in ls
      /\ destination # None => X(Category(destination)) \in ls
  BY DEF XAll
<1> HIDE DEF w, lk, ls
<1>4. /\ Sound(db) /\ c \in Holders /\ row \in Rows /\ row \in {Profile(c), Category(c)}
      /\ \A o \in Rows : db[o] \in Values(o)
  BY RowSet DEF HouseholdInv, Holders, Sound, WellFormed
<1>5. Gone(row) = "absent"
  BY GoneRows
<1>6. /\ members \in SUBSET Profiles
      /\ \A p \in members : Exists(db, p) /\ Home(db, p) = c
      /\ \A p \in Profiles : Exists(db, p) /\ Home(db, p) = c => p \in members
  BY DEF Members
<1>7. ASSUME destination # None PROVE destination \in Categories /\ destination # c
  BY <1>7
<1> HIDE DEF members
<1>8. /\ DOMAIN moved = {Profile(p) : p \in members}
      /\ \A p \in members : /\ moved[Profile(p)] \in [home : Categories, open : BOOLEAN]
                            /\ moved[Profile(p)].home = destination /\ destination # None
  <2>1. CASE destination = None
    <3>1. DOMAIN moved = {} /\ members = {}
      BY <1>1, <2>1
    <3> QED BY <3>1
  <2>2. CASE destination # None
    <3>1. moved = Moved(members, destination)
      BY <2>2
    <3>2. destination \in Categories /\ \A p \in members : Exists(db, p)
      BY <1>6, <1>7, <2>2
    <3>3. /\ DOMAIN Moved(members, destination) = {Profile(p) : p \in members}
          /\ \A p \in members : /\ Moved(members, destination)[Profile(p)] \in [home : Categories, open : BOOLEAN]
                                /\ Moved(members, destination)[Profile(p)].home = destination
      BY <1>4, <1>6, <3>2, MovedRows
    <3> HIDE DEF moved
    <3> QED BY <2>2, <3>1, <3>3
  <2> QED BY <2>1, <2>2
<1> HIDE DEF moved
<1>9. MovedAside(moved, row, ls) /\ IsDeletion(c, row, Gone(row), moved, w, lk)
  BY <1>2, <1>3, <1>5, <1>6, <1>8, RowNames DEF MovedAside
<1>21. row = Category(c)
  OBVIOUS
<1> HIDE DEF row
<1>22. Written(ls, w) /\ DeletionFacts(c, row, Gone(row), moved, w, lk)
  BY <1>3, <1>4, <1>9, DeletionWritten
<1>10. /\ Written(ls, w)
       /\ row \in DOMAIN w /\ w[row] = Gone(row)
       /\ \A o \in DOMAIN moved : o \in DOMAIN w /\ w[o] = moved[o]
       /\ \A o \in DOMAIN w : \/ o = row \/ o \in DOMAIN moved
                              \/ \E r \in Resources : o = Access(r, c) \/ o = ResourceRow(r)
  BY <1>22 DEF DeletionFacts
<1>11. /\ \A p \in Profiles : Profile(p) \in DOMAIN w <=> p \in members
       /\ \A p \in members : w[Profile(p)] # None /\ w[Profile(p)].home = destination
       /\ \A d \in Categories : Category(d) \in DOMAIN w => d = c
  <2>1. \A p \in Profiles : Profile(p) \in DOMAIN w <=> p \in members
    BY <1>6, <1>8, <1>10, <1>21, RowNames, ResourceRows
  <2>2. \A p \in members : w[Profile(p)] # None /\ w[Profile(p)].home = destination
    BY <1>8, <1>10, HouseholdAssumption
  <2>3. \A d \in Categories : Category(d) \in DOMAIN w => d = c
    BY <1>8, <1>10, <1>21, RowNames, ResourceRows
  <2> QED BY <2>1, <2>2, <2>3
<1>12. HomeHeld(db, ls, w)
  BY <1>3, <1>8, <1>11 DEF HomeHeld, Locked
<1> DEFINE e == w @@ db
           f == moved @@ db
<1>13. /\ \A o \in Rows : e[o] = IF o \in DOMAIN w THEN w[o] ELSE db[o]
       /\ DOMAIN e = Rows
  BY <1>4, <1>10, ViewRows DEF Sound, WellFormed
<1>14. \A o \in Rows : f[o] = IF o \in DOMAIN moved THEN moved[o] ELSE db[o]
  BY <1>4 DEF @@, Sound, WellFormed
<1>15. IF destination = None THEN members = {} ELSE Lives(db, destination) /\ MoveFits(f, members)
  BY <1>1
<1> HIDE DEF e, f
<1>16. ASSUME NEW p \in Profiles, Exists(e, p)
       PROVE  IF p \in members THEN destination # None /\ Home(e, p) = destination
              ELSE Exists(db, p) /\ Home(e, p) = Home(db, p) /\ Home(db, p) # c
  BY <1>6, <1>8, <1>11, <1>13, <1>16, RowSet DEF Exists, Home
<1>17. HomesLive(e)
  <2> SUFFICES ASSUME NEW p \in Profiles, Exists(e, p) PROVE Lives(e, Home(e, p))
    BY DEF HomesLive
  <2>1. Home(e, p) \in Categories /\ Home(e, p) # c /\ Lives(db, Home(e, p))
    <3>1. CASE p \in members
      BY <1>7, <1>15, <1>16, <3>1
    <3>2. CASE p \notin members
      BY <1>4, <1>16, <3>2, RowSet, RowValues DEF Sound, WellFormed, Exists, Home
    <3> QED BY <3>1, <3>2
  <2> QED BY <1>11, <1>13, <2>1, RowSet DEF Lives
<1>18. ArrivalsFit(db, e)
  <2> SUFFICES ASSUME NEW p \in members, Exists(e, p) PROVE ~DuplicateTransport(e, p) /\ ~OverLimit(e, p)
    BY <1>6, <1>16 DEF ArrivalsFit
  <2>1. /\ p \in Profiles /\ destination # None /\ destination \in Categories
        /\ Home(e, p) = destination /\ Profile(p) \in DOMAIN moved
    BY <1>6, <1>7, <1>8, <1>16
  <2>2. Home(f, p) = destination
    BY <1>8, <1>14, <2>1, RowSet DEF Home
  <2>3. ~DuplicateTransport(f, p) /\ ~OverLimit(f, p)
    BY <1>15, <2>1 DEF MoveFits
  <2>4. ASSUME NEW r \in Resources, NEW x \in {p, destination}, e[Access(r, x)] PROVE f[Access(r, x)]
    <3>1. x \in Holders /\ Access(r, x) \in Rows
      BY <2>1, RowSet DEF Holders
    <3>2. Access(r, x) \notin DOMAIN moved
      BY <1>8, RowNames
    <3>3. db[Access(r, x)]
      <4>1. Access(r, x) \notin DOMAIN w
        <5>1. x # c
          BY <1>7, <2>1, HouseholdAssumption
        <5> QED BY <1>8, <1>10, <1>21, <5>1, RowNames, ResourceRows
      <4> QED BY <1>13, <2>4, <3>1, <4>1
    <3> QED BY <1>14, <3>1, <3>2, <3>3
  <2>5. Effective(e, p) \subseteq Effective(f, p)
    BY <2>1, <2>2, <2>4 DEF Effective
  <2>6. ASSUME NEW a \in Effective(e, p) \cap Addons PROVE e[Addon(a)] = f[Addon(a)]
    <3>1. PICK x \in {p, destination} : e[Access(a, x)]
      BY <2>1 DEF Effective
    <3>2. /\ a \in Resources /\ x \in Holders /\ Addon(a) \in Rows /\ Access(a, x) \in Rows
          /\ x # c
      BY <1>7, <2>1, RowSet, HouseholdAssumption DEF Resources, Holders
    <3>3. Addon(a) \notin DOMAIN moved
      BY <1>8, RowNames
    <3>4. db[Access(a, x)]
      <4>1. Access(a, x) \notin DOMAIN w
        BY <1>8, <1>10, <1>21, <3>2, RowNames, ResourceRows
      <4> QED BY <1>13, <3>1, <3>2, <4>1
    <3>5. Addon(a) \notin DOMAIN w
      BY <1>22, <3>2, <3>4, ResourceRows DEF DeletionFacts
    <3> QED BY <1>13, <1>14, <3>2, <3>3, <3>5
  <2> QED BY <2>3, <2>5, <2>6, FewerSeen
<1>19. ActorHeld(db, u, ls, w)
  BY <1>1, <1>3 DEF ActorHeld, Rightful
<1>20. Good(db, u, ls, w)
  BY <1>4, <1>9, <1>10, <1>12, <1>17, <1>18, <1>19, DeletionGood DEF e
<1> QED BY <1>1, <1>20, HoldKeeps

-----------------------------------------------------------------------------
(* Users.                                                                   *)

LEMMA UserRowGood ==
  ASSUME HouseholdInv, NEW u \in Users, NEW role \in {"admin", "user", None},
         NEW ls, X(User(u)) \in ls,
         X(UserTable) \in ls \/ (S(UserTable) \in ls /\ db[User(u)] # "admin"),
         NEW w, w = User(u) :> role,
         role = "admin" \/ u \notin Admins(db) \/ Admins(db) \ {u} # {}, NEW actor
  PROVE  Good(db, actor, ls, w)
<1>1. DOMAIN w = {User(u)} /\ w[User(u)] = role
  BY Single
<1>2. Sound(db)
  BY DEF HouseholdInv
<1>3. Written(ls, w)
  BY <1>1, RowSet, RowValues DEF Written
<1>4. /\ Plain(w)
      /\ \A p \in Profiles : Profile(p) \notin DOMAIN w
      /\ \A c \in Categories : Category(c) \notin DOMAIN w
  BY <1>1, RowNames DEF Plain, Gives
<1>5. HomeHeld(db, ls, w)
  BY <1>4 DEF HomeHeld
<1>6. UserHeld(db, ls, w)
  BY <1>1, RowNames DEF UserHeld
<1>7. Cascades(db, w)
  <2>1. \A row \in DOMAIN w : row[1] = "users"
    BY <1>1, RowNames
  <2> QED BY <2>1, RowNames, ResourceRows DEF Cascades, Deletes
<1> DEFINE e == w @@ db
<1>8. \A row \in Rows : e[row] = IF row \in DOMAIN w THEN w[row] ELSE db[row]
  BY <1>2, <1>3, ViewRows DEF Sound, WellFormed
<1> HIDE DEF e
<1>9. \A p \in Profiles : (Exists(e, p) <=> Exists(db, p)) /\ Home(e, p) = Home(db, p)
  BY <1>4, <1>8, RowSet DEF Exists, Home
<1>10. HomesLive(e)
  <2> SUFFICES ASSUME NEW p \in Profiles, Exists(db, p) PROVE Lives(e, Home(db, p))
    BY <1>9 DEF HomesLive
  <2>1. Home(db, p) \in Categories /\ Lives(db, Home(db, p))
    BY <1>2, RowSet, RowValues DEF Sound, WellFormed, Exists, Home
  <2> QED BY <1>4, <1>8, <2>1, RowSet DEF Lives
<1>11. ArrivalsFit(db, e)
  BY <1>9 DEF ArrivalsFit
<1>12. WellFormed(e) /\ WithinLimits(e)
  BY <1>2, <1>3, <1>4, <1>7, <1>10, <1>11, KeysAfter, LimitsAfter DEF e
<1>13. Admins(e) # {}
  <2>1. \A v \in Users : v # u => e[User(v)] = db[User(v)]
    BY <1>1, <1>8, RowSet, RowNames
  <2>2. e[User(u)] = role
    BY <1>1, <1>8, RowSet
  <2>3. CASE role = "admin"
    BY <2>2, <2>3 DEF Admins
  <2>4. CASE Admins(db) \ {u} # {}
    BY <2>1, <2>4 DEF Admins
  <2>5. CASE u \notin Admins(db)
    BY <1>2, <2>1, <2>5 DEF Admins, Sound
  <2> QED BY <2>3, <2>4, <2>5
<1>14. AssignmentHeld(db, ls, w) /\ AddonHeld(db, ls, w) /\ CollectionHeld(db, ls, w)
  BY <1>4 DEF Plain, AssignmentHeld, AddonHeld, CollectionHeld, Resources, Holders
<1>15. ActorHeld(db, actor, ls, w)
  <2>1. \A row \in DOMAIN w : row[1] = "users"
    BY <1>1, RowNames
  <2>2. Harmless(db, actor, ls, w)
    BY <1>4, <2>1, RowNames DEF Harmless
  <2> QED BY <2>2 DEF ActorHeld
<1> QED BY <1>3, <1>5, <1>6, <1>12, <1>13, <1>14, <1>15 DEF Good, Held, Sound, e

LEMMA UpdateUserGood ==
  ASSUME HouseholdInv, NEW t \in Txs, NEW who \in Users, NEW u \in Users, NEW role \in {"admin", "user"}, UpdateUser(t, who, u, role)
  PROVE  HouseholdInv'
<1> DEFINE ls == {X(UserTable), X(User(u))}
           w == User(u) :> role
<1>1. Good(db, who, ls, w)
  BY UserRowGood DEF UpdateUser, AnotherAdmin
<1> QED BY <1>1, HoldKeeps DEF UpdateUser

LEMMA DeleteUserGood ==
  ASSUME HouseholdInv, NEW t \in Txs, NEW who \in Users, NEW u \in Users, DeleteUser(t, who, u)
  PROVE  HouseholdInv'
<1> DEFINE ls == {X(UserTable), X(User(u))}
           w == User(u) :> None
<1>1. Good(db, who, ls, w)
  BY UserRowGood DEF DeleteUser, AnotherAdmin
<1> QED BY <1>1, HoldKeeps DEF DeleteUser

\* A name is taken by one of two that would make it: what the second writes was nobody's.
LEMMA CreateUserGood ==
  ASSUME HouseholdInv, NEW t \in Txs, NEW who \in Users, NEW u \in Users, NEW role \in {"admin", "user"}, CreateUser(t, who, u, role)
  PROVE  HouseholdInv'
<1> DEFINE ls == {S(UserTable), X(User(u))}
           w == User(u) :> role
<1>1. db[User(u)] # "admin"
  BY HouseholdAssumption DEF CreateUser
<1>2. Good(db, who, ls, w)
  BY <1>1, UserRowGood DEF Admins
<1> QED BY <1>2, HoldKeeps DEF CreateUser

-----------------------------------------------------------------------------
(* Assignments.                                                             *)

\* The resource r is written and assigned to hs, and to nothing else.
IsGrant(w, r, value, hs) ==
  /\ DOMAIN w = {ResourceRow(r)} \cup {Access(r, x) : x \in Holders}
  /\ w[ResourceRow(r)] = value
  /\ \A x \in Holders : w[Access(r, x)] \in BOOLEAN /\ (w[Access(r, x)] <=> x \in hs)

IsOver(w, row, value, f) ==
  /\ DOMAIN w = {row} \cup DOMAIN f
  /\ w[row] = value
  /\ \A g \in DOMAIN f : g # row => w[g] = f[g]

LEMMA RowOver ==
  ASSUME NEW row, NEW value, NEW f
  PROVE  IsOver((row :> value) @@ f, row, value, f)
<1> DEFINE w1 == row :> value
           w == w1 @@ f
<1>1. DOMAIN w1 = {row} /\ w1[row] = value
  BY Single
<1>2. w = w1 @@ f
  OBVIOUS
<1> HIDE DEF w1, w
<1>3. DOMAIN w = {row} \cup DOMAIN f
  BY <1>1, <1>2 DEF @@
<1>4. w[row] = value
  BY <1>1, <1>2, Zenon DEF @@
<1>5. ASSUME NEW g \in DOMAIN f, g # row PROVE w[g] = f[g]
  <2>1. w[g] = IF g \in DOMAIN w1 THEN w1[g] ELSE f[g]
    BY <1>2 DEF @@
  <2> QED BY <1>1, <1>5, <2>1, Zenon
<1> QED BY <1>3, <1>4, <1>5 DEF IsOver, w, w1

LEMMA GrantWrites ==
  ASSUME NEW r \in Resources, NEW value, NEW hs, NEW row, row = ResourceRow(r),
         NEW w, w = (row :> value) @@ [g \in AccessRows({r}, Holders) |-> g[3] \in hs]
  PROVE  IsGrant(w, r, value, hs)
<1> DEFINE f == [g \in AccessRows({r}, Holders) |-> g[3] \in hs]
<1>1. /\ DOMAIN f = {Access(r, x) : x \in Holders}
      /\ \A x \in Holders : f[Access(r, x)] \in BOOLEAN /\ (f[Access(r, x)] <=> x \in hs)
  <2>1. AccessRows({r}, Holders) = {Access(r, x) : x \in Holders}
    BY DEF AccessRows
  <2>2. ASSUME NEW x \in Holders PROVE f[Access(r, x)] \in BOOLEAN /\ (f[Access(r, x)] <=> x \in hs)
    <3>1. Access(r, x) \in AccessRows({r}, Holders)
      BY <2>1
    <3>2. f \in [AccessRows({r}, Holders) -> BOOLEAN]
      OBVIOUS
    <3> DEFINE g0 == Access(r, x)
    <3>5. g0[3] = x
      BY RowNames
    <3> HIDE DEF g0
    <3>6. ASSUME g0 \in AccessRows({r}, Holders) PROVE f[g0] <=> g0[3] \in hs
      BY <3>6
    <3>3. f[Access(r, x)] <=> x \in hs
      BY <3>1, <3>5, <3>6 DEF g0
    <3> HIDE DEF f
    <3>4. f[Access(r, x)] \in BOOLEAN
      BY <3>1, <3>2
    <3> QED BY <3>3, <3>4
  <2> QED BY <2>1, <2>2
<1>2. w = (row :> value) @@ f
  OBVIOUS
<1> HIDE DEF f
<1>3. \A x \in Holders : Access(r, x) # row
  BY RowNames, ResourceRows
<1>8. IsOver(w, row, value, f)
  BY <1>2, RowOver
<1>4. /\ DOMAIN w = {row} \cup DOMAIN f
      /\ w[row] = value
      /\ \A g \in DOMAIN f : g # row => w[g] = f[g]
  BY <1>8 DEF IsOver
<1>5. \A x \in Holders : w[Access(r, x)] = f[Access(r, x)]
  BY <1>1, <1>3, <1>4, Zenon
<1>6. \A x \in Holders : w[Access(r, x)] \in BOOLEAN /\ (w[Access(r, x)] <=> x \in hs)
  BY <1>1, <1>5
<1>7. DOMAIN w = {ResourceRow(r)} \cup {Access(r, x) : x \in Holders} /\ w[ResourceRow(r)] = value
  BY <1>1, <1>4, Zenon
<1> QED BY <1>6, <1>7 DEF IsGrant

\* What such writes leave, apart from the limits.
LEMMA GrantView ==
  ASSUME Sound(db), NEW r \in Resources, NEW value, value \in Values(ResourceRow(r)),
         NEW hs \in SUBSET Holders, hs # {} => value # Absent(r),
         \A p \in hs \cap Profiles : Exists(db, p), \A c \in hs \cap Categories : Lives(db, c),
         NEW w, IsGrant(w, r, value, hs), NEW ls, X(ResourceRow(r)) \in ls
  PROVE  /\ Written(ls, w) /\ HomeHeld(db, ls, w) /\ UserHeld(db, ls, w)
         /\ WellFormed(w @@ db) /\ Admins(w @@ db) # {}
<1> DEFINE row == ResourceRow(r)
<1>1. /\ DOMAIN w = {row} \cup {Access(r, x) : x \in Holders}
      /\ w[row] = value
      /\ \A x \in Holders : w[Access(r, x)] \in BOOLEAN /\ (w[Access(r, x)] <=> x \in hs)
  BY DEF IsGrant
<1>2. row[1] \in {"profile_addons", "profile_collections"} /\ row \in Rows
  BY RowSet, ResourceRows
<1>3. Written(ls, w)
  <2>1. ASSUME NEW x \in Holders PROVE Access(r, x) \in Rows /\ w[Access(r, x)] \in Values(Access(r, x))
    <3>1. Values(Access(r, x)) = BOOLEAN
      BY RowValues
    <3> QED BY <1>1, <3>1, RowSet
  <2> QED BY <1>1, <1>2, <2>1, RowNames DEF Written
<1>4. /\ \A p \in Profiles : Profile(p) \notin DOMAIN w
      /\ \A c \in Categories : Category(c) \notin DOMAIN w
      /\ \A u \in Users : User(u) \notin DOMAIN w
  <2> HIDE DEF row
  <2> QED BY <1>1, <1>2, RowNames
<1>5. HomeHeld(db, ls, w)
  BY <1>4 DEF HomeHeld
<1>6. Admins(w @@ db) # {} /\ UserHeld(db, ls, w)
  BY <1>3, <1>4, RolesKept
<1> DEFINE e == w @@ db
<1>7. /\ \A o \in Rows : e[o] = IF o \in DOMAIN w THEN w[o] ELSE db[o]
      /\ \A o \in Rows : e[o] \in Values(o)
      /\ DOMAIN e = Rows
  BY <1>3, ViewRows DEF Sound, WellFormed
<1> HIDE DEF e
<1>8. /\ \A p \in Profiles : e[Profile(p)] = db[Profile(p)]
      /\ \A c \in Categories : e[Category(c)] = db[Category(c)]
  BY <1>4, <1>7, RowSet
<1>9. ASSUME NEW p \in Profiles, Exists(e, p) PROVE Lives(e, Home(e, p))
  <2>1. Exists(db, p) /\ Home(e, p) = Home(db, p)
    BY <1>8, <1>9 DEF Exists, Home
  <2>2. Home(db, p) \in Categories /\ Lives(db, Home(db, p))
    BY <2>1, RowSet, RowValues DEF Sound, WellFormed, Exists, Home
  <2> QED BY <1>8, <2>1, <2>2 DEF Lives
<1>10. ASSUME NEW s \in Resources, NEW x \in Holders, e[Access(s, x)]
       PROVE  e[ResourceRow(s)] # Absent(s) /\ IF x \in Profiles THEN Exists(e, x) ELSE Lives(e, x)
  <2>1. CASE s = r
    <3>1. x \in hs
      BY <1>1, <1>7, <1>10, <2>1, RowSet
    <3>2. e[row] = value
      BY <1>1, <1>2, <1>7
    <3> QED BY <1>8, <2>1, <3>1, <3>2 DEF Exists, Lives, Holders
  <2>2. CASE s # r
    <3>1. Access(s, x) \notin DOMAIN w /\ ResourceRow(s) \notin DOMAIN w
      BY <1>1, <2>2, RowNames, ResourceRows
    <3>2. e[Access(s, x)] = db[Access(s, x)] /\ e[ResourceRow(s)] = db[ResourceRow(s)]
      BY <1>7, <3>1, RowSet
    <3>3. db[ResourceRow(s)] # Absent(s) /\ IF x \in Profiles THEN Exists(db, x) ELSE Lives(db, x)
      BY <1>10, <3>2 DEF Sound, WellFormed
    <3> QED BY <1>8, <3>2, <3>3 DEF Exists, Lives, Holders
  <2> QED BY <2>1, <2>2
<1>11. WellFormed(e)
  BY <1>7, <1>9, <1>10 DEF WellFormed
<1> QED BY <1>3, <1>5, <1>6, <1>11 DEF e

-----------------------------------------------------------------------------
(* Add-ons.                                                                 *)

LEMMA CallFields ==
  ASSUME NEW call \in AddonCalls
  PROVE  /\ call.kind \in {"install", "update", "remove"} /\ call.a \in Addons /\ call.q \in Profiles
         /\ call.holders \in SUBSET Holders /\ call.transport \in Transports \cup {None}
         /\ call.kind = "install" => call.transport # None
<1> DEFINE kinds == {"install", "update", "remove"}
           holders == SUBSET (Profiles \cup Categories)
           transports == Transports \cup {None}
<1>1. call \in [kind : kinds, a : Addons, q : Profiles, holders : holders, transport : transports]
  BY HouseholdAssumption
<1> HIDE DEF kinds, holders, transports
<1>2. call.kind \in kinds /\ call.a \in Addons /\ call.q \in Profiles /\ call.holders \in holders /\ call.transport \in transports
  BY <1>1
<1>3. call.kind = "install" => call.transport # None
  BY HouseholdAssumption
<1> QED BY <1>2, <1>3 DEF kinds, holders, transports, Holders

AddonActor(t) == IF NeedsAdmin(t) THEN tx[t].actor ELSE None

\* What a call for an add-on has locked and found, once it is authorized: the categories of the
\* profiles it assigns the add-on to are those it read, and locked.
LEMMA AddonLocked ==
  ASSUME HouseholdInv, NEW t \in Txs, AddonAuthorized(t), NEW call, call = tx[t].call, NEW ls, ls = AddonLocks(t)
  PROVE  /\ call \in AddonCalls
         /\ X(Addon(call.a)) \in ls
         /\ \A c \in call.holders \cap Categories : X(Category(c)) \in ls /\ Lives(db, c)
         /\ \A p \in call.holders \cap Profiles :
              S(Profile(p)) \in ls /\ Exists(db, p) /\ X(Category(Home(db, p))) \in ls
         /\ NeedsAdmin(t) => Rightful(db, AddonActor(t), ls)
         /\ Assigned(db, call.a) = tx[t].snap
<1> DEFINE snap == tx[t].snap
           homes == tx[t].homes
           ps == Concerned(call, snap)
<1>1. call \in AddonCalls
  BY DEF HouseholdInv, Shape, AddonAuthorized
<1>2. /\ \A c \in (call.holders \cap Categories) \cup homes : X(Category(c)) \in ls
      /\ \A p \in ps : S(Profile(p)) \in ls
      /\ X(Addon(call.a)) \in ls /\ S(User(tx[t].actor)) \in ls
  BY DEF AddonLocks, XAll, SAll
<1>3. /\ \A c \in (call.holders \cap Categories) : Lives(db, c)
      /\ \A p \in ps : Exists(db, p)
      /\ NeedsAdmin(t) => tx[t].actor \in Admins(db)
      /\ HomesOf(db, ps) = homes /\ Assigned(db, call.a) = snap
  BY DEF AddonAuthorized, Unchanged
<1>4. call.holders \cap Profiles \subseteq ps
  BY DEF Concerned
<1>5. \A p \in ps : Home(db, p) \in homes
  BY <1>3 DEF HomesOf
<1>6. NeedsAdmin(t) => Rightful(db, AddonActor(t), ls)
  BY <1>2, <1>3 DEF Rightful, AddonActor
<1> QED BY <1>1, <1>2, <1>3, <1>4, <1>5, <1>6

\* What is given to profiles alone, and was given to profiles alone, with the transport it had.
LEMMA GrantHarmless ==
  ASSUME NEW r \in Resources, NEW value, NEW hs, NEW w, IsGrant(w, r, value, hs),
         r \in Addons => value \in {None, db[Addon(r)]},
         NEW ls, X(ResourceRow(r)) \in ls,
         hs \cap Categories = {}, Assigned(db, r) \cap Categories = {}, NEW actor
  PROVE  Harmless(db, actor, ls, w)
<1>1. /\ DOMAIN w = {ResourceRow(r)} \cup {Access(r, x) : x \in Holders}
      /\ w[ResourceRow(r)] = value
      /\ \A x \in Holders : w[Access(r, x)] <=> x \in hs
  BY DEF IsGrant
<1>2. ResourceRow(r)[1] \in {"profile_addons", "profile_collections"} /\ ResourceRow(r)[2] = r
  BY ResourceRows
<1>3. /\ \A p \in Profiles : Profile(p) \notin DOMAIN w
      /\ \A c \in Categories : Category(c) \notin DOMAIN w
  BY <1>1, <1>2, RowNames
<1>4. ASSUME NEW a \in Addons, Addon(a) \in DOMAIN w PROVE w[Addon(a)] \in {None, db[Addon(a)]}
  <2>1. Addon(a) = ResourceRow(r) /\ a = r
    BY <1>1, <1>2, <1>4, RowNames
  <2> QED BY <1>1, <2>1
<1>5. ASSUME NEW s \in Resources, NEW c \in Categories, Access(s, c) \in DOMAIN w
      PROVE  ~w[Access(s, c)] /\ ~db[Access(s, c)] /\ X(ResourceRow(s)) \in ls
  <2>1. s = r
    BY <1>1, <1>2, <1>5, RowNames
  <2>2. c \in Holders /\ c \notin hs /\ c \notin Assigned(db, r)
    BY DEF Holders
  <2> QED BY <1>1, <2>1, <2>2 DEF Assigned
<1> QED BY <1>3, <1>4, <1>5 DEF Harmless

LEMMA AddonWritten ==
  ASSUME NEW a \in Addons, NEW url, NEW hs
  PROVE  IsGrant(AddonWrites(a, url, hs), a, url, hs)
<1>1. a \in Resources /\ Addon(a) = ResourceRow(a)
  BY ResourceRows DEF Resources
<1> QED BY <1>1, GrantWrites DEF AddonWrites

LEMMA ReachedApart ==
  ASSUME NEW a, NEW url, NEW hs, ~TransportAssigned(url, hs, a), NEW b \in Addons \ {a}, db[Addon(b)] = url,
         NEW p \in Profiles, Home(db, p) \in Holders, db[Access(b, p)] \/ db[Access(b, Home(db, p))]
  PROVE  p \notin hs /\ Home(db, p) \notin hs
<1>1. Assigned(db, b) \cap hs = {}
  BY DEF TransportAssigned
<1>2. \A q \in hs \cap Profiles : ~db[Access(b, Home(db, q))]
  BY DEF TransportAssigned
<1>3. \A q \in Assigned(db, b) \cap Profiles : Home(db, q) \notin hs
  BY DEF TransportAssigned
<1>4. p \in Holders
  BY DEF Holders
<1>5. CASE db[Access(b, p)]
  BY <1>1, <1>3, <1>4, <1>5 DEF Assigned
<1>6. CASE db[Access(b, Home(db, p))]
  BY <1>1, <1>2, <1>6 DEF Assigned
<1> QED BY <1>5, <1>6

\* No other add-on of the transport reaches a profile that the add-on now reaches.
LEMMA TransportApart ==
  ASSUME Sound(db), NEW a \in Addons, NEW url, NEW hs \in SUBSET Holders, ~TransportAssigned(url, hs, a),
         NEW e, NEW p \in Profiles, Exists(db, p), Home(e, p) = Home(db, p),
         \A b \in Addons \ {a} : /\ e[Addon(b)] = db[Addon(b)]
                                 /\ \A x \in Holders : e[Access(b, x)] = db[Access(b, x)],
         e[Addon(a)] = url, \A x \in Holders : e[Access(a, x)] => x \in hs
  PROVE  ~DuplicateTransport(e, p)
<1> DEFINE h == Home(db, p)
<1>1. h \in Holders /\ p \in Holders
  BY RowSet, RowValues DEF Sound, WellFormed, Exists, Home, Holders
<1>2. \A b : b \in Effective(e, p) => b \in Resources /\ (e[Access(b, p)] \/ e[Access(b, h)])
  BY DEF Effective
<1>3. \A b \in Addons : db[Access(b, p)] \/ db[Access(b, h)] => b \in Effective(db, p)
  BY DEF Effective, Resources
<1>4. \A b \in Addons \ {a} : db[Addon(b)] = url /\ (db[Access(b, p)] \/ db[Access(b, h)]) => p \notin hs /\ h \notin hs
  BY <1>1, ReachedApart
<1> HIDE DEF h
<1>5. ASSUME NEW b \in Addons \ {a}, b \in Effective(e, p) PROVE b \in Effective(db, p)
  BY <1>1, <1>2, <1>3, <1>5
<1>6. ASSUME NEW b \in Addons \ {a}, a \in Effective(e, p), b \in Effective(e, p), db[Addon(b)] = url PROVE FALSE
  <2>1. p \in hs \/ h \in hs
    BY <1>1, <1>2, <1>6
  <2>2. db[Access(b, p)] \/ db[Access(b, h)]
    BY <1>1, <1>2, <1>6
  <2> QED BY <1>4, <1>6, <2>1, <2>2
<1>7. \A b, c \in Effective(db, p) \cap Addons : b # c => db[Addon(b)] # db[Addon(c)]
  BY DEF Sound, WithinLimits, DuplicateTransport
<1> SUFFICES ASSUME NEW b \in Effective(e, p) \cap Addons, NEW c \in Effective(e, p) \cap Addons, b # c,
                    e[Addon(b)] = e[Addon(c)]
             PROVE  FALSE
  BY DEF DuplicateTransport
<1>8. CASE b # a /\ c # a
  BY <1>5, <1>7, <1>8
<1>9. CASE b = a
  BY <1>6, <1>9
<1>10. CASE c = a
  BY <1>6, <1>10
<1> QED BY <1>8, <1>9, <1>10

\* The limits, once an add-on is written whose transport was found to be free.
LEMMA AddonLimits ==
  ASSUME Sound(db), NEW a \in Addons, NEW url, NEW hs \in SUBSET Holders, ~TransportAssigned(url, hs, a),
         NEW w, IsGrant(w, a, url, hs), NEW ls, Written(ls, w)
  PROVE  WithinLimits(w @@ db)
<1>1. /\ DOMAIN w = {Addon(a)} \cup {Access(a, x) : x \in Holders}
      /\ w[Addon(a)] = url
      /\ \A x \in Holders : w[Access(a, x)] <=> x \in hs
  BY ResourceRows DEF IsGrant
<1> DEFINE e == w @@ db
<1>2. \A o \in Rows : e[o] = IF o \in DOMAIN w THEN w[o] ELSE db[o]
  BY ViewRows DEF Sound, WellFormed
<1> HIDE DEF e
<1>3. \A p \in Profiles : e[Profile(p)] = db[Profile(p)]
  BY <1>1, <1>2, RowNames, RowSet
<1>4. ASSUME NEW r \in Resources \ {a} PROVE \A x \in Holders : e[Access(r, x)] = db[Access(r, x)]
  <2>1. \A x \in Holders : Access(r, x) \in Rows /\ Access(r, x) \notin DOMAIN w
    BY <1>1, <1>4, RowNames, RowSet
  <2> HIDE DEF Rows
  <2> QED BY <1>2, <2>1
<1>5. ASSUME NEW b \in Addons \ {a} PROVE e[Addon(b)] = db[Addon(b)]
  BY <1>1, <1>2, <1>5, RowNames, RowSet
<1>6. /\ e[Addon(a)] = url
      /\ \A x \in Holders : e[Access(a, x)] => x \in hs
  BY <1>1, <1>2, RowSet DEF Resources
<1> SUFFICES ASSUME NEW p \in Profiles, Exists(e, p) PROVE ~DuplicateTransport(e, p) /\ ~OverLimit(e, p)
  BY DEF WithinLimits, e
<1>7. Exists(db, p) /\ Home(e, p) = Home(db, p)
  BY <1>3 DEF Exists, Home
<1>8. ~DuplicateTransport(e, p)
  <2>1. \A b \in Addons \ {a} : /\ e[Addon(b)] = db[Addon(b)]
                                /\ \A x \in Holders : e[Access(b, x)] = db[Access(b, x)]
    BY <1>4, <1>5 DEF Resources
  <2> QED BY <1>6, <1>7, <2>1, TransportApart
<1>9. ~OverLimit(e, p)
  <2>1. Home(db, p) \in Holders /\ p \in Holders
    BY <1>7, RowSet, RowValues DEF Sound, WellFormed, Exists, Home, Holders
  <2>2. \A k \in Collections : k \in Resources \ {a}
    BY HouseholdAssumption DEF Resources
  <2>3. Effective(e, p) \cap Collections = Effective(db, p) \cap Collections
    <3>1. ASSUME NEW k \in Collections PROVE k \in Effective(e, p) <=> k \in Effective(db, p)
      <4>1. /\ e[Access(k, p)] = db[Access(k, p)]
            /\ e[Access(k, Home(db, p))] = db[Access(k, Home(db, p))]
        BY <1>4, <2>1, <2>2
      <4> QED BY <1>7, <2>2, <4>1 DEF Effective
    <3> QED BY <3>1
  <2> QED BY <1>7, <2>3 DEF Sound, WithinLimits, OverLimit
<1> QED BY <1>8, <1>9

LEMMA WriteAddonGood ==
  ASSUME HouseholdInv, NEW t \in Txs, WriteAddon(t)
  PROVE  HouseholdInv'
<1> DEFINE call == tx[t].call
           a == call.a
           hs == call.holders
           url == IF call.transport = None THEN db[Addon(a)] ELSE call.transport
           ls == AddonLocks(t)
           w == AddonWrites(a, url, hs)
<1>1. /\ AddonAuthorized(t) /\ ~TransportAssigned(url, hs, a)
      /\ call.kind \in {"install", "update"}
      /\ Hold(t, AddonActor(t), ls, w)
  BY DEF WriteAddon, HoldAddon, AddonActor
<1>2. Sound(db) /\ \A row \in Rows : db[row] \in Values(row)
  BY DEF HouseholdInv, Sound, WellFormed
<1>3. /\ call \in AddonCalls
      /\ X(Addon(a)) \in ls
      /\ \A c \in hs \cap Categories : X(Category(c)) \in ls /\ Lives(db, c)
      /\ \A p \in hs \cap Profiles : S(Profile(p)) \in ls /\ Exists(db, p) /\ X(Category(Home(db, p))) \in ls
      /\ NeedsAdmin(t) => Rightful(db, AddonActor(t), ls)
      /\ Assigned(db, a) = tx[t].snap
  BY <1>1, AddonLocked
<1>16. ~NeedsAdmin(t) => /\ hs \cap Categories = {} /\ tx[t].snap \cap Categories = {}
                        /\ url = db[Addon(a)]
  BY DEF NeedsAdmin
<1>4. /\ a \in Addons /\ hs \in SUBSET Holders /\ call.transport \in Transports \cup {None}
      /\ call.kind = "install" => call.transport # None
  BY <1>3, CallFields
<1>5. url \in Transports \cup {None} /\ url # None
  <2>1. CASE call.transport # None
    BY <1>4, <2>1
  <2>2. CASE call.transport = None
    <3>1. a \in Effective(db, call.q) /\ Exists(db, call.q) /\ call.q \in Profiles
      BY <1>1, <1>3, <1>4, <2>2, CallFields DEF AddonAuthorized, Visible
    <3>2. Home(db, call.q) \in Holders /\ call.q \in Holders
      BY <1>2, <3>1, RowSet, RowValues DEF Exists, Home, Holders
    <3>3. \E x \in Holders : db[Access(a, x)]
      BY <3>1, <3>2 DEF Effective
    <3>4. db[ResourceRow(a)] # Absent(a)
      BY <1>2, <1>4, <3>3 DEF Sound, WellFormed, Resources
    <3> QED BY <1>2, <1>4, <2>2, <3>4, ResourceRows, RowSet, RowValues
  <2> QED BY <2>1, <2>2
<1>6. IsGrant(w, a, url, hs)
  BY <1>4, AddonWritten
<1> HIDE DEF call, a, hs, url, ls, w
<1>7. /\ a \in Resources /\ ResourceRow(a) = Addon(a) /\ Absent(a) = None
      /\ url \in Values(ResourceRow(a))
  BY <1>4, <1>5, ResourceRows, RowValues DEF Resources
<1>8. /\ Written(ls, w) /\ HomeHeld(db, ls, w) /\ UserHeld(db, ls, w)
      /\ WellFormed(w @@ db) /\ Admins(w @@ db) # {}
  BY <1>2, <1>3, <1>4, <1>5, <1>6, <1>7, GrantView
<1>9. WithinLimits(w @@ db)
  BY <1>1, <1>2, <1>4, <1>6, <1>8, AddonLimits DEF call, a, hs, url
<1>10. ASSUME NEW r \in Resources, NEW x \in Holders, Gives(w, r, x) PROVE r = a /\ x \in hs
  BY <1>6, <1>7, <1>10, RowNames, ResourceRows DEF Gives, IsGrant
<1>11. AssignmentHeld(db, ls, w)
  BY <1>3, <1>7, <1>10 DEF AssignmentHeld
<1>12. AddonHeld(db, ls, w)
  <2>1. ASSUME NEW b \in Addons, NEW p \in Profiles, Gives(w, b, p) PROVE X(Category(Home(db, p))) \in ls
    BY <1>3, <1>10, <2>1 DEF Resources, Holders
  <2>2. ASSUME NEW b \in Addons, Addon(b) \in DOMAIN w PROVE \A x \in Holders : Access(b, x) \in DOMAIN w
    BY <1>6, <1>7, <2>2, RowNames DEF IsGrant
  <2> QED BY <2>1, <2>2 DEF AddonHeld
<1>13. CollectionHeld(db, ls, w)
  <2>1. \A k \in Collections, x \in Holders : ~Gives(w, k, x)
    BY <1>4, <1>10, HouseholdAssumption DEF Resources
  <2> QED BY <2>1 DEF CollectionHeld, Holders
<1>17. ActorHeld(db, AddonActor(t), ls, w)
  <2>1. CASE NeedsAdmin(t)
    BY <1>3, <2>1 DEF ActorHeld
  <2>2. CASE ~NeedsAdmin(t)
    BY <1>3, <1>6, <1>7, <1>16, <2>2, GrantHarmless DEF ActorHeld
  <2> QED BY <2>1, <2>2
<1>14. Good(db, AddonActor(t), ls, w)
  BY <1>8, <1>9, <1>11, <1>12, <1>13, <1>17 DEF Good, Held, Sound
<1>15. Hold(t, AddonActor(t), ls, w)
  BY <1>1
<1> QED BY <1>14, <1>15, HoldKeeps

LEMMA RemoveAddonGood ==
  ASSUME HouseholdInv, NEW t \in Txs, RemoveAddon(t)
  PROVE  HouseholdInv'
<1> DEFINE call == tx[t].call
           a == call.a
           ls == AddonLocks(t)
           w == AddonWrites(a, None, {})
<1>1. AddonAuthorized(t) /\ Hold(t, AddonActor(t), ls, w)
  BY DEF RemoveAddon, HoldAddon, AddonActor
<1>2. /\ call \in AddonCalls /\ X(Addon(a)) \in ls
      /\ NeedsAdmin(t) => Rightful(db, AddonActor(t), ls)
      /\ Assigned(db, a) = tx[t].snap
  BY <1>1, AddonLocked
<1>15. ~NeedsAdmin(t) => tx[t].snap \cap Categories = {}
  BY DEF NeedsAdmin
<1>3. a \in Addons
  BY <1>2, CallFields
<1>4. IsGrant(w, a, None, {})
  BY <1>3, AddonWritten
<1> HIDE DEF call, a, ls, w
<1>5. Sound(db)
  BY DEF HouseholdInv
<1>6. /\ a \in Resources /\ ResourceRow(a) = Addon(a) /\ Absent(a) = None
      /\ None \in Values(ResourceRow(a))
  BY <1>3, ResourceRows, RowValues DEF Resources
<1>7. /\ Written(ls, w) /\ HomeHeld(db, ls, w) /\ UserHeld(db, ls, w)
      /\ WellFormed(w @@ db) /\ Admins(w @@ db) # {}
  BY <1>2, <1>4, <1>5, <1>6, GrantView
<1>8. ~TransportAssigned(None, {}, a)
  BY DEF TransportAssigned
<1>9. WithinLimits(w @@ db)
  BY <1>3, <1>4, <1>5, <1>7, <1>8, AddonLimits
<1>10. \A r \in Resources, x \in Holders : ~Gives(w, r, x)
  BY <1>4, <1>6, RowNames, ResourceRows DEF Gives, IsGrant
<1>11. AssignmentHeld(db, ls, w) /\ CollectionHeld(db, ls, w)
  BY <1>10 DEF AssignmentHeld, CollectionHeld, Resources, Holders
<1>12. AddonHeld(db, ls, w)
  <2>1. ASSUME NEW b \in Addons, Addon(b) \in DOMAIN w PROVE w[Addon(b)] = None
    BY <1>4, <1>6, <2>1, RowNames DEF IsGrant
  <2> QED BY <1>10, <2>1 DEF AddonHeld, Resources, Holders
<1>16. ActorHeld(db, AddonActor(t), ls, w)
  <2>1. CASE NeedsAdmin(t)
    BY <1>2, <2>1 DEF ActorHeld
  <2>2. CASE ~NeedsAdmin(t)
    BY <1>2, <1>4, <1>6, <1>15, <2>2, GrantHarmless DEF ActorHeld
  <2> QED BY <2>1, <2>2
<1>13. Good(db, AddonActor(t), ls, w)
  BY <1>16, <1>7, <1>9, <1>11, <1>12 DEF Good, Held, Sound
<1>14. Hold(t, AddonActor(t), ls, w)
  BY <1>1
<1> QED BY <1>13, <1>14, HoldKeeps

\* A transaction that holds nothing yet.
LEMMA NotHeldKeeps ==
  ASSUME HouseholdInv, NEW t \in Txs,
         DOMAIN tx' = Txs, tx' = [s \in Txs |-> tx'[s]], \A s \in Txs : s # t => tx'[s] = tx[s], db' = db,
         tx'[t].at # "held", tx'[t].call \in AddonCalls, Whole(tx'[t])
  PROVE  HouseholdInv'
<1>1. Shape'
  BY DEF HouseholdInv, Shape
<1>2. HeldApart'
  BY DEF HouseholdInv, HeldApart
<1>3. HeldGood'
  BY DEF HouseholdInv, HeldGood
<1> QED BY <1>1, <1>2, <1>3 DEF HouseholdInv

LEMMA ReadKeeps ==
  ASSUME HouseholdInv, NEW t \in Txs, NEW u, NEW call \in AddonCalls, NEW seen, ReadFor(t, u, call, seen), db' = db
  PROVE  HouseholdInv'
<1> DEFINE snap == Assigned(db, call.a)
           homes == HomesOf(db, Concerned(call, snap))
<1>1. /\ tx'[t] = [tx[t] EXCEPT !.at = "read", !.actor = u, !.call = call, !.snap = snap,
                                !.homes = homes, !.seen = seen]
      /\ DOMAIN tx' = Txs /\ tx' = [s \in Txs |-> tx'[s]]
      /\ \A s \in Txs : s # t => tx'[s] = tx[s]
  BY DEF ReadFor, HouseholdInv, Shape
<1> HIDE DEF snap, homes
<1>2. tx'[t] = [at |-> "read", call |-> call, snap |-> snap, homes |-> homes,
                seen |-> seen, actor |-> u, locks |-> tx[t].locks, writes |-> tx[t].writes]
  BY <1>1 DEF HouseholdInv, Shape, Whole
<1>3. Whole(tx'[t]) /\ tx'[t].at # "held" /\ tx'[t].call = call
  BY <1>2 DEF Whole
<1> QED BY <1>1, <1>3, NotHeldKeeps

LEMMA AddonTxKeeps ==
  ASSUME HouseholdInv, NEW t \in Txs,
         \/ \E u \in Users, call \in AddonCalls : ReadAddon(t, u, call)
         \/ FetchedManifest(t) \/ AuthorizeTransport(t)
  PROVE  HouseholdInv'
<1>1. ASSUME NEW u \in Users, NEW call \in AddonCalls, ReadAddon(t, u, call) PROVE HouseholdInv'
  BY <1>1, ReadKeeps DEF ReadAddon
<1>2. CASE FetchedManifest(t)
  <2>1. tx[t].call \in AddonCalls
    BY <1>2 DEF FetchedManifest, HouseholdInv, Shape
  <2> QED BY <1>2, <2>1, ReadKeeps DEF FetchedManifest
<1>3. CASE AuthorizeTransport(t)
  <2> DEFINE seen == [url |-> db[Addon(tx[t].call.a)], holders |-> Assigned(db, tx[t].call.a)]
  <2>1. /\ tx'[t] = [tx[t] EXCEPT !.at = "fetching", !.seen = seen]
        /\ DOMAIN tx' = Txs /\ tx' = [s \in Txs |-> tx'[s]]
        /\ \A s \in Txs : s # t => tx'[s] = tx[s]
        /\ db' = db
    BY <1>3 DEF AuthorizeTransport, HouseholdInv, Shape
  <2>2. tx[t].call \in AddonCalls
    BY <1>3 DEF AuthorizeTransport, AddonAuthorized, HouseholdInv, Shape
  <2> HIDE DEF seen
  <2>3. tx'[t] = [at |-> "fetching", call |-> tx[t].call, snap |-> tx[t].snap, homes |-> tx[t].homes,
                  seen |-> seen, actor |-> tx[t].actor, locks |-> tx[t].locks, writes |-> tx[t].writes]
    BY <2>1 DEF HouseholdInv, Shape, Whole
  <2>4. Whole(tx'[t]) /\ tx'[t].at # "held" /\ tx'[t].call = tx[t].call
    BY <2>3 DEF Whole
  <2> QED BY <2>1, <2>2, <2>4, NotHeldKeeps
<1> QED BY <1>1, <1>2, <1>3

LEMMA RollbackKeeps ==
  ASSUME HouseholdInv, NEW t \in Txs, Rollback(t)
  PROVE  HouseholdInv'
<1>1. db' = db /\ tx' = [tx EXCEPT ![t] = [New EXCEPT !.at = "done"]]
  BY DEF Rollback
<1>2. /\ Shape' /\ tx'[t].at = "done"
      /\ \A s \in Txs : s # t => tx'[s] = tx[s]
  BY <1>1, DoneShape DEF HouseholdInv
<1>3. HeldApart'
  BY <1>2 DEF HouseholdInv, HeldApart
<1>4. HeldGood'
  BY <1>1, <1>2 DEF HouseholdInv, HeldGood
<1> QED BY <1>1, <1>2, <1>3, <1>4 DEF HouseholdInv

-----------------------------------------------------------------------------
(* Collections.                                                             *)

LEMMA CollectionLocked ==
  ASSUME HouseholdInv, NEW k \in Collections, NEW u \in Users, NEW q \in Profiles, NEW hs \in SUBSET Holders,
         CollectionPolicy(k, u, q, hs), NEW ls, ls = CollectionLocks(k, u, q, hs)
  PROVE  /\ X(Collection(k)) \in ls
         /\ \A c \in hs \cap Categories : X(Category(c)) \in ls /\ Lives(db, c)
         /\ \A p \in hs \cap Profiles : S(Profile(p)) \in ls /\ Exists(db, p)
         /\ \A p \in TargetProfiles(hs) : X(CollectionLock(p)) \in ls
         /\ \A x \in Assigned(db, k) : X(Access(k, x)) \in ls
         /\ \/ Rightful(db, CollectionActor(k, u, hs), ls)
            \/ hs \cap Categories = {} /\ Assigned(db, k) \cap Categories = {}
<1> DEFINE all == Assigned(db, k) \cup hs
           ps == (all \cap Profiles) \cup {q} \cup TargetProfiles(hs)
<1>1. ls = {X(Collection(k)), S(User(u))} \cup XAll({Category(c) : c \in all \cap Categories})
             \cup XAll(AccessRows({k}, Assigned(db, k)))
             \cup SAll({Profile(p) : p \in ps}) \cup XAll({CollectionLock(p) : p \in ps})
  BY DEF CollectionLocks
<1>2. /\ \A c \in all \cap Categories : X(Category(c)) \in ls
      /\ \A p \in ps : S(Profile(p)) \in ls /\ X(CollectionLock(p)) \in ls
      /\ X(Collection(k)) \in ls /\ S(User(u)) \in ls
  BY <1>1 DEF XAll, SAll
<1>3. \A x \in Assigned(db, k) : X(Access(k, x)) \in ls
  BY <1>1 DEF XAll, AccessRows
<1>4. /\ \A p \in all \cap Profiles : Exists(db, p)
      /\ \A c \in all \cap Categories : Lives(db, c)
      /\ all \cap Categories # {} => u \in Admins(db)
  BY DEF CollectionPolicy
<1>5. \/ Rightful(db, CollectionActor(k, u, hs), ls)
      \/ hs \cap Categories = {} /\ Assigned(db, k) \cap Categories = {}
  BY <1>2, <1>4 DEF Rightful, CollectionActor
<1> QED BY <1>2, <1>3, <1>4, <1>5

\* Who is not among the targets sees nothing new, and no transport changes.
LEMMA CollectionLimits ==
  ASSUME Sound(db), NEW k \in Collections, NEW hs \in SUBSET Holders,
         NEW w, IsGrant(w, k, TRUE, hs), NEW ls, Written(ls, w),
         \A p \in TargetProfiles(hs) : ~OverLimit(w @@ db, p)
  PROVE  WithinLimits(w @@ db)
<1>1. /\ DOMAIN w = {Collection(k)} \cup {Access(k, x) : x \in Holders}
      /\ \A x \in Holders : w[Access(k, x)] <=> x \in hs
  BY ResourceRows DEF IsGrant
<1> DEFINE e == w @@ db
<1>2. \A o \in Rows : e[o] = IF o \in DOMAIN w THEN w[o] ELSE db[o]
  BY ViewRows DEF Sound, WellFormed
<1>3. \A p \in TargetProfiles(hs) : ~OverLimit(e, p)
  OBVIOUS
<1> HIDE DEF e
<1>4. /\ \A p \in Profiles : e[Profile(p)] = db[Profile(p)]
      /\ \A a \in Addons : e[Addon(a)] = db[Addon(a)]
  BY <1>1, <1>2, RowNames, RowSet
<1>5. ASSUME NEW r \in Resources \ {k} PROVE \A x \in Holders : e[Access(r, x)] = db[Access(r, x)]
  <2>1. \A x \in Holders : Access(r, x) \in Rows /\ Access(r, x) \notin DOMAIN w
    BY <1>1, <1>5, RowNames, RowSet
  <2> HIDE DEF Rows
  <2> QED BY <1>2, <2>1
<1>6. \A x \in Holders : e[Access(k, x)] => x \in hs
  BY <1>1, <1>2, RowSet DEF Resources
<1> SUFFICES ASSUME NEW p \in Profiles, Exists(e, p) PROVE ~DuplicateTransport(e, p) /\ ~OverLimit(e, p)
  BY DEF WithinLimits, e
<1>7. Exists(db, p) /\ Home(e, p) = Home(db, p)
  BY <1>4 DEF Exists, Home
<1>8. Home(db, p) \in Holders /\ p \in Holders
  BY <1>7, RowSet, RowValues DEF Sound, WellFormed, Exists, Home, Holders
<1>9. ~DuplicateTransport(db, p) /\ ~OverLimit(db, p)
  BY <1>7 DEF Sound, WithinLimits
<1>10. ASSUME NEW r \in Resources \ {k} PROVE r \in Effective(e, p) <=> r \in Effective(db, p)
  <2>1. /\ e[Access(r, p)] = db[Access(r, p)]
        /\ e[Access(r, Home(db, p))] = db[Access(r, Home(db, p))]
    BY <1>5, <1>8
  <2> QED BY <1>7, <2>1 DEF Effective
<1>11. ~DuplicateTransport(e, p)
  <2>1. \A a \in Addons : a \in Resources \ {k}
    BY HouseholdAssumption DEF Resources
  <2>2. Effective(e, p) \cap Addons = Effective(db, p) \cap Addons
    BY <1>10, <2>1
  <2> QED BY <1>4, <1>9, <2>2 DEF DuplicateTransport
<1>12. CASE p \in TargetProfiles(hs)
  BY <1>3, <1>11, <1>12
<1>13. CASE p \notin TargetProfiles(hs)
  <2>1. p \notin hs /\ Home(db, p) \notin hs
    BY <1>7, <1>13 DEF TargetProfiles
  <2>2. k \notin Effective(e, p)
    BY <1>6, <1>7, <1>8, <2>1 DEF Effective
  <2>3. Effective(e, p) \subseteq Effective(db, p)
    BY <1>10, <2>2 DEF Effective
  <2> QED BY <1>4, <1>9, <2>3, FewerSeen
<1> QED BY <1>12, <1>13

LEMMA CollectionGood ==
  ASSUME HouseholdInv, NEW k \in Collections, NEW hs \in SUBSET Holders,
         NEW w, IsGrant(w, k, TRUE, hs), NEW ls, X(Collection(k)) \in ls,
         \A c \in hs \cap Categories : X(Category(c)) \in ls /\ Lives(db, c),
         \A p \in hs \cap Profiles : S(Profile(p)) \in ls /\ Exists(db, p),
         \A p \in TargetProfiles(hs) : X(CollectionLock(p)) \in ls /\ ~OverLimit(w @@ db, p),
         NEW actor, \/ Rightful(db, actor, ls)
                    \/ hs \cap Categories = {} /\ Assigned(db, k) \cap Categories = {}
  PROVE  Good(db, actor, ls, w)
<1>1. Sound(db)
  BY DEF HouseholdInv
<1>2. /\ k \in Resources /\ ResourceRow(k) = Collection(k) /\ Absent(k) = FALSE
      /\ TRUE \in Values(ResourceRow(k)) /\ TRUE # Absent(k)
  <2>1. k \in Resources /\ ResourceRow(k) = Collection(k) /\ Absent(k) = FALSE
    BY ResourceRows DEF Resources
  <2>2. Values(ResourceRow(k)) = BOOLEAN
    BY <2>1, RowValues
  <2>3. TRUE \in BOOLEAN /\ TRUE # FALSE
    OBVIOUS
  <2> QED BY <2>1, <2>2, <2>3, Zenon
<1> DEFINE value == TRUE
<1> HIDE DEF value
<1>3. /\ Written(ls, w) /\ HomeHeld(db, ls, w) /\ UserHeld(db, ls, w)
      /\ WellFormed(w @@ db) /\ Admins(w @@ db) # {}
  <2>1. IsGrant(w, k, value, hs) /\ value \in Values(ResourceRow(k)) /\ value # Absent(k)
    BY <1>2, Zenon DEF value
  <2>2. X(ResourceRow(k)) \in ls
    BY <1>2
  <2> QED BY <1>1, <1>2, <2>1, <2>2, GrantView
<1>4. WithinLimits(w @@ db)
  BY <1>1, <1>3, CollectionLimits
<1>5. ASSUME NEW r \in Resources, NEW x \in Holders, Gives(w, r, x) PROVE r = k /\ x \in hs
  BY <1>2, <1>5, RowNames, ResourceRows DEF Gives, IsGrant
<1>6. AssignmentHeld(db, ls, w)
  BY <1>2, <1>5 DEF AssignmentHeld
<1>7. AddonHeld(db, ls, w)
  <2>1. \A a \in Addons : Addon(a) \notin DOMAIN w
    BY <1>2, RowNames DEF IsGrant
  <2>2. \A a \in Addons, x \in Holders : ~Gives(w, a, x)
    BY <1>5, HouseholdAssumption DEF Resources
  <2> QED BY <2>1, <2>2 DEF AddonHeld, Holders
<1>8. CollectionHeld(db, ls, w)
  <2>1. ASSUME NEW j \in Collections, NEW p \in Profiles, Gives(w, j, p) PROVE p \in TargetProfiles(hs)
    BY <1>5, <2>1 DEF TargetProfiles, Resources, Holders
  <2>2. ASSUME NEW j \in Collections, NEW p \in Profiles, NEW c \in Categories, Gives(w, j, c),
               Exists(db, p), Home(db, p) = c
        PROVE  p \in TargetProfiles(hs)
    BY <1>5, <2>2 DEF TargetProfiles, Resources, Holders
  <2> QED BY <2>1, <2>2 DEF CollectionHeld
<1>9. ActorHeld(db, actor, ls, w)
  <2>1. CASE Rightful(db, actor, ls)
    BY <2>1 DEF ActorHeld
  <2>2. CASE hs \cap Categories = {} /\ Assigned(db, k) \cap Categories = {}
    <3>1. k \notin Addons
      BY HouseholdAssumption
    <3>2. IsGrant(w, k, value, hs)
      BY DEF value
    <3>3. X(ResourceRow(k)) \in ls
      BY <1>2
    <3>4. Harmless(db, actor, ls, w)
      BY <1>2, <2>2, <3>1, <3>2, <3>3, GrantHarmless
    <3> QED BY <3>4 DEF ActorHeld
  <2> QED BY <2>1, <2>2
<1> QED BY <1>3, <1>4, <1>6, <1>7, <1>8, <1>9 DEF Good, Held, Sound

LEMMA SaveCollectionGood ==
  ASSUME HouseholdInv, NEW t \in Txs, NEW u \in Users, NEW q \in Profiles, NEW k \in Collections,
         NEW hs \in Assignments, SaveCollection(t, u, q, k, hs)
  PROVE  HouseholdInv'
<1> DEFINE w == CollectionWrites(k, hs)
           ls == CollectionLocks(k, u, q, hs)
           actor == CollectionActor(k, u, hs)
<1>1. Hold(t, actor, ls, w) /\ CollectionPolicy(k, u, q, hs) /\ CollectionFits(w @@ db, hs)
  BY DEF SaveCollection
<1>2. hs \in SUBSET Holders
  BY HouseholdAssumption DEF Holders
<1>3. IsGrant(w, k, TRUE, hs)
  BY ResourceRows, GrantWrites DEF CollectionWrites, Resources
<1>4. /\ X(Collection(k)) \in ls
      /\ \A c \in hs \cap Categories : X(Category(c)) \in ls /\ Lives(db, c)
      /\ \A p \in hs \cap Profiles : S(Profile(p)) \in ls /\ Exists(db, p)
      /\ \A p \in TargetProfiles(hs) : X(CollectionLock(p)) \in ls
      /\ \/ Rightful(db, actor, ls)
         \/ hs \cap Categories = {} /\ Assigned(db, k) \cap Categories = {}
  BY <1>1, <1>2, CollectionLocked
<1>5. \A p \in TargetProfiles(hs) : ~OverLimit(w @@ db, p)
  BY <1>1 DEF CollectionFits
<1> HIDE DEF w, ls, actor
<1>6. Good(db, actor, ls, w)
  BY <1>2, <1>3, <1>4, <1>5, CollectionGood
<1> QED BY <1>1, <1>6, HoldKeeps

\* The one collection it adds was counted before it was there.
LEMMA ImportCollectionGood ==
  ASSUME HouseholdInv, NEW t \in Txs, NEW q \in Profiles, NEW k \in Collections, ImportCollection(t, q, k)
  PROVE  HouseholdInv'
<1> DEFINE hs == {q}
           w == CollectionWrites(k, hs)
           ls == {S(Profile(q)), X(CollectionLock(q)), X(Collection(k))}
<1>1. /\ Hold(t, None, ls, w) /\ Exists(db, q)
      /\ Cardinality(Effective(db, q) \cap Collections) + 1 <= MaxCollections
      /\ ~db[Collection(k)]
  BY DEF ImportCollection
<1>2. Sound(db) /\ hs \in SUBSET Holders
  BY DEF HouseholdInv, Holders
<1>3. IsGrant(w, k, TRUE, hs)
  BY ResourceRows, GrantWrites DEF CollectionWrites, Resources
<1>4. /\ X(Collection(k)) \in ls /\ S(Profile(q)) \in ls /\ X(CollectionLock(q)) \in ls
  OBVIOUS
<1>5. hs \cap Categories = {}
  BY HouseholdAssumption
<1>9. Assigned(db, k) = {}
  <2>1. k \in Resources /\ ResourceRow(k) = Collection(k) /\ Absent(k) = FALSE
    BY ResourceRows DEF Resources
  <2>2. db[Collection(k)] \in BOOLEAN
    BY <1>2, RowSet, RowValues DEF Sound, WellFormed
  <2>3. db[ResourceRow(k)] = Absent(k)
    BY <1>1, <2>1, <2>2
  <2> QED BY <1>2, <2>1, <2>3 DEF Assigned, Sound, WellFormed
<1>6. ASSUME NEW p \in TargetProfiles(hs) PROVE p = q
  <2>1. Exists(db, p) /\ p \in Profiles /\ (p = q \/ Home(db, p) = q)
    BY DEF TargetProfiles
  <2>2. Home(db, p) \in Categories
    BY <1>2, <2>1, RowSet, RowValues DEF Sound, WellFormed, Exists, Home
  <2> QED BY <1>5, <2>1, <2>2
<1> HIDE DEF w, ls
<1> DEFINE e == w @@ db
<1>7. ~OverLimit(e, q)
  <2>1. /\ DOMAIN w = {Collection(k)} \cup {Access(k, x) : x \in Holders}
        /\ \A o \in Rows : o \in DOMAIN w \/ e[o] = db[o]
    <3>1. DOMAIN w = {Collection(k)} \cup {Access(k, x) : x \in Holders}
      BY <1>3, ResourceRows DEF IsGrant
    <3>2. DOMAIN db = Rows
      BY <1>2 DEF Sound, WellFormed
    <3> QED BY <3>1, <3>2, Zenon DEF @@
  <2> HIDE DEF e
  <2>2. Home(e, q) = Home(db, q)
    <3>1. Profile(q) \notin DOMAIN w /\ Profile(q) \in Rows
      BY <2>1, RowNames, RowSet
    <3> QED BY <2>1, <3>1 DEF Home
  <2>3. q \in Holders /\ Home(db, q) \in Holders
    BY <1>1, <1>2, RowSet, RowValues DEF Sound, WellFormed, Exists, Home, Holders
  <2>4. ASSUME NEW j \in Collections \ {k}, j \in Effective(e, q) PROVE j \in Effective(db, q)
    <3>1. \A x \in Holders : Access(j, x) \in Rows /\ Access(j, x) \notin DOMAIN w
      BY <2>1, RowNames, RowSet DEF Resources
    <3>2. /\ e[Access(j, q)] = db[Access(j, q)]
          /\ e[Access(j, Home(db, q))] = db[Access(j, Home(db, q))]
      BY <2>1, <2>3, <3>1
    <3> QED BY <2>2, <2>4, <3>2 DEF Effective
  <2> DEFINE before == Effective(db, q) \cap Collections
             after == Effective(e, q) \cap Collections
  <2>5. after \subseteq before \cup {k} /\ before \subseteq Collections
    BY <2>4
  <2> HIDE DEF before, after
  <2>6. IsFiniteSet(before)
    BY <2>5, HouseholdAssumption, FS_Subset
  <2>7. /\ IsFiniteSet(before \cup {k})
        /\ Cardinality(before \cup {k}) <= Cardinality(before) + 1
    <3>1. IsFiniteSet(before \cup {k})
          /\ Cardinality(before \cup {k}) = IF k \in before THEN Cardinality(before) ELSE Cardinality(before) + 1
      BY <2>6, FS_AddElement
    <3>2. Cardinality(before) \in Nat
      BY <2>6, FS_CardinalityType
    <3> QED BY <3>1, <3>2
  <2>8. /\ Cardinality(after) <= Cardinality(before \cup {k})
        /\ Cardinality(after) \in Nat /\ Cardinality(before \cup {k}) \in Nat /\ Cardinality(before) \in Nat
    BY <2>5, <2>6, <2>7, FS_Subset, FS_CardinalityType
  <2>9. Cardinality(before) + 1 <= MaxCollections
    BY <1>1 DEF before
  <2> QED BY <2>7, <2>8, <2>9, HouseholdAssumption DEF OverLimit, after
<1> HIDE DEF hs
<1>8. Good(db, None, ls, w)
  <2>1. \A p \in hs \cap Profiles : S(Profile(p)) \in ls /\ Exists(db, p)
    BY <1>1, <1>4 DEF hs
  <2>2. \A c \in hs \cap Categories : X(Category(c)) \in ls /\ Lives(db, c)
    BY <1>5
  <2>3. \A p \in TargetProfiles(hs) : X(CollectionLock(p)) \in ls /\ ~OverLimit(w @@ db, p)
    BY <1>4, <1>6, <1>7
  <2>4. hs \cap Categories = {} /\ Assigned(db, k) \cap Categories = {}
    BY <1>5, <1>9
  <2> QED BY <1>2, <1>3, <1>4, <2>1, <2>2, <2>3, <2>4, CollectionGood
<1> QED BY <1>1, <1>8, HoldKeeps

LEMMA DeleteCollectionGood ==
  ASSUME HouseholdInv, NEW t \in Txs, NEW u \in Users, NEW q \in Profiles, NEW k \in Collections,
         DeleteCollection(t, u, q, k)
  PROVE  HouseholdInv'
<1> DEFINE row == Collection(k)
           holders == Assigned(db, k)
           falses == [g \in AccessRows({k}, holders) |-> FALSE]
           w == (row :> FALSE) @@ falses
           ls == CollectionLocks(k, u, q, {})
           actor == CollectionActor(k, u, {})
<1>1. Hold(t, actor, ls, w) /\ CollectionPolicy(k, u, q, {})
  BY DEF DeleteCollection
<1>2. Sound(db) /\ {} \in SUBSET Holders
  BY DEF HouseholdInv
<1>3. /\ X(row) \in ls
      /\ Rightful(db, actor, ls) \/ holders \cap Categories = {}
      /\ \A x \in holders : X(Access(k, x)) \in ls
  BY <1>1, <1>2, CollectionLocked
<1>4. /\ DOMAIN falses = {Access(k, x) : x \in holders}
      /\ \A g \in DOMAIN falses : falses[g] = FALSE
  BY DEF AccessRows
<1>5. IsOver(w, row, FALSE, falses)
  BY RowOver
<1> HIDE DEF w, ls, actor, falses
<1>6. /\ DOMAIN w = {row} \cup {Access(k, x) : x \in holders}
      /\ w[row] = FALSE
      /\ \A g \in DOMAIN w : w[g] = FALSE
  <2>1. DOMAIN w = {row} \cup {Access(k, x) : x \in holders}
    BY <1>4, <1>5 DEF IsOver
  <2>2. w[row] = FALSE
    BY <1>5, Zenon DEF IsOver
  <2>3. \A g \in DOMAIN falses : g # row => w[g] = FALSE
    BY <1>4, <1>5, Zenon DEF IsOver
  <2>4. \A g \in DOMAIN w : w[g] = FALSE
    BY <1>4, <2>1, <2>2, <2>3, Zenon
  <2> QED BY <2>1, <2>2, <2>4, Zenon
<1>7. holders \subseteq Holders /\ \A x \in Holders : db[Access(k, x)] => x \in holders
  BY DEF Assigned
<1> HIDE DEF holders
<1>8. /\ k \in Resources /\ row = ResourceRow(k) /\ row \in Rows
  BY ResourceRows, RowSet DEF Resources
<1>9. Written(ls, w)
  <2>1. \A g \in DOMAIN w : g \in Rows /\ (g[1] # "access" => X(g) \in ls)
    BY <1>3, <1>6, <1>7, <1>8, RowSet, RowNames
  <2>2. ASSUME NEW g \in DOMAIN w PROVE FALSE \in Values(g)
    <3>1. CASE g = row
      <4>1. Values(g) = BOOLEAN
        BY <3>1, RowValues
      <4> QED BY <4>1
    <3>2. CASE g # row
      BY <1>6, <3>2, FalseIsValue
    <3> QED BY <3>1, <3>2
  <2>3. \A g \in DOMAIN w : w[g] \in Values(g)
    BY <1>6, <2>2, Zenon
  <2> QED BY <2>1, <2>3 DEF Written
<1>10. \A g \in DOMAIN w : g[1] \in {"profile_collections", "access"}
  BY <1>6, RowNames
<1>11. Plain(w)
  <2>1. \A r \in Resources, x \in Holders : ~Gives(w, r, x)
    BY <1>6, Zenon DEF Gives
  <2>2. \A a \in Addons : Addon(a) \notin DOMAIN w
    BY <1>10, RowNames
  <2> QED BY <2>1, <2>2 DEF Plain
<1>12. /\ \A p \in Profiles : Profile(p) \notin DOMAIN w
       /\ \A c \in Categories : Category(c) \notin DOMAIN w
       /\ \A v \in Users : User(v) \notin DOMAIN w
  BY <1>10, RowNames
<1>13. HomeHeld(db, ls, w)
  BY <1>12 DEF HomeHeld
<1>14. Cascades(db, w)
  <2> SUFFICES ASSUME NEW r \in Resources, NEW x \in Holders, db[Access(r, x)],
                      NEW z \in {ResourceRow(r), Profile(x), Category(x)}, z \in DOMAIN w
               PROVE  Access(r, x) \in DOMAIN w
    BY DEF Cascades, Deletes
  <2>1. z = ResourceRow(r)
    BY <1>10, RowNames
  <2>2. ResourceRow(r) = row
    BY <1>6, <2>1, ResourceRows, RowNames
  <2>3. r = k
    BY <1>8, <2>2, ResourceRows
  <2> QED BY <1>6, <1>7, <2>3
<1> DEFINE e == w @@ db
<1>15. \A o \in Rows : e[o] = IF o \in DOMAIN w THEN w[o] ELSE db[o]
  BY <1>2, <1>9, ViewRows DEF Sound, WellFormed
<1> HIDE DEF e
<1>16. \A p \in Profiles : (Exists(e, p) <=> Exists(db, p)) /\ Home(e, p) = Home(db, p)
  BY <1>12, <1>15, RowSet DEF Exists, Home
<1>17. HomesLive(e)
  <2> SUFFICES ASSUME NEW p \in Profiles, Exists(db, p) PROVE Lives(e, Home(db, p))
    BY <1>16 DEF HomesLive
  <2>1. Home(db, p) \in Categories /\ Lives(db, Home(db, p))
    BY <1>2, RowSet, RowValues DEF Sound, WellFormed, Exists, Home
  <2> QED BY <1>12, <1>15, <2>1, RowSet DEF Lives
<1>18. ArrivalsFit(db, e)
  BY <1>16 DEF ArrivalsFit
<1>20. ActorHeld(db, actor, ls, w)
  <2>1. CASE Rightful(db, actor, ls)
    BY <2>1 DEF ActorHeld
  <2>2. CASE holders \cap Categories = {}
    <3>1. \A a \in Addons : Addon(a) \notin DOMAIN w
      BY <1>10, RowNames
    <3>2. \A r \in Resources, c \in Categories : Access(r, c) \notin DOMAIN w
      BY <1>6, <2>2, RowNames
    <3>3. Harmless(db, actor, ls, w)
      BY <1>12, <3>1, <3>2 DEF Harmless
    <3> QED BY <3>3 DEF ActorHeld
  <2> QED BY <1>3, <2>1, <2>2
<1>19. Good(db, actor, ls, w)
  BY <1>2, <1>20, <1>9, <1>11, <1>12, <1>13, <1>14, <1>17, <1>18, PlainGood DEF e
<1> QED BY <1>1, <1>19, HoldKeeps

-----------------------------------------------------------------------------
(* The specification.                                                       *)

LEMMA InitInv == Init => HouseholdInv
<1> SUFFICES ASSUME Init PROVE HouseholdInv
  OBVIOUS
<1>1. Sound(db)
  BY HouseholdsAssumption DEF Init, Sound
<1>2. /\ tx = [t \in Txs |-> New]
      /\ \A t \in Txs : tx[t] = [at |-> "new", call |-> NoCall, snap |-> {}, homes |-> {}, seen |-> None,
                                 actor |-> None, locks |-> {}, writes |-> <<>>]
  BY DEF Init, New
<1>3. \A t \in Txs : tx[t].at = "new" /\ Whole(tx[t])
  BY <1>2 DEF Whole
<1>4. DOMAIN tx = Txs /\ tx = [t \in Txs |-> tx[t]]
  BY <1>2
<1> QED BY <1>1, <1>3, <1>4 DEF HouseholdInv, Shape, HeldApart, HeldGood

LEMMA CategoryStepKeeps == ASSUME HouseholdInv, NEW t \in Txs, CategoryStep(t) PROVE HouseholdInv'
<1>1. ASSUME NEW u \in Users, NEW c \in Categories, CreateCategory(t, u, c) \/ MakeDefault(t, u, c) PROVE HouseholdInv'
  BY <1>1, CreateCategoryGood, MakeDefaultGood
<1>2. ASSUME NEW u \in Users, NEW c \in Categories, NEW ps \in SUBSET Profiles, MoveProfiles(t, u, ps, c)
      PROVE HouseholdInv'
  BY <1>2, MoveProfilesGood
<1>3. ASSUME NEW u \in Users, NEW c \in Categories, NEW d \in (Categories \ {c}) \cup {None}, DeleteCategory(t, u, c, d)
      PROVE HouseholdInv'
  BY <1>3, DeleteCategoryGood
<1> QED BY <1>1, <1>2, <1>3 DEF CategoryStep

LEMMA ProfileStepKeeps == ASSUME HouseholdInv, NEW t \in Txs, ProfileStep(t) PROVE HouseholdInv'
<1>1. ASSUME NEW u \in Users \cup {None}, NEW p \in Profiles, NEW open \in BOOLEAN, NEW c \in Categories,
             CreateProfile(t, u, p, c, open)
      PROVE HouseholdInv'
  BY <1>1, CreateProfileGood
<1>2. ASSUME NEW u \in Users \cup {None}, NEW p \in Profiles, NEW open \in BOOLEAN, NEW c \in Categories \cup {None},
             UpdateProfile(t, u, p, c, open)
      PROVE HouseholdInv'
  BY <1>2, UpdateProfileGood
<1>3. ASSUME NEW u \in Users \cup {None}, NEW p \in Profiles, DeleteProfile(t, u, p) PROVE HouseholdInv'
  BY <1>3, DeleteProfileGood
<1> QED BY <1>1, <1>2, <1>3 DEF ProfileStep

LEMMA UserStepKeeps == ASSUME HouseholdInv, NEW t \in Txs, UserStep(t) PROVE HouseholdInv'
BY UpdateUserGood, DeleteUserGood, CreateUserGood DEF UserStep

LEMMA AddonStepKeeps == ASSUME HouseholdInv, NEW t \in Txs, AddonStep(t) PROVE HouseholdInv'
BY AddonTxKeeps, WriteAddonGood, RemoveAddonGood DEF AddonStep

LEMMA CollectionStepKeeps == ASSUME HouseholdInv, NEW t \in Txs, CollectionStep(t) PROVE HouseholdInv'
BY SaveCollectionGood, ImportCollectionGood, DeleteCollectionGood DEF CollectionStep

LEMMA NextInv == HouseholdInv /\ [Next]_vars => HouseholdInv'
<1> SUFFICES ASSUME HouseholdInv, [Next]_vars PROVE HouseholdInv'
  OBVIOUS
<1>1. ASSUME NEW t \in Txs, Commit(t) PROVE HouseholdInv'
  BY <1>1, CommitKeeps
<1>2. ASSUME NEW t \in Txs, Rollback(t) PROVE HouseholdInv'
  BY <1>2, RollbackKeeps
<1>3. ASSUME NEW t \in Txs, CategoryStep(t) PROVE HouseholdInv'
  BY <1>3, CategoryStepKeeps
<1>4. ASSUME NEW t \in Txs, ProfileStep(t) PROVE HouseholdInv'
  BY <1>4, ProfileStepKeeps
<1>5. ASSUME NEW t \in Txs, UserStep(t) PROVE HouseholdInv'
  BY <1>5, UserStepKeeps
<1>6. ASSUME NEW t \in Txs, AddonStep(t) PROVE HouseholdInv'
  BY <1>6, AddonStepKeeps
<1>7. ASSUME NEW t \in Txs, CollectionStep(t) PROVE HouseholdInv'
  BY <1>7, CollectionStepKeeps
<1>8. CASE UNCHANGED vars
  <2>1. db' = db /\ tx' = tx
    BY <1>8 DEF vars
  <2> QED BY <2>1 DEF HouseholdInv, Shape, Whole, HeldApart, HeldGood, Sound, WellFormed, WithinLimits, Admins
<1> QED BY <1>1, <1>2, <1>3, <1>4, <1>5, <1>6, <1>7, <1>8 DEF Next

LEMMA InvAlways == Spec => []HouseholdInv
BY InitInv, NextInv, PTL DEF Spec

\* The columns keep their types and the foreign keys hold after every commit: who writes an
\* assignment or sends a profile to a category holds the rows at the other end
\* (category/delete.go, profile/service.go, addon/service.go, collection/service.go).
THEOREM HouseholdTypeCorrect == Spec => []TypeOK
<1>1. HouseholdInv => TypeOK
  BY DEF HouseholdInv, Sound, TypeOK
<1> QED BY <1>1, InvAlways, PTL

\* No profile sees one transport twice or more collections than the limit, however the assignments
\* to profiles and to categories, the moves, the imports and the new transports of the four
\* services interleave: two transactions that add to what a profile sees take conflicting locks.
THEOREM HouseholdLimits == Spec => []AssignmentLimits
<1>1. HouseholdInv => AssignmentLimits
  BY DEF HouseholdInv, Sound, AssignmentLimits
<1> QED BY <1>1, InvAlways, PTL

\* The last administrator is neither demoted nor deleted, by any number of transactions at once:
\* whoever takes a role has the table of users to itself (user/service.go, ensureAnotherAdmin).
THEOREM HouseholdAdministratorRemains == Spec => []AdministratorRemains
<1>1. HouseholdInv => AdministratorRemains
  BY DEF HouseholdInv, Sound, AdministratorRemains
<1> QED BY <1>1, InvAlways, PTL

\* Whoever's commit deletes a category, moves a profile, makes one as an administrator, writes a
\* transport or an assignment to a category is an administrator at that moment, in whatever order
\* demotions commit: the role was read under a shared lock of the user's row, for which the
\* demotion waits (category/database.go, addon/service.go, collection/profile_assignments.go).
THEOREM HouseholdActorIsAdministrator == Spec => ActorIsAdministrator
<1>1. HouseholdInv /\ [Next]_vars =>
        [\A t \in Txs : Commit(t) /\ (\E row \in Rows : Reserved(tx[t].actor, row, db[row], db'[row]))
           => tx[t].actor \in Admins(db)]_vars
  <2> SUFFICES ASSUME HouseholdInv, NEW t \in Txs, Commit(t),
                      NEW row \in Rows, Reserved(tx[t].actor, row, db[row], db'[row])
               PROVE  tx[t].actor \in Admins(db)
    OBVIOUS
  <2> DEFINE actor == tx[t].actor
             ls == tx[t].locks
             w == tx[t].writes
  <2>1. Sound(db) /\ Good(db, actor, ls, w) /\ db' = w @@ db
    BY DEF HouseholdInv, HeldGood, Commit
  <2> HIDE DEF actor, ls, w
  <2>2. ASSUME Harmless(db, actor, ls, w) PROVE FALSE
    BY <2>1, <2>2, HarmlessKept DEF Good, Held, actor
  <2> QED BY <2>1, <2>2 DEF Good, ActorHeld, Rightful, actor
<1> QED BY <1>1, InvAlways, PTL DEF Spec, ActorIsAdministrator
=============================================================================
