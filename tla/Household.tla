----------------------------- MODULE Household -----------------------------
(***************************************************************************)
(* Categories, profiles, users and what is assigned to them:               *)
(* server/internal/{category,profile,user,addon,collection}.               *)
(*                                                                         *)
(* Every operation is a PostgreSQL transaction at READ COMMITTED.  The     *)
(* database is a function from rows to values.  A transaction takes its    *)
(* locks, evaluates its checks on what is committed and on its own writes, *)
(* and only its commit shows the writes to the others: a check may be      *)
(* stale by then unless a lock excludes whoever could change it.  Locks    *)
(* are shared or exclusive; a table lock in SHARE ROW EXCLUSIVE MODE is    *)
(* exclusive and the lock a writer takes on the table is shared.           *)
(*                                                                         *)
(* What these operations do to sessions is in AuthSessions.  A call that   *)
(* is refused changes nothing and is not a step.                           *)
(***************************************************************************)
EXTENDS Integers, FiniteSets

CONSTANTS
  Categories, Profiles, Addons, Collections, Users,
  Transports,      \* transport URLs of add-ons
  None,            \* no row, no value
  MaxCollections,  \* maximumCollections: 100 in the code
  Txs,             \* transactions, one call each
  Plans,           \* the service each of them calls
  Assignments,     \* the sets of profiles and categories that calls for collections ask for
  AddonCalls,      \* the calls for add-ons
  Households       \* the databases to begin with

ASSUME HouseholdAssumption ==
  /\ MaxCollections \in Nat
  /\ IsFiniteSet(Collections)
  /\ Profiles \cap Categories = {} /\ Addons \cap Collections = {}
  /\ None \notin Transports \cup {"admin", "user"} /\ None \notin [home : Categories, open : BOOLEAN]
  /\ Assignments \subseteq (SUBSET (Profiles \cup Categories)) \ {{}}
  /\ AddonCalls \subseteq [kind : {"install", "update", "remove"}, a : Addons, q : Profiles,
                           holders : SUBSET (Profiles \cup Categories), transport : Transports \cup {None}]
  /\ \A call \in AddonCalls : /\ call.kind # "remove" => call.holders # {}
                              /\ call.kind = "install" => call.transport # None
  /\ Plans \subseteq [Txs -> {"category", "profile", "user", "addon", "collection"}]

VARIABLES
  db,   \* what is committed
  tx,   \* the transactions
  plan  \* the service of each

vars == <<db, tx, plan>>

-----------------------------------------------------------------------------
(* Rows.                                                                   *)

\* Rows and their values: one of them, and the rows of w over those of d.  The operators are those
\* of module TLC, defined here because the prover has no definition of them.
row :> value == [r \in {row} |-> value]
w @@ d == [r \in DOMAIN w \cup DOMAIN d |-> IF r \in DOMAIN w THEN w[r] ELSE d[r]]

Category(c) == <<"access_categories", c>>
Profile(p) == <<"profiles", p>>
User(u) == <<"users", u>>
Addon(a) == <<"profile_addons", a>>
Collection(k) == <<"profile_collections", k>>
Access(r, x) == <<"access", r, x>>       \* r is assigned to the profile or category x

Resources == Addons \cup Collections
Holders == Profiles \cup Categories
AccessRows(rs, xs) == {Access(r, x) : r \in rs, x \in xs}

Rows == {Category(c) : c \in Categories} \cup {Profile(p) : p \in Profiles} \cup {User(u) : u \in Users}
          \cup {Addon(a) : a \in Addons} \cup {Collection(k) : k \in Collections} \cup AccessRows(Resources, Holders)

Values(row) == CASE row[1] = "access_categories" -> {"absent", "live", "default"}
                 [] row[1] = "profiles" -> [home : Categories, open : BOOLEAN] \cup {None}
                 [] row[1] = "users" -> {"admin", "user", None}
                 [] row[1] = "profile_addons" -> Transports \cup {None}
                 [] OTHER -> BOOLEAN

\* Questions to a view d of the database: what is committed, or that with the writes of a transaction.
Lives(d, c) == d[Category(c)] # "absent"
Exists(d, p) == d[Profile(p)] # None
Home(d, p) == d[Profile(p)].home
Members(d, c) == {p \in Profiles : Exists(d, p) /\ Home(d, p) = c}
HomesOf(d, ps) == {Home(d, p) : p \in {q \in ps : Exists(d, q)}}
Unrestricted(d, c) == {p \in Members(d, c) : d[Profile(p)].open}
Assigned(d, r) == {x \in Holders : d[Access(r, x)]}
Effective(d, p) == {r \in Resources : d[Access(r, p)] \/ d[Access(r, Home(d, p))]}
Admins(d) == {u \in Users : d[User(u)] = "admin"}

DuplicateTransport(d, p) ==
  \E a, b \in Effective(d, p) \cap Addons : a # b /\ d[Addon(a)] = d[Addon(b)]

OverLimit(d, p) == Cardinality(Effective(d, p) \cap Collections) > MaxCollections

\* validateProfileMoveResourceIntegrity and validateCategoryMoveResourceIntegrity.
MoveFits(d, ps) == \A p \in ps : ~DuplicateTransport(d, p) /\ ~OverLimit(d, p)

\* The resources among rs that a view d leaves without any assignment are deleted.
Orphans(d, rs) == {r \in rs : Assigned(d, r) = {}}
ResourceRow(r) == IF r \in Addons THEN Addon(r) ELSE Collection(r)
Absent(r) == IF r \in Addons THEN None ELSE FALSE

\* The types of the columns and the foreign keys.
WellFormed(d) ==
  /\ DOMAIN d = Rows /\ \A row \in Rows : d[row] \in Values(row)
  /\ \A p \in Profiles : Exists(d, p) => Lives(d, Home(d, p))
  /\ \A r \in Resources, x \in Holders : d[Access(r, x)] =>
       /\ d[ResourceRow(r)] # Absent(r)
       /\ IF x \in Profiles THEN Exists(d, x) ELSE Lives(d, x)

WithinLimits(d) == \A p \in Profiles : Exists(d, p) => ~DuplicateTransport(d, p) /\ ~OverLimit(d, p)

\* A household begins as the setup leaves it, with its first administrator, or as later
\* operations do.
ASSUME HouseholdsAssumption ==
  \A d \in Households : WellFormed(d) /\ WithinLimits(d) /\ Admins(d) # {}

-----------------------------------------------------------------------------
(* Transactions.                                                           *)

X(row) == <<row, TRUE>>
S(row) == <<row, FALSE>>
XAll(rows) == {X(row) : row \in rows}
SAll(rows) == {S(row) : row \in rows}
CategoryTable == <<"access_categories">>
ProfileTable == <<"profiles">>
UserTable == <<"users">>
\* The two services lock a profile in key spaces of their own.
AddonLock(p) == <<"advisory", 0, p>>
CollectionLock(p) == <<"advisory", 1, p>>

Conflict(ls, ms) == \E l \in ls, m \in ms : l[1] = m[1] /\ (l[2] \/ m[2])

NoCall == [kind |-> "none", a |-> None, q |-> None, holders |-> {}, transport |-> None]

New == [at |-> "new", call |-> NoCall, snap |-> {}, homes |-> {}, seen |-> None,
        actor |-> None, locks |-> {}, writes |-> <<>>]

\* The locks are granted and the checks pass.  The actor is the principal whose role as an
\* administrator the call goes by, None for a call that goes by the management of profiles.
Hold(t, actor, locks, writes) ==
  /\ \A s \in Txs \ {t} : tx[s].at = "held" => ~Conflict(locks, tx[s].locks)
  /\ tx' = [tx EXCEPT ![t] = [@ EXCEPT !.at = "held", !.actor = actor, !.locks = locks, !.writes = writes]]
  /\ UNCHANGED <<db, plan>>

Commit(t) ==
  /\ tx[t].at = "held"
  /\ db' = tx[t].writes @@ db
  /\ tx' = [tx EXCEPT ![t] = [New EXCEPT !.at = "done"]]
  /\ UNCHANGED plan

\* The deferred rollback: a cancelled request, a lost connection, a deadlock resolved against it.
Rollback(t) ==
  /\ tx[t].at \notin {"new", "done"}
  /\ tx' = [tx EXCEPT ![t] = [New EXCEPT !.at = "done"]]
  /\ UNCHANGED <<db, plan>>

\* A row is deleted with the assignments that refer to it, and then what has no other assignment.
DeleteHolder(x, row, value, others) ==
  LET held == {r \in Resources : db[Access(r, x)]}
      cascade == (row :> value) @@ [g \in AccessRows(held, {x}) |-> FALSE] @@ others
      gone == Orphans(cascade @@ db, held)
  IN [writes |-> cascade @@ [o \in {ResourceRow(r) : r \in gone} |-> Absent(o[2])],
      locks |-> XAll({row} \cup AccessRows(held, {x}) \cup {ResourceRow(r) : r \in gone})]

-----------------------------------------------------------------------------
(* Categories.                                                             *)

\* The role is that of the principal, which was read when the request began: it may be lost since.
CreateCategory(t, u, c) ==
  /\ tx[t].at = "new" /\ ~Lives(db, c)
  /\ Hold(t, u, {X(CategoryTable), X(Category(c))}, Category(c) :> "live")

\* Update with makeDefault: the previous default is cleared first.  The role is the principal's.
MakeDefault(t, u, c) ==
  LET previous == {d \in Categories : db[Category(d)] = "default"}
  IN /\ tx[t].at = "new" /\ Lives(db, c) /\ c \notin previous
     /\ Hold(t, u, {X(CategoryTable)} \cup XAll({Category(d) : d \in previous \cup {c}}),
             (Category(c) :> "default") @@ [r \in {Category(d) : d \in previous} |-> "live"])

Moved(ps, c) == [r \in {Profile(p) : p \in ps} |-> [db[r] EXCEPT !.home = c]]

\* A slip: the role is read without a lock.
SlipMoveProfiles(t, u, ps, c) ==
  LET moved == {p \in ps : Home(db, p) # c}
  IN /\ tx[t].at = "new" /\ u \in Admins(db) /\ Lives(db, c)
     /\ \A p \in ps : Exists(db, p)
     /\ MoveFits(Moved(moved, c) @@ db, moved)
     /\ Hold(t, u, {X(CategoryTable), X(Category(c)), S(ProfileTable)} \cup XAll({Profile(p) : p \in ps}), Moved(moved, c))

MoveProfiles(t, u, ps, c) ==
  LET moved == {p \in ps : Home(db, p) # c}
      writes == Moved(moved, c)
  IN /\ tx[t].at = "new" /\ u \in Admins(db) /\ Lives(db, c)
     /\ \A p \in ps : Exists(db, p)
     /\ MoveFits(writes @@ db, moved)
     /\ Hold(t, u, {S(User(u)), X(CategoryTable), X(Category(c)), S(ProfileTable)} \cup XAll({Profile(p) : p \in ps}), writes)

\* The profiles go to another category first, and without one the category must have none.
DeleteCategory(t, u, c, destination) ==
  LET members == Members(db, c)
      moved == IF destination = None THEN <<>> ELSE Moved(members, destination)
      deletion == DeleteHolder(c, Category(c), "absent", moved)
  IN /\ tx[t].at = "new" /\ u \in Admins(db) /\ db[Category(c)] = "live"
     /\ IF destination = None THEN members = {} ELSE Lives(db, destination) /\ MoveFits(moved @@ db, members)
     /\ Hold(t, u, {S(User(u)), X(CategoryTable)} \cup deletion.locks \cup XAll({Profile(p) : p \in members})
               \cup (IF destination = None THEN {} ELSE {X(Category(destination)), S(ProfileTable)}),
             deletion.writes)

-----------------------------------------------------------------------------
(* Profiles.                                                               *)

\* An administrator, whose role is read again, or who manages a profile of the category: the row
\* that says so is held.  The foreign key holds the row of the category shared.
CreateProfile(t, u, p, c, open) ==
  LET writes == Profile(p) :> [home |-> c, open |-> open]
      reasons == IF u = None THEN {Profile(m) : m \in Members(db, c)} ELSE {User(v) : v \in {u} \cap Admins(db)}
  IN /\ tx[t].at = "new" /\ ~Exists(db, p) /\ Lives(db, c)
     /\ MoveFits(writes @@ db, {p})
     /\ \E reason \in reasons :
          Hold(t, u, {S(reason), X(CategoryTable), S(Category(c)), S(ProfileTable), X(Profile(p))}, writes)

\* A category is named, or c is None; the category left and the one entered each keep an
\* enabled profile without a schedule.  Who manages the profile, u is None, can name its category
\* only; the role of an administrator is the principal's, and read again if a category is named.
UpdateProfile(t, u, p, c, open) ==
  LET old == Home(db, p)
      new == IF c = None THEN old ELSE c
      writes == Profile(p) :> [home |-> new, open |-> open]
  IN /\ tx[t].at = "new" /\ Exists(db, p)
     /\ c # None => IF u = None THEN c = old ELSE u \in Admins(db) /\ Lives(db, c)
     /\ new # old => MoveFits(writes @@ db, {p})
     /\ \A d \in {old, new} : Unrestricted(writes @@ db, d) # {}
     /\ Hold(t, u,
             {X(ProfileTable), X(Profile(p))} \cup (IF c = None THEN {} ELSE {X(CategoryTable)})
               \cup (IF u = None \/ c = None THEN {} ELSE {S(User(u))})
               \cup (IF new = old THEN {} ELSE {S(Category(new))}),
             writes)

\* Of an administrator u, whose role is the principal's; or of who manages the profile, u is None,
\* and manages another one of the category.
DeleteProfile(t, u, p) ==
  LET deletion == DeleteHolder(p, Profile(p), None, <<>>)
      left == deletion.writes @@ db
  IN /\ tx[t].at = "new" /\ Exists(db, p)
     /\ Members(left, Home(db, p)) # {}
     /\ Unrestricted(left, Home(db, p)) # {}
     /\ Hold(t, u, {X(ProfileTable)} \cup deletion.locks, deletion.writes)

-----------------------------------------------------------------------------
(* Users.                                                                  *)

\* ensureAnotherAdmin.
AnotherAdmin(u) == Admins(db) \ {u} # {}

\* A slip: the row of the user is locked, not the table.
SlipUpdateUser(t, who, u, role) ==
  /\ tx[t].at = "new" /\ db[User(u)] # None
  /\ u \in Admins(db) /\ role # "admin" => AnotherAdmin(u)
  /\ Hold(t, who, {S(UserTable), X(User(u))}, User(u) :> role)

\* Here too the role of who asks is the principal's.
UpdateUser(t, who, u, role) ==
  /\ tx[t].at = "new" /\ db[User(u)] # None
  /\ u \in Admins(db) /\ role # "admin" => AnotherAdmin(u)
  /\ Hold(t, who, {X(UserTable), X(User(u))}, User(u) :> role)

DeleteUser(t, who, u) ==
  /\ tx[t].at = "new" /\ who # u /\ db[User(u)] # None
  /\ u \in Admins(db) => AnotherAdmin(u)
  /\ Hold(t, who, {X(UserTable), X(User(u))}, User(u) :> None)

CreateUser(t, who, u, role) ==
  /\ tx[t].at = "new" /\ db[User(u)] = None
  /\ Hold(t, who, {S(UserTable), X(User(u))}, User(u) :> role)

-----------------------------------------------------------------------------
(* Add-ons.  A call first reads, without locks, what the add-on is assigned *)
(* to and the categories of the profiles concerned: they say which category *)
(* rows to lock.  Once the locks are held both are read again and must not  *)
(* have changed.                                                            *)

\* addonTransportAssigned: another add-on of this transport reaches a profile of hs.
TransportAssigned(url, hs, a) ==
  \E b \in Addons \ {a} :
    /\ db[Addon(b)] = url
    /\ \/ Assigned(db, b) \cap hs # {}
       \/ \E p \in hs \cap Profiles : db[Access(b, Home(db, p))]
       \/ \E p \in Assigned(db, b) \cap Profiles : Home(db, p) \in hs

Visible(a, q) == Exists(db, q) /\ a \in Effective(db, q)

\* The profiles whose categories and rows a call concerns, its active profile among them.
Concerned(call, snap) == ((snap \cup call.holders) \cap Profiles) \cup {call.q}

ReadFor(t, u, call, seen) ==
  LET snap == Assigned(db, call.a)
  IN tx' = [tx EXCEPT ![t] = [@ EXCEPT !.at = "read", !.actor = u, !.call = call, !.snap = snap,
                                       !.homes = HomesOf(db, Concerned(call, snap)), !.seen = seen]]

\* A verified add-on gets a new id; an update or a removal names one the active profile sees.
ReadAddon(t, u, call) ==
  /\ tx[t].at = "new" /\ u \in Users
  /\ IF call.kind = "install"
       THEN /\ db[Addon(call.a)] = None /\ Exists(db, call.q)
            /\ \A s \in Txs : tx[s].call.a # call.a
       ELSE Visible(call.a, call.q)
  /\ ReadFor(t, u, call, None)
  /\ UNCHANGED <<db, plan>>

\* The manifest of the new transport has arrived; a second transaction begins.
FetchedManifest(t) ==
  /\ tx[t].at = "fetching"
  /\ Visible(tx[t].call.a, tx[t].call.q)
  /\ ReadFor(t, tx[t].actor, tx[t].call, tx[t].seen)
  /\ UNCHANGED <<db, plan>>

\* A slip: the categories are not read again.
SlipUnchanged(t) == Assigned(db, tx[t].call.a) = tx[t].snap

\* equalIDs: the snapshot is still true.
Unchanged(t) ==
  LET call == tx[t].call
  IN HomesOf(db, Concerned(call, tx[t].snap)) = tx[t].homes /\ Assigned(db, call.a) = tx[t].snap

\* A slip: the category rows are not locked.
SlipAddonLocks(t) ==
  LET call == tx[t].call
      profiles == Concerned(call, tx[t].snap)
  IN SAll({Profile(p) : p \in profiles}) \cup XAll({AddonLock(p) : p \in profiles})
       \cup {X(Addon(call.a)), S(User(tx[t].actor))} \cup XAll(AccessRows({call.a}, tx[t].snap))

AddonLocks(t) ==
  LET call == tx[t].call
      all == tx[t].snap \cup call.holders
      profiles == Concerned(call, tx[t].snap)
  IN XAll({Category(c) : c \in (all \cap Categories) \cup tx[t].homes})
       \cup SAll({Profile(p) : p \in profiles}) \cup XAll({AddonLock(p) : p \in profiles})
       \cup {X(Addon(call.a)), S(User(tx[t].actor))} \cup XAll(AccessRows({call.a}, tx[t].snap))

\* Categories, a new add-on and a new transport are for administrators.
NeedsAdmin(t) ==
  LET call == tx[t].call
  IN \/ call.kind = "install" \/ (tx[t].snap \cup call.holders) \cap Categories # {}
     \/ call.transport \notin {None, db[Addon(call.a)]}

\* authorizeAssignments and authorizeAddonAssignmentChange, once the locks are granted.
AddonAuthorized(t) ==
  LET call == tx[t].call
  IN /\ tx[t].at = "read"
     /\ \A c \in ((tx[t].snap \cup call.holders) \cap Categories) \cup tx[t].homes : Lives(db, c)
     /\ \A p \in Concerned(call, tx[t].snap) : Exists(db, p)
     /\ NeedsAdmin(t) => tx[t].actor \in Admins(db)
     /\ call.kind # "install" => Visible(call.a, call.q)
     /\ Unchanged(t)

AddonWrites(a, url, hs) == (Addon(a) :> url) @@ [g \in AccessRows({a}, Holders) |-> g[3] \in hs]

HoldAddon(t, writes) == Hold(t, IF NeedsAdmin(t) THEN tx[t].actor ELSE None, AddonLocks(t), writes)

\* With the transport it has, or once the manifest of another was fetched and the add-on is
\* still the one it was fetched for (sameInstalledAddon).
WriteAddon(t) ==
  LET call == tx[t].call
      url == IF call.transport = None THEN db[Addon(call.a)] ELSE call.transport
  IN /\ call.kind \in {"install", "update"}
     /\ AddonAuthorized(t)
     /\ \/ call.kind = "install" \/ url = db[Addon(call.a)]
        \/ tx[t].seen # None /\ tx[t].seen = [url |-> db[Addon(call.a)], holders |-> Assigned(db, call.a)]
     /\ ~TransportAssigned(url, call.holders, call.a)
     /\ HoldAddon(t, AddonWrites(call.a, url, call.holders))

\* A new transport: the first transaction commits before the manifest is fetched.
AuthorizeTransport(t) ==
  LET call == tx[t].call
  IN /\ call.kind = "update" /\ tx[t].seen = None
     /\ call.transport \notin {None, db[Addon(call.a)]}
     /\ AddonAuthorized(t)
     /\ \A s \in Txs \ {t} : tx[s].at = "held" => ~Conflict(AddonLocks(t), tx[s].locks)
     /\ tx' = [tx EXCEPT ![t] = [@ EXCEPT !.at = "fetching", !.seen = [url |-> db[Addon(call.a)], holders |-> Assigned(db, call.a)]]]
     /\ UNCHANGED <<db, plan>>

RemoveAddon(t) ==
  LET call == tx[t].call
  IN /\ call.kind = "remove"
     /\ AddonAuthorized(t)
     /\ HoldAddon(t, AddonWrites(call.a, None, {}))

-----------------------------------------------------------------------------
(* Collections.                                                            *)

\* Who reads the collection once it is assigned to hs: profiles of hs and of categories of hs.
TargetProfiles(hs) == {p \in Profiles : Exists(db, p) /\ (p \in hs \/ Home(db, p) \in hs)}

CategoryOverLimit(d, c) == Cardinality({k \in Collections : d[Access(k, c)]}) > MaxCollections

\* The rows are written first and counted afterwards.
CollectionFits(d, hs) ==
  /\ \A p \in TargetProfiles(hs) : ~OverLimit(d, p)
  /\ \A c \in hs \cap Categories : ~CategoryOverLimit(d, c)

CollectionLocks(k, u, q, hs) ==
  LET all == Assigned(db, k) \cup hs
      profiles == (all \cap Profiles) \cup {q} \cup TargetProfiles(hs)
  IN {X(Collection(k)), S(User(u))} \cup XAll({Category(c) : c \in all \cap Categories})
       \cup XAll(AccessRows({k}, Assigned(db, k)))
       \cup SAll({Profile(p) : p \in profiles}) \cup XAll({CollectionLock(p) : p \in profiles})

CollectionPolicy(k, u, q, hs) ==
  LET all == Assigned(db, k) \cup hs
  IN /\ Exists(db, q) /\ \A p \in all \cap Profiles : Exists(db, p)
     /\ \A c \in all \cap Categories : Lives(db, c)
     /\ all \cap Categories # {} => u \in Admins(db)

CollectionActor(k, u, hs) == IF (Assigned(db, k) \cup hs) \cap Categories = {} THEN None ELSE u

CollectionWrites(k, hs) == (Collection(k) :> TRUE) @@ [g \in AccessRows({k}, Holders) |-> g[3] \in hs]

\* Create and Update; a collection to be updated is one the active profile sees.
SaveCollection(t, u, q, k, hs) ==
  LET writes == CollectionWrites(k, hs)
  IN /\ tx[t].at = "new"
     /\ db[Collection(k)] => Visible(k, q)
     /\ CollectionPolicy(k, u, q, hs)
     /\ CollectionFits(writes @@ db, hs)
     /\ Hold(t, CollectionActor(k, u, hs), CollectionLocks(k, u, q, hs), writes)

DeleteCollection(t, u, q, k) ==
  /\ tx[t].at = "new"
  /\ db[Collection(k)] /\ Visible(k, q)
  /\ CollectionPolicy(k, u, q, {})
  /\ Hold(t, CollectionActor(k, u, {}), CollectionLocks(k, u, q, {}),
          (Collection(k) :> FALSE) @@ [g \in AccessRows({k}, Assigned(db, k)) |-> FALSE])

\* Import counts what the active profile sees before it inserts.
ImportCollection(t, q, k) ==
  /\ tx[t].at = "new" /\ Exists(db, q) /\ ~db[Collection(k)]
  /\ Cardinality(Effective(db, q) \cap Collections) + 1 <= MaxCollections
  /\ Hold(t, None, {S(Profile(q)), X(CollectionLock(q)), X(Collection(k))}, CollectionWrites(k, {q}))

-----------------------------------------------------------------------------
Init == db \in Households /\ plan \in Plans /\ tx = [t \in Txs |-> New]

CategoryStep(t) ==
  \/ \E u \in Users, c \in Categories : CreateCategory(t, u, c) \/ MakeDefault(t, u, c)
  \/ \E u \in Users, c \in Categories :
       \/ \E ps \in (SUBSET Profiles) \ {{}} : (\A p \in ps : Exists(db, p)) /\ MoveProfiles(t, u, ps, c)
       \/ \E d \in (Categories \ {c}) \cup {None} : DeleteCategory(t, u, c, d)

ProfileStep(t) ==
  \E u \in Users \cup {None}, p \in Profiles :
    \/ \E open \in BOOLEAN :
         \/ \E c \in Categories : CreateProfile(t, u, p, c, open)
         \/ \E c \in Categories \cup {None} : UpdateProfile(t, u, p, c, open)
    \/ DeleteProfile(t, u, p)

UserStep(t) ==
  \E who, u \in Users :
    DeleteUser(t, who, u)
      \/ \E role \in {"admin", "user"} : UpdateUser(t, who, u, role) \/ CreateUser(t, who, u, role)

AddonStep(t) ==
  \/ \E u \in Users, call \in AddonCalls : ReadAddon(t, u, call)
  \/ FetchedManifest(t) \/ WriteAddon(t) \/ AuthorizeTransport(t) \/ RemoveAddon(t)

CollectionStep(t) ==
  \E q \in Profiles, k \in Collections :
    \/ ImportCollection(t, q, k)
    \/ \E u \in Users :
         DeleteCollection(t, u, q, k) \/ \E hs \in Assignments : SaveCollection(t, u, q, k, hs)

Next ==
  \E t \in Txs :
    \/ Commit(t) \/ Rollback(t)
    \/ plan[t] = "category" /\ CategoryStep(t)
    \/ plan[t] = "profile" /\ ProfileStep(t)
    \/ plan[t] = "user" /\ UserStep(t)
    \/ plan[t] = "addon" /\ AddonStep(t)
    \/ plan[t] = "collection" /\ CollectionStep(t)

Spec == Init /\ [][Next]_vars

-----------------------------------------------------------------------------
(* Properties.                                                             *)

\* Every row has a value of its kind, a profile lives in a category that exists, and an
\* assignment joins a resource and a profile or category that exist: the foreign keys, which no
\* order of commits may break.
TypeOK == WellFormed(db)

\* No profile sees two add-ons of one transport, whatever assignments to profiles, assignments to
\* categories, moves of profiles and new transports commit side by side: addonTransportAssigned
\* and the checks of a move see each other's writes.  No profile sees more collections than the
\* limit, whether they come from its own assignments, from its category, from an import or from a
\* move.  The two rules hold together, though each is checked by the service it belongs to and the
\* categories change under both.
AssignmentLimits == WithinLimits(db)

\* The household always has an administrator, however demotions and deletions race.
AdministratorRemains == Admins(db) # {}

\* What becomes of a row is for administrators: a category is deleted, a profile moves to another
\* one, is made by an administrator, an add-on has a new transport, or an assignment to a category
\* comes or goes.
Reserved(actor, row, old, new) ==
  /\ new # old
  /\ \/ row[1] = "access_categories" /\ new = "absent"
     \/ row[1] = "profiles" /\ new # None /\ IF old = None THEN actor # None ELSE new.home # old.home
     \/ row[1] = "profile_addons" /\ new # None
     \/ row[1] = "access" /\ row[3] \in Categories

\* Who has lost the role of an administrator, or never had it, moves no profile, deletes no
\* category, assigns nothing to one and installs nothing, however long ago the request began and
\* whichever of the five services it asks: the role was read again, under a lock that a demotion
\* waits for.  Categories made or made the default, users, and the schedule or the deletion of a
\* profile are not among it: there the role that the request began with is enough.
ActorIsAdministrator ==
  [][\A t \in Txs : Commit(t) /\ (\E row \in Rows : Reserved(tx[t].actor, row, db[row], db'[row]))
       => tx[t].actor \in Admins(db)]_vars

\* The last enabled profile without a schedule never leaves a category that keeps profiles.
UnrestrictedKept ==
  [][\A c \in Categories : Unrestricted(db, c) # {} /\ Members(db', c) # {} /\ Lives(db', c)
       => Unrestricted(db', c) # {}]_vars
=============================================================================
