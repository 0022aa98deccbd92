---------------------------- MODULE MCHousehold ----------------------------
(* Household on small instances. *)
EXTENDS Household

CONSTANTS t1, t2, t3, c1, c2, p1, p2, u1, u2, a1, a2, k1, k2, first, other

Base(homes, urls, made, given) ==
  [row \in Rows |->
     CASE row = Category(c1) -> "default"
       [] row[1] = "access_categories" -> IF p2 \in DOMAIN homes THEN "live" ELSE "absent"
       [] row[1] = "profiles" -> IF row[2] \in DOMAIN homes THEN homes[row[2]] ELSE None
       [] row[1] = "users" -> "admin"
       [] row[1] = "profile_addons" -> urls[row[2]]
       [] row[1] = "profile_collections" -> row[2] \in made
       [] OTHER -> <<row[2], row[3]>> \in given]

\* Profiles have their categories, a second category only if p2 is in it.
At(c) == [home |-> c, open |-> TRUE]

\* Two profiles of one category, one of them with a schedule; the other category has no profile but
\* an add-on and a collection that one profile has too.
Together ==
  Base(p1 :> At(c1) @@ p2 :> [home |-> c1, open |-> FALSE], a1 :> first @@ a2 :> None, {k1}, {a1, k1} \X {p2, c2})

\* Two profiles of two categories, an add-on and a collection for one of them or its category;
\* or one profile, whose category has an add-on.
Start ==
  {Base(p1 :> At(c1) @@ p2 :> At(c2), a1 :> first @@ a2 :> None, {k1}, {<<a1, x>>, <<k1, x>>}) : x \in {p2, c2}}
    \cup {Base(p1 :> At(c1), a1 :> first @@ a2 :> None, {}, {<<a1, c1>>})}
    \cup {Together}

TogetherOnly == {Together}

Three(x, y, z) == t1 :> x @@ t2 :> y @@ t3 :> z

Mixes == {Three("addon", "addon", "category"), Three("addon", "addon", "profile"), Three("collection", "collection", "category"),
          Three("collection", "category", "profile"), Three("user", "user", "category"), Three("user", "addon", "collection")}

Asked == {{p1}, {c2}, {p2, c1}}

Call(kind, a, q, hs, to) == [kind |-> kind, a |-> a, q |-> q, holders |-> hs, transport |-> to]

Requests ==
  {Call("install", a2, p1, hs, first) : hs \in {{p1}, {c1}}}
    \cup {Call("update", a1, p2, hs, None) : hs \in {{p1, p2}, {c2}, {p2, c1}}}
    \cup {Call("update", a1, p2, {c2}, other), Call("update", a2, p1, {c1, c2}, None), Call("update", a2, p1, {p1}, other),
          Call("remove", a1, p2, {}, None)}
=============================================================================
