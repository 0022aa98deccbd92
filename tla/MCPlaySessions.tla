--------------------------- MODULE MCPlaySessions ---------------------------
(* PlaySessions on small instances. *)
EXTENDS PlaySessions

CONSTANTS c1, c2, a, b, d, key, other, plain, rich

\* Two devices of one user, and another user.
Owner == [s \in Sessions |-> s]
User == [s \in Sessions |-> IF s = d THEN "bob" ELSE "ann"]
Profile == User

May == [offers |-> {<<key>>}, withdraw |-> FALSE, failures |-> 0, expire |-> FALSE, lapse |-> FALSE]
Program(x, y, env) == [calls |-> [c \in Calls |-> IF c = c1 THEN x ELSE y], may |-> env]

Ask(kind) == [kind |-> kind, session |-> a, capabilities |-> plain, preference |-> 0, start |-> 0,
              media |-> {1}, plays |-> {1}]
Info == [Ask("info") EXCEPT !.media = {0}]
InfoOf(s) == [Info EXCEPT !.session = s]
Richer == [Ask("info") EXCEPT !.capabilities = rich]
Again == [Richer EXCEPT !.preference = 1]
Seek == [Ask("stream") EXCEPT !.start = 1]
Event(kind) == [Ask(kind) EXCEPT !.media = {0, 1}]
Unnamed == [Ask("progress") EXCEPT !.plays = {0}]

Mix == [
  renegotiate |-> Program(<<Info, Again>>, <<Richer>>, May),
  changes |-> Program(<<Info>>, <<Seek, Again>>, May),
  anonymous |-> Program(<<Info>>, <<Richer>>, [May EXCEPT !.offers = {<<NoKey>>, <<key>>, <<NoKey, NoKey>>}]),
  failover |-> Program(<<Info>>, <<Richer>>, [May EXCEPT !.offers = {<<key, other>>}, !.withdraw = TRUE]),
  withdrawn |-> Program(<<Info>>, <<Seek>>, [May EXCEPT !.offers = {<<key, other>>, <<key>>}, !.withdraw = TRUE]),
  events |-> Program(<<Info, Event("stop")>>, <<Event("progress"), Unnamed>>, May),
  retired |-> Program(<<Info, Event("stop")>>, <<[Richer EXCEPT !.media = Media], Event("progress")>>,
                      [May EXCEPT !.offers = {<<key, other>>, <<other>>}]),
  logout |-> Program(<<Info>>, <<Richer, Ask("logout")>>, [May EXCEPT !.failures = 1]),
  retire |-> Program(<<Info>>, <<Seek, Ask("retire")>>, [May EXCEPT !.failures = 1, !.lapse = TRUE]),
  reset |-> Program(<<Info>>, <<Richer, Ask("reset")>>, May),
  idle |-> Program(<<Info>>, <<Seek, Ask("reap")>>, [May EXCEPT !.expire = TRUE]),
  evict |-> Program(<<Info, Info>>, <<Ask("reap")>>, [May EXCEPT !.expire = TRUE]),
  limits |-> Program(<<Info, InfoOf(b)>>, <<InfoOf(d)>>, May),
  profile |-> Program(<<Info, InfoOf(b), InfoOf(b)>>, <<>>, [May EXCEPT !.failures = 1]),
  rows |-> Program(<<Info, InfoOf(d), InfoOf(b), InfoOf(d)>>, <<>>, [May EXCEPT !.failures = 2])
]
Mixes == {Mix[m] : m \in DOMAIN Mix}
=============================================================================
