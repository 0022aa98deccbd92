----------------------------- MODULE MCHLSJobs -----------------------------
(* HLSJobs on small instances. *)
EXTENDS HLSJobs

CONSTANTS c1, c2, a, pre

Pair(x, y, limit0, limits) == [limit |-> limit0, calls |-> [c \in Calls |-> IF c = c1 THEN x ELSE y], limits |-> limits]

Pre(f) == <<"prewarm", <<pre, f>>>>
At(kind, f) == <<kind, <<a, f>>>>

\* A prewarmed generation adopted or shared while the limit changes; a session that changes its
\* start; a seek and a playlist of one session.
Pairs == {Pair(Pre(0), At("start", 0), 2, {1}), Pair(Pre(0), At("start", 0), 1, {2}),
          Pair(Pre(0), Pre(1), 2, {}), Pair(At("start", 0), At("start", 1), 2, {}), Pair(At("seek", 0), At("playlist", 0), 2, {})}
=============================================================================
