--------------------------- MODULE MCAuthSessions ---------------------------
(* AuthSessions on small instances. *)
EXTENDS AuthSessions, TLC

\* Requests are interchangeable.
Symmetry == Permutations(Requests)
=============================================================================
