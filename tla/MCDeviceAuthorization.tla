----------------------- MODULE MCDeviceAuthorization -----------------------
(* Bounded instances of DeviceAuthorization. *)
EXTENDS DeviceAuthorization, TLC

CONSTANTS u1, u2, k1, k2, s1, s2, s3

\* Requests are interchangeable.
Symmetry == Permutations(Requests)

\* A code for a member and an administrator of one category; two for a member whose profile
\* moves between two; three sources that begin five codes nobody approves.
SharedMovingOrBusy ==
  {[users |-> {u1, u2}, categories |-> {k1}, sources |-> {s1}, draws |-> 1],
   [users |-> {u1}, categories |-> {k1, k2}, sources |-> {s1}, draws |-> 2],
   [users |-> {}, categories |-> {k1}, sources |-> {s1, s2, s3}, draws |-> 5]}
=============================================================================
