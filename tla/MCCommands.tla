----------------------------- MODULE MCCommands -----------------------------
(* TLC instances of Commands: s1 sends, s2 is the target.                  *)
EXTENDS Commands, TLC

CONSTANTS s1, s2, o1, o2

Calling(s, o, t, i, rev) ==
  [sender |-> s, op |-> o, target |-> t, input |-> i, revision |-> rev]

\* Variants of one operation: another input, another revision.
RaceCalls == {Calling(s1, o1, s2, "load", 0), Calling(s1, o1, s2, "pause", 0),
              Calling(s1, o1, s2, "load", 1)}
\* Two operations for one pending place.
LimitCalls == {Calling(s1, o1, s2, "pause", 0), Calling(s1, o2, s2, "pause", 1)}

RaceAndLimit == {RaceCalls, LimitCalls}
\* One command, sent once or more.
OneCall == {{Calling(s1, o1, s2, "load", 0)}}
=============================================================================
