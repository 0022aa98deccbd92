----------------------------- MODULE MCWatchState -----------------------------
(***************************************************************************)
(* Instance of WatchState for TLC: a movie and an episode of a series.      *)
(***************************************************************************)
EXTENDS WatchState

MCTitles == {"movie", "episode"}
MCMediaType == [t \in Titles |-> t]
MCTarget == [t \in Titles |-> IF t = "episode" THEN "series" ELSE t]

MCPlayback == {[position |-> 1, completed |-> FALSE], [position |-> 1, completed |-> TRUE]}

\* A resumed position with a favourite, and a title reset.
MCUserDataInputs ==
    {[position |-> {1}, played |-> {}, duration |-> 1, favorite |-> {TRUE}],
     [position |-> {0}, played |-> {FALSE}, duration |-> 1, favorite |-> {FALSE}]}

\* The progress off, or everything on (again).
MCPreferences ==
    {[enabled |-> {}, disabled |-> {"progress"}],
     [enabled |-> Types, disabled |-> {}]}

\* Simkl: a movie leaves the history and the list together.
Simkl ==
    [t \in Titles |-> IF t = "movie" THEN {t} \X {"history", "list"} ELSE {}]

OneTitle == {"movie"}
================================================================================
