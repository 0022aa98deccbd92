------------------------------ MODULE IntentFeed ------------------------------
(***************************************************************************)
(* What the tracking outbox promises, without heads, rows, leases or        *)
(* workers.  Of each title and type of event there is a newest intent,      *)
(* `due`, and a newest intent the provider has seen, `seen`, all counted in *)
(* one order of admission.  A subscription is one connection with one       *)
(* choice of what to synchronise; only a change of subscription may         *)
(* withdraw what was due without anything newer in its place.               *)
(***************************************************************************)
EXTENDS Naturals

CONSTANTS
    Titles,
    Types,
    Overrides        \* type -> other types whose newer intents may replace its own

VARIABLES subscription, due, seen

feedVars == <<subscription, due, seen>>

Init ==
    /\ due = [t \in Titles |-> [type \in Types |-> 0]]
    /\ seen = [t \in Titles |-> [type \in Types |-> 0]]

\* Newer intents replace older ones of their type; one of a type that overrides it
\* may withdraw an older one, if it is newer than everything due of the title.
Admit ==
    /\ \A t \in Titles, type \in Types :
          \/ due'[t][type] >= due[t][type]
          \/ \E other \in Overrides[type] :
                \A any \in Types : due'[t][other] > due[t][any]
    /\ UNCHANGED <<subscription, seen>>

\* The provider sees an intent of a title, perhaps again, perhaps one that was
\* withdrawn while it was on its way: none older than what it has seen of the
\* title, and none that leaves an older one of the title due.
Deliver ==
    /\ \E t \in Titles, type \in Types :
          LET n == seen'[t][type] IN
          /\ seen' = [seen EXCEPT ![t][type] = n]
          /\ due' = [due EXCEPT ![t][type] = IF n > @ THEN n ELSE @]
          /\ \A any \in Types :
                /\ seen[t][any] <= n
                /\ seen[t][any] < due[t][any] => n <= due[t][any]
    /\ UNCHANGED subscription

Resubscribe ==
    /\ subscription' # subscription
    /\ \A t \in Titles, type \in Types : seen'[t][type] <= due'[t][type]

Next == Admit \/ Deliver \/ Resubscribe

CatchesUp == \A t \in Titles, type \in Types : []<>(seen[t][type] = due[t][type])

Spec == Init /\ [][Next]_feedVars /\ CatchesUp
================================================================================
