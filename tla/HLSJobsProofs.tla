--------------------------- MODULE HLSJobsProofs ---------------------------
(***************************************************************************)
(* Theorems about HLSJobs, for any number of sessions, start positions,    *)
(* generations and calls, and any limits of storage.                       *)
(***************************************************************************)
EXTENDS HLSJobs, FiniteSetTheorems, TLAPS

-----------------------------------------------------------------------------
(* The inductive invariant, in parts that mention as few variables as they  *)
(* can: a step disturbs only the parts whose variables it changes.          *)

Stages == {"planned", "done", "select", "others", "retry", "evict", "enter", "job", "wait",
           "joined", "storage", "publish", "made", "retain", "preparing", "serving", "released",
           "reclaim", "file"}
Nexts == {"enter", "job", "others", "retry", "evict"}
Active == {"preparing", "serving"}

\* Job, but for the bounds of its counters: these follow from what is counted (Counted).
Row == [used : BOOLEAN, fingerprint : Starts, phase : 0..2, err : BOOLEAN,
        worker : {"run", "ended", "last", "out"}, requests : Int, preparations : Int,
        stopWhenIdle : BOOLEAN, detached : BOOLEAN, drain : BOOLEAN,
        stop : {"no", "cancel", "drain", "gone"}]

\* A call that retains a job, or is about to, names it and the key that leads to it.
CallRow(row) ==
  /\ row \in Call
  /\ row.stage \in {"made", "retain"} => row.at \in Keys /\ row.job \in Jobs
  /\ row.stage \in Active => row.job \in Jobs

CallsSound == call \in [Calls -> Call] /\ \A c \in Calls : CallRow(call[c])

\* The lock of storage, the goal of the reclaim under way, and the limit that is asked for.
StorageSound ==
  /\ storage \in [by : Calls \cup {Nobody, "monitor", "reset"}, goal : Int, admission : BOOLEAN,
                  victim : Jobs \cup {NoJob}, admitted : BOOLEAN]
  /\ limit \in Limits
  /\ reset \in [stage : {"none", "asked", "held", "done"}, limit : Int, may : SUBSET Limits]
  /\ reset.stage \in {"asked", "held"} => reset.limit \in Limits
  /\ storage.by = "reset" <=> reset.stage = "held"
  /\ storage.by = "reset" => storage.goal = reset.limit

\* The limits read for the reclaims still to come.
ReadSound == read \in [Calls \cup {"monitor"} -> Limits \cup {0}]

RegistryTyped == hlsJobs \in [Keys -> Jobs \cup {NoJob}]
RowsTyped == job \in [Jobs -> Row]

\* The counters of a job count the calls that are on it.
On(j) == {c \in Calls : call[c].stage \in Active /\ call[c].job = j}
Preparing(j) == {c \in Calls : call[c].stage = "preparing" /\ call[c].job = j}
Counted ==
  \A j \in Jobs : /\ job[j].requests = Cardinality(On(j))
                  /\ job[j].preparations = Cardinality(Preparing(j))

\* What a row owes to its bindings: a job that a key leads to is not being taken down, one that
\* no key leads to any more has somebody who will, and its workspace waits for its requests.
RowSound(row, bound) ==
  /\ bound => row.used /\ row.stop = "no" /\ ~row.detached /\ ~row.stopWhenIdle
  /\ row.used /\ ~bound =>
       row.detached \/ row.stop # "no" \/ (row.stopWhenIdle /\ row.requests > 0)
  /\ row.stop = "gone" \/ (row.stop = "cancel" /\ ~row.drain) => row.requests = 0
  /\ ~row.used => row.requests = 0

RowsSound == \A j \in Jobs : RowSound(job[j], j \in Registered)

\* Of the jobs of one fingerprint at most one can still be joined.
ShareableOnce ==
  \A f \in Starts : \A i, j \in Shared(f) : i = j

HLSInv ==
  /\ RegistryTyped /\ RowsTyped /\ CallsSound /\ StorageSound /\ ReadSound
  /\ Counted /\ RowsSound /\ ShareableOnce

-----------------------------------------------------------------------------
(* Calls.                                                                  *)

LEMMA StageRows ==
  ASSUME NEW stage \in Stages, NEW kind \in {"seek", "playlist", "prewarm", "start", "restart"},
         NEW key \in Keys, stage \notin Active \cup {"made", "retain"}
  PROVE  CallRow(AtStage(stage, <<kind, key>>))
BY DEF AtStage, CallRow, Call, Stages, Active

LEMMA CallGoes ==
  ASSUME CallsSound, NEW c \in Calls, NEW row, CallRow(row), Goes(c, row)
  PROVE  CallsSound'
BY DEF CallsSound, CallRow, Goes

LEMMA CallsKept ==
  ASSUME CallsSound, UNCHANGED call
  PROVE  CallsSound'
BY DEF CallsSound, CallRow

\* Where the steps of a call lead it.
LEMMA CallRows ==
  ASSUME NEW row \in Call, NEW k \in Keys, NEW j \in Jobs
  PROVE  /\ CallRow([row EXCEPT !.stage = "preparing", !.job = j])
         /\ CallRow([row EXCEPT !.stage = "preparing", !.job = j, !.at = NoKey])
         /\ CallRow([row EXCEPT !.stage = "retain", !.at = k, !.job = j])
         /\ CallRow([row EXCEPT !.stage = "made", !.at = k, !.job = j])
         /\ CallRow([row EXCEPT !.stage = "file", !.job = j])
         /\ CallRow([row EXCEPT !.stage = "file", !.kind = "restart", !.job = j])
<1> USE DEF CallRow, Call, Active
<1>1. CallRow([row EXCEPT !.stage = "preparing", !.job = j])
  OBVIOUS
<1>2. CallRow([row EXCEPT !.stage = "preparing", !.job = j, !.at = NoKey])
  OBVIOUS
<1>3. CallRow([row EXCEPT !.stage = "retain", !.at = k, !.job = j])
  OBVIOUS
<1>4. CallRow([row EXCEPT !.stage = "made", !.at = k, !.job = j])
  OBVIOUS
<1>5. CallRow([row EXCEPT !.stage = "file", !.job = j])
  OBVIOUS
<1>6. CallRow([row EXCEPT !.stage = "file", !.kind = "restart", !.job = j])
  OBVIOUS
<1> QED
  BY <1>1, <1>2, <1>3, <1>4, <1>5, <1>6

LEMMA CallRowsStage ==
  ASSUME NEW row \in Call, NEW stage \in Stages \ (Active \cup {"made", "retain"})
  PROVE  CallRow([row EXCEPT !.stage = stage])
BY DEF CallRow, Call, Stages, Active

LEMMA CallRowsFree ==
  ASSUME NEW row \in Call
  PROVE  /\ CallRow([row EXCEPT !.stage = "select", !.at = NoKey, !.job = NoJob])
         /\ CallRow(AfterWait(row))
<1> USE DEF CallRow, Call, Active
<1>2. CallRow([row EXCEPT !.stage = "select", !.at = NoKey, !.job = NoJob])
  OBVIOUS
<1>3. CallRow(AfterWait(row))
  BY DEF AfterWait
<1> QED
  BY <1>2, <1>3

LEMMA CallRowsTodo ==
  ASSUME NEW row \in Call, NEW todo \in SUBSET Keys,
         NEW stage \in {"select", "others", "enter", "job", "evict"}
  PROVE  CallRow([row EXCEPT !.stage = stage, !.todo = todo])
BY DEF CallRow, Call, Active

\* A key is stopped at once, and the call goes on from there.
LEMMA CallRowsStop ==
  ASSUME NEW row \in Call, NEW k \in Keys, NEW q \in Jobs \cup {NoJob}
  PROVE  /\ [row EXCEPT !.at = k, !.next = "evict"] \in Call
         /\ [row EXCEPT !.kind = "restart", !.at = k, !.next = "retry"] \in Call
         /\ CallRow([row EXCEPT !.stage = "joined", !.job = q])
<1> USE DEF CallRow, Call, Active
<1>1. [row EXCEPT !.at = k, !.next = "evict"] \in Call
  OBVIOUS
<1>2. [row EXCEPT !.kind = "restart", !.at = k, !.next = "retry"] \in Call
  OBVIOUS
<1>3. CallRow([row EXCEPT !.stage = "joined", !.job = q])
  OBVIOUS
<1> QED
  BY <1>1, <1>2, <1>3

LEMMA CallRowsWait ==
  ASSUME NEW row \in Call, NEW k \in Keys, NEW q \in Jobs \cup {NoJob},
         NEW next \in Nexts, NEW passed \in BOOLEAN
  PROVE  CallRow([row EXCEPT !.stage = "wait", !.at = k, !.job = q, !.next = next,
                             !.passed = passed])
<1> DEFINE low == [row EXCEPT !.stage = "wait", !.at = k, !.job = q]
           mid == [low EXCEPT !.next = next]
<1>1. low \in Call /\ low.stage = "wait"
  BY DEF Call
<1>2. [row EXCEPT !.stage = "wait", !.at = k, !.job = q, !.next = next, !.passed = passed]
        = [mid EXCEPT !.passed = passed]
  BY DEF Call
<1> HIDE DEF low
<1>4. mid \in Call /\ mid.stage = "wait"
  BY <1>1 DEF Call, Nexts
<1> HIDE DEF mid
<1>3. [mid EXCEPT !.passed = passed] \in Call /\ [mid EXCEPT !.passed = passed].stage = "wait"
  BY <1>4 DEF Call
<1> QED
  BY <1>2, <1>3 DEF CallRow, Active

LEMMA GoesOnSound ==
  ASSUME CallsSound, NEW c \in Calls, NEW j \in Jobs, GoesOn(c, j)
  PROVE  CallsSound'
<1>1. call[c] \in Call /\ call[c].kind \in {"seek", "playlist", "prewarm", "start", "restart"}
      /\ call[c].key \in Keys
  BY DEF CallsSound, Call
<1>2. CASE call[c].kind \in {"seek", "playlist"}
  <2>1. Goes(c, [call[c] EXCEPT !.stage = "made", !.at = call[c].key, !.job = j])
    BY <1>2 DEF GoesOn
  <2>2. CallRow([call[c] EXCEPT !.stage = "made", !.at = call[c].key, !.job = j])
    BY <1>1, CallRows
  <2> QED
    BY <2>1, <2>2, CallGoes
<1>3. CASE call[c].kind \in {"start", "restart"}
  <2>1. Goes(c, [call[c] EXCEPT !.stage = "file", !.job = j])
    BY <1>3 DEF GoesOn
  <2>2. CallRow([call[c] EXCEPT !.stage = "file", !.job = j])
    BY <1>1, CallRows
  <2> QED
    BY <2>1, <2>2, CallGoes
<1>4. CASE call[c].kind = "prewarm"
  <2>1. Goes(c, AtStage("done", <<call[c].kind, call[c].key>>))
    BY <1>4 DEF GoesOn
  <2>2. CallRow(AtStage("done", <<call[c].kind, call[c].key>>))
    BY <1>1, StageRows DEF Stages, Active
  <2> QED
    BY <2>1, <2>2, CallGoes
<1> QED
  BY <1>1, <1>2, <1>3, <1>4

LEMMA EndsSound ==
  ASSUME CallsSound, NEW c \in Calls, Ends(c)
  PROVE  CallsSound'
<1>1. CallRow(AtStage("done", <<call[c].kind, call[c].key>>))
  BY StageRows DEF Stages, Active, CallsSound, Call
<1> QED
  BY <1>1, CallGoes DEF Ends

LEMMA WaitSound ==
  ASSUME CallsSound, RegistryTyped, RowsTyped, NEW c \in Calls, NEW k \in Keys,
         NEW next \in Nexts, StopAfterPreparations(c, k, next)
  PROVE  CallsSound'
<1> DEFINE passed == job[hlsJobs[k]].preparations = 0
<1>1. passed \in BOOLEAN /\ hlsJobs[k] \in Jobs \cup {NoJob} /\ call[c] \in Call
  BY DEF RegistryTyped, CallsSound
<1>2. Goes(c, [call[c] EXCEPT !.stage = "wait", !.at = k, !.job = hlsJobs[k], !.next = next,
                              !.passed = passed])
  BY DEF StopAfterPreparations
<1> HIDE DEF passed
<1> QED
  BY <1>1, <1>2, CallRowsWait, CallGoes

LEMMA StopsKeySound ==
  ASSUME CallsSound, RegistryTyped, NEW c \in Calls, NEW k \in Keys, NEW row \in Call,
         StopsKey(c, k, row)
  PROVE  CallsSound'
<1>1. Goes(c, AfterWait(row)) \/ Goes(c, [row EXCEPT !.stage = "joined", !.job = hlsJobs[k]])
  BY DEF StopsKey
<1>2. hlsJobs[k] \in Jobs \cup {NoJob}
  BY DEF RegistryTyped
<1> QED
  BY <1>1, <1>2, CallRowsStop, CallRowsFree, CallGoes

\* What is left to do is a matter of keys.
LEMMA OthersKeys ==
  ASSUME NEW c \in Calls, call[c].key \in Keys
  PROVE  Others(c) \in SUBSET Keys
BY DEF Others, Prefix, Keys

LEMMA CallRowsRetained ==
  ASSUME NEW row \in Call, row.job \in Jobs
  PROVE  /\ CallRow([row EXCEPT !.stage = "preparing", !.at = NoKey])
         /\ CallRow([row EXCEPT !.stage = "serving"])
         /\ row.at \in Keys => CallRow([row EXCEPT !.stage = "retain"])
BY DEF CallRow, Call, Active

\* The end of a preparation only touches the calls that wait for it.
LEMMA InformedSound ==
  ASSUME NEW rows \in [Calls -> Call], \A c \in Calls : CallRow(rows[c]), NEW j
  PROVE  /\ Informed(j, rows) \in [Calls -> Call]
         /\ \A c \in Calls : /\ CallRow(Informed(j, rows)[c])
                             /\ Informed(j, rows)[c].stage = rows[c].stage
                             /\ Informed(j, rows)[c].job = rows[c].job
<1>1. ASSUME NEW c \in Calls
      PROVE  /\ Informed(j, rows)[c] \in Call
             /\ CallRow(Informed(j, rows)[c])
             /\ Informed(j, rows)[c].stage = rows[c].stage
             /\ Informed(j, rows)[c].job = rows[c].job
  <2>1. rows[c] \in Call /\ CallRow(rows[c])
    BY <1>1
  <2>2. Informed(j, rows)[c] = [rows[c] EXCEPT !.passed = TRUE] \/ Informed(j, rows)[c] = rows[c]
    BY <1>1 DEF Informed
  <2> QED
    BY <2>1, <2>2 DEF CallRow, Call, Active
<1> QED
  BY <1>1 DEF Informed

LEMMA CallsStep ==
  ASSUME HLSInv, Next
  PROVE  CallsSound'
<1> USE DEF HLSInv
<1>0. ASSUME NEW c \in Calls
      PROVE  call[c] \in Call /\ CallRow(call[c]) /\ call[c].key \in Keys
  BY <1>0 DEF CallsSound, Call
<1>1. ASSUME NEW c \in Calls, BeginCall(c) PROVE CallsSound'
  <2> DEFINE stage == First(call[c].kind)
             todo == IF call[c].kind = "prewarm" THEN Others(c) ELSE {}
  <2>1. Goes(c, [call[c] EXCEPT !.stage = stage, !.todo = todo])
    BY <1>1 DEF BeginCall
  <2>2. stage \in {"select", "others", "enter"} /\ todo \in SUBSET Keys
    BY <1>0, OthersKeys DEF First
  <2> HIDE DEF stage, todo
  <2> QED
    BY <1>0, <2>1, <2>2, CallRowsTodo, CallGoes
<1>2. ASSUME NEW c \in Calls, SelectActive(c) PROVE CallsSound'
  <2> DEFINE found == {hlsJobs[k] : k \in Prefix(call[c].key[1])} \ {NoJob}
  <2>1. CASE Goes(c, [call[c] EXCEPT !.stage = "enter"])
    BY <1>0, <2>1, CallRowsStage, CallGoes DEF Stages, Active
  <2>2. CASE \E j \in found : Goes(c, [call[c] EXCEPT !.stage = "preparing", !.job = j])
    <3>1. PICK j \in found : Goes(c, [call[c] EXCEPT !.stage = "preparing", !.job = j])
      BY <2>2
    <3>2. Prefix(call[c].key[1]) \subseteq Keys
      BY <1>0 DEF Prefix, Keys
    <3>3. j \in Jobs
      BY <3>2 DEF RegistryTyped
    <3> QED
      BY <1>0, <3>1, <3>3, CallRows, CallGoes
  <2> QED
    BY <1>2, <2>1, <2>2 DEF SelectActive
<1>3. ASSUME NEW c \in Calls, SelectGeneration(c) PROVE CallsSound'
  <2> DEFINE k == call[c].key
  <2>1. CASE \E q \in MayCover(k) :
               Goes(c, [call[c] EXCEPT !.stage = "retain", !.at = q, !.job = hlsJobs[q]])
    <3>1. PICK q \in MayCover(k) :
            Goes(c, [call[c] EXCEPT !.stage = "retain", !.at = q, !.job = hlsJobs[q]])
      BY <2>1
    <3>2. q \in Keys
      BY <1>0, <3>1 DEF Prefix, Keys, MayCover
    <3>3. hlsJobs[q] \in Jobs
      BY <3>1, <3>2 DEF MayCover, RegistryTyped
    <3> QED
      BY <1>0, <3>1, <3>2, <3>3, CallRows, CallGoes
  <2>2. CASE StopAfterPreparations(c, k, "enter")
    BY <1>0, <2>2, WaitSound DEF Nexts
  <2>3. CASE Goes(c, [call[c] EXCEPT !.stage = "enter"])
    BY <1>0, <2>3, CallRowsStage, CallGoes DEF Stages, Active
  <2> QED
    BY <1>3, <2>1, <2>2, <2>3 DEF SelectGeneration
<1>4. ASSUME NEW c \in Calls, StopWaited(c) PROVE CallsSound'
  <2>1. Goes(c, [call[c] EXCEPT !.stage = "joined"]) \/ Goes(c, AfterWait(call[c]))
    BY <1>4 DEF StopWaited
  <2>2. CallRow([call[c] EXCEPT !.stage = "joined"]) /\ CallRow(AfterWait(call[c]))
    BY <1>0, CallRowsStage, CallRowsFree DEF Stages, Active
  <2> QED
    BY <2>1, <2>2, CallGoes
<1>5. ASSUME NEW c \in Calls, StopJoined(c) PROVE CallsSound'
  BY <1>0, <1>5, CallRowsFree, CallGoes DEF StopJoined
<1>6. ASSUME NEW c \in Calls, AdoptJob(c) PROVE CallsSound'
  <2> DEFINE k == call[c].key
  <2>1. PICK p \in Adoptable(k) :
          Goes(c, [call[c] EXCEPT !.stage = "file", !.kind = "restart",
                                  !.job = hlsJobs[<<p, k[2]>>]])
    BY <1>6 DEF AdoptJob
  <2>2. <<p, k[2]>> \in Keys
    BY <1>0, HLSJobsAssumption DEF Adoptable, Keys
  <2>3. hlsJobs[<<p, k[2]>>] \in Jobs
    BY <2>2 DEF Adoptable, RegistryTyped
  <2> QED
    BY <1>0, <2>1, <2>3, CallRows, CallGoes
<1>7. ASSUME NEW c \in Calls, EnterJob(c) PROVE CallsSound'
  <2> DEFINE todo == Others(c)
  <2>1. todo \in SUBSET Keys
    BY <1>0, OthersKeys
  <2>2. Goes(c, [call[c] EXCEPT !.stage = "job", !.todo = todo])
    BY <1>7 DEF EnterJob
  <2> HIDE DEF todo
  <2> QED
    BY <1>0, <2>1, <2>2, CallRowsTodo, CallGoes
<1>8. ASSUME NEW c \in Calls, StopOther(c) PROVE CallsSound'
  <2>1. PICK k \in call[c].todo :
          \/ Goes(c, [call[c] EXCEPT !.todo = @ \ {k}])
          \/ StopAfterPreparations(c, k, call[c].stage)
    BY <1>8 DEF StopOther
  <2>2. k \in Keys /\ call[c].stage \in {"others", "job"}
    BY <1>0, <1>8 DEF Call, StopOther
  <2>3. CASE StopAfterPreparations(c, k, call[c].stage)
    BY <2>2, <2>3, WaitSound DEF Nexts
  <2>4. CASE Goes(c, [call[c] EXCEPT !.todo = @ \ {k}])
    <3>1. CallRow([call[c] EXCEPT !.todo = @ \ {k}])
      BY <1>0, <2>2 DEF CallRow, Call, Active
    <3> QED
      BY <2>4, <3>1, CallGoes
  <2> QED
    BY <2>1, <2>3, <2>4
<1>9. ASSUME NEW c \in Calls, FindJob(c) PROVE CallsSound'
  <2> DEFINE k == call[c].key
  <2>1. hlsJobs[k] \in Jobs \cup {NoJob} /\ Shared(k[2]) \subseteq Jobs
    BY <1>0 DEF RegistryTyped, Shared, Registered
  <2>2. CASE hlsJobs[k] # NoJob /\ GoesOn(c, hlsJobs[k])
    BY <2>1, <2>2, GoesOnSound
  <2>3. CASE StopAfterPreparations(c, k, "job")
    BY <1>0, <2>3, WaitSound DEF Nexts
  <2>4. CASE \E shared \in Shared(k[2]) : GoesOn(c, shared)
    BY <2>1, <2>4, GoesOnSound
  <2>5. CASE Goes(c, [call[c] EXCEPT !.stage = "storage"])
    BY <1>0, <2>5, CallRowsStage, CallGoes DEF Stages, Active
  <2> QED
    BY <1>9, <2>2, <2>3, <2>4, <2>5 DEF FindJob
<1>10. ASSUME NEW c \in Calls, AdmitStorage(c) PROVE CallsSound'
  BY <1>0, <1>10, CallRowsStage, CallGoes DEF AdmitStorage, Stages, Active
<1>11. ASSUME NEW c \in Calls, PublishJob(c) PROVE CallsSound'
  <2> DEFINE k == call[c].key
  <2>1. Shared(k[2]) \subseteq Jobs
    BY DEF Shared, Registered
  <2>2. CASE Goes(c, [call[c] EXCEPT !.stage = "job"])
    BY <1>0, <2>2, CallRowsStage, CallGoes DEF Stages, Active
  <2>3. CASE \E shared \in Shared(k[2]) : GoesOn(c, shared)
    BY <2>1, <2>3, GoesOnSound
  <2>4. CASE \E j \in Jobs : GoesOn(c, j)
    BY <2>4, GoesOnSound
  <2>5. CASE Ends(c)
    BY <2>5, EndsSound
  <2> QED
    BY <1>11, <2>2, <2>3, <2>4, <2>5 DEF PublishJob
<1>20. ASSUME NEW c \in Calls, Admitted(c) PROVE CallsSound'
  BY <1>20, EndsSound, CallsKept DEF Admitted
<1>21. ASSUME NEW c \in Calls, ReadLimit(c) PROVE CallsSound'
  BY <1>0, <1>21, CallRowsStage, CallGoes DEF ReadLimit, Stages, Active
<1>12. ASSUME NEW c \in Calls, RetainJob(c) PROVE CallsSound'
  <2>1. \/ Goes(c, [call[c] EXCEPT !.stage = "preparing", !.at = NoKey])
        \/ Goes(c, [call[c] EXCEPT !.stage = "select", !.at = NoKey, !.job = NoJob])
    BY <1>12 DEF RetainJob
  <2>2. call[c].job \in Jobs
    BY <1>0, <1>12 DEF RetainJob, CallRow
  <2> QED
    BY <1>0, <2>1, <2>2, CallRowsRetained, CallRowsFree, CallGoes
<1>13. ASSUME NEW c \in Calls, Promote(c) PROVE CallsSound'
  <2> DEFINE rows == [call EXCEPT ![c].stage = "serving"]
  <2>1. CallRow([call[c] EXCEPT !.stage = "serving"])
    BY <1>0, <1>13, CallRowsRetained DEF Promote, CallRow, Active
  <2>2. rows \in [Calls -> Call] /\ \A d \in Calls : CallRow(rows[d])
    BY <1>0, <2>1 DEF CallRow, CallsSound
  <2>3. call' = Informed(call[c].job, rows)
    BY <1>13 DEF Promote
  <2> HIDE DEF rows
  <2> QED
    BY <2>2, <2>3, InformedSound DEF CallsSound, CallRow
<1>14. ASSUME NEW c \in Calls, ReleaseJob(c) PROVE CallsSound'
  <2> DEFINE rows == [call EXCEPT ![c].stage = "released"]
  <2>1. CallRow([call[c] EXCEPT !.stage = "released"])
    BY <1>0, CallRowsStage DEF Stages, Active
  <2>2. rows \in [Calls -> Call] /\ \A d \in Calls : CallRow(rows[d])
    BY <1>0, <2>1 DEF CallRow, CallsSound
  <2>3. call' = rows \/ call' = Informed(call[c].job, rows)
    BY <1>14 DEF ReleaseJob
  <2> HIDE DEF rows
  <2> QED
    BY <2>2, <2>3, InformedSound DEF CallsSound, CallRow
<1>15. ASSUME NEW c \in Calls, EndCall(c) \/ AwaitFile(c) \/ CancelCall(c) PROVE CallsSound'
  BY <1>15, EndsSound DEF EndCall, AwaitFile, CancelCall
<1>16. ASSUME NEW c \in Calls, RetryStart(c) PROVE CallsSound'
  <2> DEFINE k == call[c].key
             row == [call[c] EXCEPT !.kind = "restart", !.at = k, !.next = "retry"]
  <2>1. StopsKey(c, k, row)
    BY <1>16 DEF RetryStart
  <2>2. row \in Call
    BY <1>0, CallRowsStop
  <2> HIDE DEF row
  <2> QED
    BY <1>0, <2>1, <2>2, StopsKeySound
<1>22. ASSUME NEW c \in Calls, EvictPrewarmed(c) PROVE CallsSound'
  <2> DEFINE todo == {k \in Keys : k[1] \in Prewarm /\ hlsJobs[k] # NoJob}
  <2>1. Goes(c, [call[c] EXCEPT !.stage = "evict", !.todo = todo]) /\ todo \in SUBSET Keys
    BY <1>22 DEF EvictPrewarmed
  <2> HIDE DEF todo
  <2> QED
    BY <1>0, <2>1, CallRowsTodo, CallGoes
<1>23. ASSUME NEW c \in Calls, StopPrewarmed(c) PROVE CallsSound'
  <2>1. PICK k \in call[c].todo : StopsKey(c, k, [call[c] EXCEPT !.at = k, !.next = "evict"])
    BY <1>23 DEF StopPrewarmed
  <2>2. k \in Keys
    BY <1>0 DEF Call
  <2>3. [call[c] EXCEPT !.at = k, !.next = "evict"] \in Call
    BY <1>0, <2>2, CallRowsStop
  <2> QED
    BY <2>1, <2>2, <2>3, StopsKeySound
<1>17. CASE UNCHANGED call
  BY <1>17, CallsKept
<1>18. ASSUME NEW j \in Jobs, Stopping(j) \/ Leaving(j) \/ Encode(j) \/ EncoderEnds(j)
       PROVE  UNCHANGED call
  BY <1>18 DEF Stopping, Leaving, Encode, EncoderEnds, DecideStop, EncoderLeft, Drained,
               EncoderLeaves, LastWriter
<1>19. ASSUME \/ \E k \in Keys : Detach(k)
              \/ \E l \in Limits : AskReset(l)
              \/ MonitorReads \/ MonitorTick \/ Reclaiming \/ Resetting
       PROVE  UNCHANGED call
  BY <1>19 DEF Detach, AskReset, MonitorReads, MonitorTick, Reclaiming, Resetting, ReclaimStep, ReclaimNext,
               MonitorEnds, RaiseLimit, LowerLimit, PublishLimit
<1> QED
  BY <1>1, <1>2, <1>3, <1>4, <1>5, <1>6, <1>7, <1>8, <1>9, <1>10, <1>11, <1>12, <1>13, <1>14,
     <1>15, <1>16, <1>17, <1>18, <1>19, <1>20, <1>21, <1>22, <1>23 DEF Next, Steps

-----------------------------------------------------------------------------
(* The lock of storage.                                                    *)

LEMMA LimitsNat == Limits \subseteq Nat \ {0} /\ Limits \subseteq Int
BY HLSJobsAssumption

LEMMA StorageKept ==
  ASSUME StorageSound, UNCHANGED <<storage, limit, reset>>
  PROVE  StorageSound'
BY DEF StorageSound

\* A reclaim begins on behalf of the monitor or of a call.
LEMMA ReclaimSound ==
  ASSUME StorageSound, NEW who \in Calls \cup {"monitor"}, NEW admission \in BOOLEAN,
         NEW goal \in Int, Reclaim(who, goal, admission), UNCHANGED <<limit, reset>>
  PROVE  StorageSound'
<1>1. who \notin {Nobody, "reset"}
  BY HLSJobsAssumption DEF Nobody
<1>2. storage' = [by |-> who, goal |-> goal, admission |-> admission, victim |-> NoJob,
                  admitted |-> FALSE]
      /\ storage.by = Nobody
  BY DEF Reclaim
<1> QED
  BY <1>1, <1>2 DEF StorageSound, Nobody

LEMMA ReclaimReadSound ==
  ASSUME StorageSound, ReadSound, NEW who \in Calls \cup {"monitor"}, ReclaimRead(who),
         UNCHANGED <<limit, reset>>
  PROVE  StorageSound'
<1>1. read[who] \in Limits \cup {0} /\ Limits \subseteq Int
  BY LimitsNat DEF ReadSound
<1>2. UNCHANGED storage \/ Reclaim("monitor", read[who], FALSE)
  BY DEF ReclaimRead
<1>3. read[who] \in Int
  <2>1. CASE read[who] \in Limits
    BY <1>1, <2>1
  <2>2. CASE read[who] = 0
    BY <2>2
  <2> QED
    BY <1>1, <2>1, <2>2
<1>4. CASE UNCHANGED storage
  BY <1>4, StorageKept
<1>5. CASE Reclaim("monitor", read[who], FALSE)
  <2> DEFINE goal == read[who]
  <2>1. goal \in Int /\ Reclaim("monitor", goal, FALSE) /\ "monitor" \in Calls \cup {"monitor"}
    BY <1>3, <1>5
  <2> HIDE DEF goal
  <2> QED
    BY <2>1, ReclaimSound
<1> QED
  BY <1>2, <1>4, <1>5

\* It ends.
LEMMA FreeSound ==
  ASSUME StorageSound, storage.by # "reset", storage' = Free, UNCHANGED <<limit, reset>>
  PROVE  StorageSound'
<1>1. Nobody \notin Calls \cup {"reset", "monitor"}
  BY HLSJobsAssumption DEF Nobody
<1> QED
  BY <1>1 DEF StorageSound, Free

LEMMA StorageStep ==
  ASSUME HLSInv, Next
  PROVE  StorageSound'
<1> USE DEF HLSInv
<1>1. CASE UNCHANGED <<storage, limit, reset>>
  BY <1>1, StorageKept
<1>0. limit \in Int
  BY LimitsNat DEF StorageSound
<1>2. CASE MonitorTick
  BY <1>2, ReclaimReadSound DEF MonitorTick
<1>3. ASSUME NEW j \in Jobs, LastWriter(j) PROVE StorageSound'
  <2>1. CASE UNCHANGED storage
    BY <1>3, <2>1, StorageKept DEF LastWriter
  <2>2. CASE Reclaim("monitor", limit, FALSE)
    BY <1>0, <1>3, <2>2, ReclaimSound DEF LastWriter
  <2> QED
    BY <1>3, <2>1, <2>2 DEF LastWriter
<1>4. CASE ReclaimStep
  <2>1. PICK j \in Preferred : storage' = [storage EXCEPT !.victim = j]
    BY <1>4 DEF ReclaimStep
  <2>2. j \in Jobs
    BY DEF Preferred, Registered
  <2> QED
    BY <1>4, <2>1, <2>2 DEF ReclaimStep, StorageSound
<1>5. CASE ReclaimNext
  BY <1>5 DEF ReclaimNext, StorageSound
<1>6. CASE MonitorEnds
  BY <1>6, FreeSound DEF MonitorEnds, Reclaimed
<1>7. ASSUME NEW l \in Limits, AskReset(l) PROVE StorageSound'
  BY <1>7, LimitsNat DEF AskReset, StorageSound
<1>8. CASE RaiseLimit
  <2>1. Nobody \notin Calls \cup {"reset", "monitor"}
    BY HLSJobsAssumption DEF Nobody
  <2> QED
    BY <1>8, <2>1 DEF RaiseLimit, StorageSound
<1>9. CASE LowerLimit
  <2>1. "reset" \notin Calls \cup {"monitor", Nobody}
    BY HLSJobsAssumption DEF Nobody
  <2> QED
    BY <1>9, <2>1, LimitsNat DEF LowerLimit, Reclaim, StorageSound
<1>10. CASE PublishLimit
  <2>1. Nobody \notin Calls \cup {"reset", "monitor"}
    BY HLSJobsAssumption DEF Nobody
  <2>2. storage.by = "reset"
    BY <1>10 DEF PublishLimit, Reclaimed
  <2> QED
    BY <1>10, <2>1, <2>2, LimitsNat DEF PublishLimit, StorageSound, Free
<1>11. ASSUME NEW c \in Calls, AdmitStorage(c) PROVE StorageSound'
  BY <1>0, <1>11, ReclaimSound DEF AdmitStorage
<1>12. ASSUME NEW c \in Calls, PublishJob(c) PROVE StorageSound'
  <2>1. storage.by # "reset"
    BY <1>12, HLSJobsAssumption DEF PublishJob
  <2>2. storage' = Free /\ UNCHANGED <<limit, reset>>
    BY <1>12 DEF PublishJob
  <2> QED
    BY <2>1, <2>2, FreeSound
<1>13. ASSUME NEW c \in Calls, EndCall(c) PROVE StorageSound'
  BY <1>13, ReclaimReadSound DEF EndCall
<1>17. ASSUME NEW c \in Calls, Admitted(c) PROVE StorageSound'
  <2>1. storage.by # "reset" /\ UNCHANGED <<limit, reset>>
    BY <1>17, HLSJobsAssumption DEF Admitted, Reclaimed
  <2>2. CASE storage' = [storage EXCEPT !.admitted = TRUE]
    BY <2>1, <2>2 DEF StorageSound
  <2>3. CASE storage' = Free
    BY <2>1, <2>3, FreeSound
  <2> QED
    BY <1>17, <2>2, <2>3 DEF Admitted
<1>14. ASSUME NEW c \in Calls,
              \/ BeginCall(c) \/ SelectActive(c) \/ SelectGeneration(c) \/ StopWaited(c)
              \/ StopJoined(c) \/ AdoptJob(c) \/ EnterJob(c) \/ StopOther(c) \/ FindJob(c)
              \/ RetainJob(c) \/ ReleaseJob(c) \/ ReadLimit(c) \/ AwaitFile(c) \/ RetryStart(c)
              \/ EvictPrewarmed(c) \/ StopPrewarmed(c) \/ Promote(c) \/ CancelCall(c)
       PROVE  UNCHANGED <<storage, limit, reset>>
  BY <1>14 DEF ReadLimit, EvictPrewarmed, StopPrewarmed, BeginCall, SelectActive, SelectGeneration, StopWaited, StopJoined, AdoptJob,
               EnterJob, StopOther, FindJob, RetainJob, ReleaseJob, AwaitFile, RetryStart,
               Promote, CancelCall
<1>15. ASSUME NEW j \in Jobs,
              Stopping(j) \/ EncoderLeaves(j) \/ Encode(j) \/ EncoderEnds(j)
       PROVE  UNCHANGED <<storage, limit, reset>>
  BY <1>15 DEF Stopping, Encode, EncoderEnds, DecideStop, EncoderLeft, Drained, EncoderLeaves
<1>16. ASSUME MonitorReads \/ \E k \in Keys : Detach(k) PROVE UNCHANGED <<storage, limit, reset>>
  BY <1>16 DEF Detach, MonitorReads
<1> QED
  BY <1>1, <1>2, <1>3, <1>4, <1>5, <1>6, <1>7, <1>8, <1>9, <1>10, <1>11, <1>12, <1>13, <1>14,
     <1>15, <1>16, <1>17 DEF Next, Steps, Leaving, Reclaiming, Resetting

LEMMA ReadStep ==
  ASSUME HLSInv, Next
  PROVE  ReadSound'
<1> USE DEF HLSInv
<1>1. CASE UNCHANGED read
  BY <1>1 DEF ReadSound
<1>2. ASSUME NEW who \in Calls \cup {"monitor"}, ReclaimRead(who) \/ ReadsLimit(who)
      PROVE  ReadSound'
  <2>1. limit \in Limits
    BY DEF StorageSound
  <2> QED
    BY <1>2, <2>1 DEF ReclaimRead, ReadsLimit, ReadSound
<1>3. CASE MonitorReads \/ MonitorTick
  BY <1>2, <1>3 DEF MonitorReads, MonitorTick
<1>4. ASSUME NEW c \in Calls, ReadLimit(c) \/ EndCall(c) PROVE ReadSound'
  BY <1>2, <1>4 DEF ReadLimit, EndCall
<1>5. ASSUME NEW c \in Calls,
             \/ BeginCall(c) \/ SelectActive(c) \/ SelectGeneration(c) \/ StopWaited(c)
             \/ StopJoined(c) \/ AdoptJob(c) \/ EnterJob(c) \/ StopOther(c) \/ FindJob(c)
             \/ AdmitStorage(c) \/ Admitted(c) \/ PublishJob(c) \/ RetainJob(c) \/ ReleaseJob(c)
             \/ AwaitFile(c) \/ RetryStart(c) \/ EvictPrewarmed(c) \/ StopPrewarmed(c)
             \/ Promote(c) \/ CancelCall(c)
      PROVE  UNCHANGED read
  BY <1>5 DEF BeginCall, SelectActive, SelectGeneration, StopWaited, StopJoined, AdoptJob,
              EnterJob, StopOther, FindJob, AdmitStorage, Admitted, PublishJob, RetainJob,
              ReleaseJob, AwaitFile, RetryStart, EvictPrewarmed, StopPrewarmed, Promote, CancelCall
<1>6. ASSUME NEW j \in Jobs, Stopping(j) \/ Leaving(j) \/ Encode(j) \/ EncoderEnds(j)
      PROVE  UNCHANGED read
  BY <1>6 DEF Stopping, Leaving, Encode, EncoderEnds, DecideStop, EncoderLeft, Drained,
              EncoderLeaves, LastWriter
<1>7. ASSUME \/ \E k \in Keys : Detach(k)
             \/ \E l \in Limits : AskReset(l)
             \/ Reclaiming \/ Resetting
      PROVE  UNCHANGED read
  BY <1>7 DEF Detach, AskReset, Reclaiming, Resetting, ReclaimStep, ReclaimNext, MonitorEnds,
              RaiseLimit, LowerLimit, PublishLimit
<1> QED
  BY <1>1, <1>3, <1>4, <1>5, <1>6, <1>7 DEF Next, Steps

-----------------------------------------------------------------------------
(* What the counters of a job count.                                       *)

LEMMA OnFinite ==
  ASSUME NEW j
  PROVE  /\ IsFiniteSet(On(j)) /\ IsFiniteSet(Preparing(j))
         /\ Preparing(j) \subseteq On(j)
         /\ Cardinality(On(j)) \in 0..Cardinality(Calls)
         /\ Cardinality(Preparing(j)) \in 0..Cardinality(On(j))
<1>1. On(j) \subseteq Calls /\ Preparing(j) \subseteq On(j)
  BY DEF On, Preparing, Active
<1>2. IsFiniteSet(On(j)) /\ IsFiniteSet(Preparing(j)) /\ IsFiniteSet(Calls)
  BY <1>1, FS_Subset, HLSJobsAssumption
<1>3. /\ Cardinality(On(j)) \in Nat /\ Cardinality(Calls) \in Nat
      /\ Cardinality(Preparing(j)) \in Nat
      /\ Cardinality(On(j)) <= Cardinality(Calls)
      /\ Cardinality(Preparing(j)) <= Cardinality(On(j))
  BY <1>1, <1>2, FS_Subset, FS_CardinalityType
<1> QED
  BY <1>1, <1>2, <1>3

\* A call that holds a job is counted.
LEMMA OnCounts ==
  ASSUME NEW j \in Jobs, NEW c \in Calls, call[c].stage \in Active, call[c].job = j, Counted
  PROVE  /\ job[j].requests >= 1 /\ job[j].requests \in Nat
         /\ call[c].stage = "preparing" => job[j].preparations >= 1
<1>1. c \in On(j) /\ (call[c].stage = "preparing" => c \in Preparing(j))
  BY DEF On, Preparing
<1>2. \A S : IsFiniteSet(S) /\ c \in S => Cardinality(S) >= 1
  <2>1. SUFFICES ASSUME NEW S, IsFiniteSet(S), c \in S
                 PROVE  Cardinality(S) >= 1
    OBVIOUS
  <2>2. Cardinality(S) \in Nat /\ Cardinality(S) # 0
    BY <2>1, FS_CardinalityType, FS_EmptySet
  <2> QED
    BY <2>2
<1>3. Cardinality(On(j)) \in Nat
  BY OnFinite
<1> QED
  BY <1>1, <1>2, <1>3, OnFinite DEF Counted

\* The step neither takes up a job nor leaves one.
Quiet ==
  /\ \A j \in Jobs : On(j)' = On(j) /\ Preparing(j)' = Preparing(j)
  /\ \A j \in Jobs : job'[j].requests = job[j].requests
                      /\ job'[j].preparations = job[j].preparations

LEMMA QuietCounted ==
  ASSUME Counted, Quiet
  PROVE  Counted'
BY DEF Counted, Quiet

\* A call moves between stages that hold no job.
LEMMA QuietCalls ==
  ASSUME CallsSound, NEW c \in Calls, NEW row, Goes(c, row),
         call[c].stage \notin Active, row.stage \notin Active, NEW j
  PROVE  On(j)' = On(j) /\ Preparing(j)' = Preparing(j)
<1>1. \A d \in Calls : call'[d] = IF d = c THEN row ELSE call[d]
  BY DEF Goes, CallsSound
<1> QED
  BY <1>1 DEF On, Preparing, Active

LEMMA QuietKept ==
  ASSUME UNCHANGED call, NEW j
  PROVE  On(j)' = On(j) /\ Preparing(j)' = Preparing(j)
BY DEF On, Preparing

\* The counters of the rows that a detach, a stop or a removal leaves.
LEMMA RowCounters ==
  ASSUME NEW row \in Row
  PROVE  /\ Removed(row).requests = row.requests /\ Removed(row).preparations = row.preparations
         /\ StopDetached(row).requests = row.requests
         /\ StopDetached(row).preparations = row.preparations
BY DEF Row, Removed, StopDetached, Begun

-----------------------------------------------------------------------------
(* Rows and bindings.                                                      *)

Joinable(row) == ~row.err /\ (row.phase = 1 \/ (row.phase = 0 /\ row.worker = "run"))

\* How a row may change: it stays sound, and it is not joinable anew.
RowMoves(row, new, bound, bound2) ==
  /\ new \in Row /\ RowSound(new, bound2)
  /\ bound2 /\ Joinable(new) =>
       bound /\ Joinable(row) /\ new.fingerprint = row.fingerprint

LEMMA RegisteredIs ==
  ASSUME NEW j \in Jobs
  PROVE  /\ j \in Registered <=> \E k \in Keys : hlsJobs[k] = j
         /\ j \in Registered' <=> \E k \in Keys : hlsJobs'[k] = j
BY DEF Registered, Bound

LEMMA SharedIs ==
  ASSUME NEW j \in Jobs, NEW f
  PROVE  /\ j \in Shared(f) <=> j \in Registered /\ job[j].fingerprint = f /\ Joinable(job[j])
         /\ j \in Shared(f)' <=> j \in Registered' /\ job'[j].fingerprint = f /\ Joinable(job'[j])
BY DEF Shared, Shareable, Reusable, Done, Joinable, Registered

LEMMA MovesSound ==
  ASSUME ShareableOnce, job' = [j \in Jobs |-> job'[j]],
         \A j \in Jobs : RowMoves(job[j], job'[j], j \in Registered, j \in Registered')
  PROVE  RowsTyped' /\ RowsSound' /\ ShareableOnce'
<1>1. RowsTyped'
  BY DEF RowsTyped, RowMoves
<1>2. RowsSound'
  BY DEF RowsSound, RowMoves
<1>3. ASSUME NEW f \in Starts, NEW j \in Shared(f)'
      PROVE  j \in Shared(f)
  <2>1. j \in Jobs
    BY DEF Shared, Registered
  <2> QED
    BY <2>1, SharedIs DEF RowMoves
<1>4. ShareableOnce'
  BY <1>3 DEF ShareableOnce
<1> QED
  BY <1>1, <1>2, <1>4

LEMMA RowWith ==
  ASSUME NEW row \in Row, NEW requests \in Int, NEW preparations \in Int
  PROVE  [row EXCEPT !.requests = requests, !.preparations = preparations] \in Row
BY DEF Row

LEMMA RowStopping ==
  ASSUME NEW row \in Row, NEW stop \in {"no", "cancel", "drain", "gone"}, NEW phase \in 0..2,
         NEW drain \in BOOLEAN
  PROVE  [row EXCEPT !.stop = stop, !.phase = phase, !.drain = drain] \in Row
BY DEF Row

\* A row that stays, with its bindings.
LEMMA RowStays ==
  ASSUME NEW row \in Row, NEW bound, NEW bound2, bound2 <=> bound, RowSound(row, bound)
  PROVE  RowMoves(row, row, bound, bound2)
BY DEF RowMoves, RowSound

\* Its last binding goes.
LEMMA RowDetached ==
  ASSUME NEW row \in Row, NEW bound, NEW bound2, ~bound2, RowSound(row, bound)
  PROVE  RowMoves(row, [row EXCEPT !.detached = TRUE], bound, bound2)
<1>1. [row EXCEPT !.detached = TRUE] \in Row
  BY DEF Row
<1>2. RowSound([row EXCEPT !.detached = TRUE], bound2)
  BY DEF RowSound, Row
<1> QED
  BY <1>1, <1>2 DEF RowMoves

LEMMA StopDetachedRow ==
  ASSUME NEW row \in Row
  PROVE  StopDetached(row) \in Row
<1> DEFINE drain == row.requests > 0
           begun == [row EXCEPT !.stop = "cancel", !.drain = drain, !.err = FALSE]
<1>1. drain \in BOOLEAN
  OBVIOUS
<1>2. StopDetached(row) = begun \/ StopDetached(row) = row
  BY DEF StopDetached, Begun
<1> HIDE DEF drain
<1>3. begun \in Row
  BY <1>1 DEF Row
<1> QED
  BY <1>2, <1>3

\* A row that no key leads to is stopped, at once or when it is idle.
LEMMA RowStopped ==
  ASSUME NEW row \in Row, NEW bound, NEW bound2, ~bound2, RowSound(row, bound),
         row.requests >= 0
  PROVE  RowMoves(row, StopDetached(row), bound, bound2)
<1>1. CASE row.stop = "no"
  <2> DEFINE drain == row.requests > 0
  <2>1. StopDetached(row) = [row EXCEPT !.stop = "cancel", !.drain = drain, !.err = FALSE]
    BY <1>1 DEF StopDetached, Begun
  <2>2. StopDetached(row) \in Row
    BY StopDetachedRow
  <2>3. RowSound(StopDetached(row), bound2)
    BY <2>1, <1>1 DEF RowSound, Row
  <2> QED
    BY <2>2, <2>3 DEF RowMoves
<1>2. CASE row.stop # "no"
  BY <1>2 DEF RowMoves, RowSound, StopDetached
<1> QED
  BY <1>1, <1>2

LEMMA RowWhenIdle ==
  ASSUME RowsTyped, NEW j \in Jobs, NEW bound, RowSound(job[j], bound),
         job[j].detached, job[j].requests >= 0
  PROVE  RowMoves(job[j], WhenIdle(j), bound, bound)
<1>1. job[j] \in Row /\ ~bound
  BY DEF RowsTyped, RowSound
<1>2. CASE job[j].requests > 0
  <2>1. WhenIdle(j) = [job[j] EXCEPT !.stopWhenIdle = TRUE, !.detached = FALSE]
    BY <1>2 DEF WhenIdle
  <2>2. WhenIdle(j) \in Row
    BY <1>1, <2>1 DEF Row
  <2>3. RowSound(WhenIdle(j), bound)
    BY <1>1, <1>2, <2>1 DEF RowSound, Row
  <2> QED
    BY <1>1, <2>2, <2>3 DEF RowMoves
<1>3. CASE ~(job[j].requests > 0)
  <2> DEFINE row == StopDetached(job[j])
  <2>1. WhenIdle(j) = [row EXCEPT !.detached = FALSE]
    BY <1>3 DEF WhenIdle
  <2>2. row \in Row /\ row.stop # "no" /\ RowSound(row, bound)
    <3>1. row \in Row /\ RowSound(row, bound)
      BY <1>1, RowStopped DEF RowMoves
    <3>2. row.stop # "no"
      BY <1>1 DEF StopDetached, Begun, Row
    <3> QED
      BY <3>1, <3>2
  <2> HIDE DEF row
  <2>3. WhenIdle(j) \in Row
    BY <2>1, <2>2 DEF Row
  <2>4. RowSound(WhenIdle(j), bound)
    BY <2>1, <2>2 DEF RowSound, Row
  <2> QED
    BY <1>1, <2>3, <2>4 DEF RowMoves
<1> QED
  BY <1>2, <1>3

\* The encoder has left, or the last response has.
LEMMA RowDrains ==
  ASSUME NEW row \in Row, NEW bound, RowSound(row, bound),
         row.stop = "cancel", row.drain
  PROVE  RowMoves(row, [row EXCEPT !.stop = "drain"], bound, bound)
BY DEF RowMoves, RowSound, Row

LEMMA RowRemoved ==
  ASSUME NEW row \in Row, NEW bound, RowSound(row, bound),
         row.stop # "no", row.requests = 0
  PROVE  RowMoves(row, Removed(row), bound, bound)
<1> DEFINE new == [row EXCEPT !.stop = "gone", !.phase = 0, !.drain = FALSE]
<1>1. new \in Row
  <2>1. 0 \in 0..2
    OBVIOUS
  <2> QED
    BY <2>1, RowStopping
<1>2. RowSound(new, bound) /\ ~bound
  BY DEF RowSound, Row
<1> HIDE DEF new
<1> QED
  BY <1>1, <1>2 DEF RowMoves, Removed, new

\* The encoder writes, and ends.
LEMMA RowEncodes ==
  ASSUME NEW row \in Row, NEW bound, RowSound(row, bound),
         row.worker = "run", row.phase < 2
  PROVE  RowMoves(row, [row EXCEPT !.phase = @ + 1], bound, bound)
<1>1. [row EXCEPT !.phase = @ + 1] \in Row
  BY DEF Row
<1>2. RowSound([row EXCEPT !.phase = @ + 1], bound)
  BY DEF RowSound, Row
<1>3. Joinable([row EXCEPT !.phase = @ + 1]) => Joinable(row)
  BY DEF Joinable, Row
<1> QED
  BY <1>1, <1>2, <1>3 DEF RowMoves, Row

LEMMA RowEnds ==
  ASSUME NEW row \in Row, NEW bound, RowSound(row, bound),
         NEW err \in BOOLEAN, row.err => err, NEW worker \in {"ended", "last", "out"}
  PROVE  RowMoves(row, [row EXCEPT !.worker = worker, !.err = err], bound, bound)
<1> DEFINE new == [row EXCEPT !.worker = worker, !.err = err]
<1>1. new \in Row
  BY DEF Row
<1>2. RowSound(new, bound)
  BY DEF RowSound, Row
<1>3. Joinable(new) => Joinable(row)
  BY DEF Joinable, Row
<1> QED
  BY <1>1, <1>2, <1>3 DEF RowMoves, Row

\* A request takes the job up, gets its file, and releases the job.
LEMMA RowRetained ==
  ASSUME NEW row \in Row, RowSound(row, TRUE)
  PROVE  RowMoves(row, [row EXCEPT !.requests = @ + 1, !.preparations = @ + 1], TRUE, TRUE)
<1> DEFINE new == [row EXCEPT !.requests = @ + 1, !.preparations = @ + 1]
<1>1. new \in Row
  <2>1. row.requests + 1 \in Int /\ row.preparations + 1 \in Int
    BY DEF Row
  <2> QED
    BY <2>1, RowWith
<1>2. RowSound(new, TRUE)
  BY DEF RowSound, Row
<1>3. Joinable(new) => Joinable(row)
  BY DEF Joinable, Row
<1> QED
  BY <1>1, <1>2, <1>3 DEF RowMoves, Row

LEMMA RowPromoted ==
  ASSUME NEW row \in Row, NEW bound, RowSound(row, bound)
  PROVE  RowMoves(row, [row EXCEPT !.preparations = @ - 1], bound, bound)
<1> DEFINE new == [row EXCEPT !.preparations = @ - 1]
<1>1. new \in Row
  BY DEF Row
<1>2. RowSound(new, bound)
  BY DEF RowSound, Row
<1>3. Joinable(new) => Joinable(row)
  BY DEF Joinable, Row
<1> QED
  BY <1>1, <1>2, <1>3 DEF RowMoves, Row

LEMMA RowReleased ==
  ASSUME NEW row \in Row, NEW bound, RowSound(row, bound), row.requests >= 1,
         NEW preparing \in BOOLEAN
  PROVE  /\ RowMoves(row, ReleasedRow(row, preparing), bound, bound)
         /\ ReleasedRow(row, preparing).requests = row.requests - 1
         /\ ReleasedRow(row, preparing).preparations =
              IF preparing THEN row.preparations - 1 ELSE row.preparations
<1> DEFINE left == IF preparing THEN row.preparations - 1 ELSE row.preparations
           less == [row EXCEPT !.requests = @ - 1, !.preparations = left]
           idle == [less EXCEPT !.stopWhenIdle = FALSE]
<1>1. left \in Int
  BY DEF Row
<1>2. ReleasedRow(row, preparing) =
        IF less.requests = 0 /\ less.stopWhenIdle THEN StopDetached(idle) ELSE less
  BY DEF ReleasedRow
<1> HIDE DEF left
<1>3. less \in Row /\ less.requests = row.requests - 1 /\ less.preparations = left
      /\ less.fingerprint = row.fingerprint /\ (Joinable(less) => Joinable(row))
  <2>1. less \in Row
    <3>1. row.requests - 1 \in Int
      BY DEF Row
    <3> QED
      BY <1>1, <3>1, RowWith
  <2>2. less.requests = row.requests - 1 /\ less.preparations = left
        /\ less.fingerprint = row.fingerprint
    BY DEF Row
  <2>3. less.err = row.err /\ less.phase = row.phase /\ less.worker = row.worker
    BY DEF Row
  <2> HIDE DEF less
  <2> QED
    BY <2>1, <2>2, <2>3 DEF Joinable
<1>4. CASE less.requests = 0 /\ less.stopWhenIdle
  <2>1. ~bound /\ row.requests = 1
    BY <1>3, <1>4 DEF RowSound, Row
  <2>2. idle \in Row /\ idle.requests = 0 /\ idle.preparations = left
    BY <1>3, <1>4 DEF Row
  <2>3. StopDetached(idle).requests = 0 /\ StopDetached(idle).preparations = left
    BY <2>2, RowCounters
  <2>4. StopDetached(idle) \in Row /\ RowSound(StopDetached(idle), bound)
    <3>1. CASE idle.stop = "no"
      <4>1. StopDetached(idle) = [idle EXCEPT !.stop = "cancel", !.drain = FALSE, !.err = FALSE]
        <5>1. idle.requests > 0 <=> FALSE
          BY <2>2
        <5> HIDE DEF idle
        <5>2. StopDetached(idle) = Begun(idle)
          BY <3>1 DEF StopDetached
        <5> DEFINE drain == idle.requests > 0
        <5>3. drain = FALSE
          BY <5>1
        <5>4. Begun(idle) = [idle EXCEPT !.stop = "cancel", !.drain = drain, !.err = FALSE]
          BY DEF Begun
        <5> HIDE DEF drain
        <5> QED
          BY <5>2, <5>3, <5>4
      <4> HIDE DEF idle
      <4> QED
        BY <2>1, <2>2, <4>1 DEF Row, RowSound
    <3>2. CASE idle.stop # "no"
      BY <2>1, <2>2, <3>2 DEF StopDetached, RowSound
    <3> QED
      BY <3>1, <3>2
  <2> QED
    BY <1>2, <1>3, <1>4, <2>1, <2>3, <2>4 DEF RowMoves, left
<1>5. CASE ~(less.requests = 0 /\ less.stopWhenIdle)
  <2>1. RowSound(less, bound)
    BY <1>3, <1>5 DEF RowSound, Row
  <2> QED
    BY <1>2, <1>3, <1>5, <2>1 DEF RowMoves, left
<1> QED
  BY <1>4, <1>5

\* A new job, for one key.
LEMMA RowNew ==
  ASSUME NEW f \in Starts
  PROVE  NewJob(f) \in Row /\ RowSound(NewJob(f), TRUE)
BY DEF NewJob, Row, RowSound

RegistrySound == RegistryTyped /\ RowsTyped /\ RowsSound /\ ShareableOnce

\* A step that leaves the bindings alone and changes one row.
LEMMA RowChanged ==
  ASSUME RegistrySound, NEW j \in Jobs, NEW row, job' = [job EXCEPT ![j] = row],
         UNCHANGED hlsJobs, RowMoves(job[j], row, j \in Registered, j \in Registered)
  PROVE  RegistrySound'
<1> USE DEF RegistrySound
<1>1. RegistryTyped' /\ Registered' = Registered
  BY DEF RegistryTyped, Registered, Bound
<1>2. ASSUME NEW i \in Jobs
      PROVE  RowMoves(job[i], job'[i], i \in Registered, i \in Registered)
  <2>1. CASE i = j
    BY <2>1 DEF RowsTyped
  <2>2. CASE i # j
    <3>1. job'[i] = job[i] /\ job[i] \in Row /\ RowSound(job[i], i \in Registered)
      BY <1>2, <2>2 DEF RowsTyped, RowsSound
    <3> QED
      BY <3>1, RowStays
  <2> QED
    BY <2>1, <2>2
<1>3. job' = [i \in Jobs |-> job'[i]]
  BY DEF RowsTyped
<1> QED
  BY <1>1, <1>2, <1>3, MovesSound

\* A step that changes only which keys lead to the jobs.
LEMMA Rebound ==
  ASSUME RegistrySound, RegistryTyped', UNCHANGED job,
         \A j \in Jobs : j \in Registered' <=> j \in Registered
  PROVE  RegistrySound'
<1> USE DEF RegistrySound
<1>1. Registered' = Registered
  BY DEF Registered
<1>2. ASSUME NEW i \in Jobs
      PROVE  RowMoves(job[i], job'[i], i \in Registered, i \in Registered)
  BY <1>2, RowStays DEF RowsTyped, RowsSound
<1>3. job' = [i \in Jobs |-> job'[i]]
  BY DEF RowsTyped
<1> QED
  BY <1>1, <1>2, <1>3, MovesSound

LEMMA RegistryKept ==
  ASSUME RegistrySound, UNCHANGED <<hlsJobs, job>>
  PROVE  RegistrySound'
BY Rebound DEF RegistrySound, RegistryTyped, Registered, Bound

\* Bindings go; whoever took the last one of a job looks at its requests next.
LEMMA UnboundSound ==
  ASSUME RegistrySound, NEW ks, Unbound(ks)
  PROVE  /\ RegistrySound'
         /\ \A j \in Jobs : job'[j].requests = job[j].requests
                            /\ job'[j].preparations = job[j].preparations
<1> USE DEF RegistrySound
<1>1. RegistryTyped'
  BY DEF RegistryTyped, Unbound
<1> DEFINE last(j) == Bound(j, hlsJobs) # {} /\ Bound(j, hlsJobs) \subseteq ks
<1>2. ASSUME NEW j \in Jobs
      PROVE  /\ last(j) => job'[j] = [job[j] EXCEPT !.detached = TRUE] /\ j \notin Registered'
             /\ ~last(j) => job'[j] = job[j] /\ (j \in Registered' <=> j \in Registered)
  <2>1. \A k \in Keys : hlsJobs'[k] = IF k \in ks THEN NoJob ELSE hlsJobs[k]
    BY DEF Unbound
  <2>2. j # NoJob
    BY HLSJobsAssumption
  <2>3. last(j) => j \notin Registered'
    BY <2>1, <2>2, RegisteredIs DEF Bound
  <2>4. ~last(j) => (j \in Registered' <=> j \in Registered)
    BY <2>1, <2>2, RegisteredIs DEF Bound
  <2>5. job'[j] = IF last(j) THEN [job[j] EXCEPT !.detached = TRUE] ELSE job[j]
    BY DEF Unbound
  <2> HIDE DEF last
  <2> QED
    BY <2>3, <2>4, <2>5
<1> HIDE DEF last
<1>3. ASSUME NEW j \in Jobs
      PROVE  /\ RowMoves(job[j], job'[j], j \in Registered, j \in Registered')
             /\ job'[j].requests = job[j].requests
             /\ job'[j].preparations = job[j].preparations
  <2>1. job[j] \in Row /\ RowSound(job[j], j \in Registered)
    BY <1>3 DEF RowsTyped, RowsSound
  <2>2. CASE last(j)
    <3>1. j \notin Registered'
      BY <1>2, <1>3, <2>2
    <3>2. RowMoves(job[j], [job[j] EXCEPT !.detached = TRUE], j \in Registered, j \in Registered')
      BY <2>1, <3>1, RowDetached
    <3>3. job'[j] = [job[j] EXCEPT !.detached = TRUE]
      BY <1>2, <1>3, <2>2
    <3>4. job'[j].requests = job[j].requests /\ job'[j].preparations = job[j].preparations
      BY <2>1, <3>3 DEF Row
    <3> QED
      BY <3>1, <3>2, <3>3, <3>4
  <2>3. CASE ~last(j)
    <3>1. (j \in Registered' <=> j \in Registered) /\ job'[j] = job[j]
      BY <1>2, <1>3, <2>3
    <3> QED
      BY <2>1, <3>1, RowStays
  <2> QED
    BY <2>2, <2>3
<1>4. job' = [j \in Jobs |-> job'[j]]
  BY DEF Unbound
<1> QED
  BY <1>1, <1>3, <1>4, MovesSound

LEMMA RowLeaves ==
  ASSUME NEW row \in Row, NEW bound, RowSound(row, bound), NEW worker \in {"last", "out"}
  PROVE  RowMoves(row, [row EXCEPT !.worker = worker], bound, bound)
<1> DEFINE new == [row EXCEPT !.worker = worker]
<1>1. new \in Row
  BY DEF Row
<1>2. RowSound(new, bound)
  BY DEF RowSound, Row
<1>3. Joinable(new) => Joinable(row)
  BY DEF Joinable, Row
<1> QED
  BY <1>1, <1>2, <1>3 DEF RowMoves, Row

LEMMA CountersNat ==
  ASSUME Counted, NEW j \in Jobs
  PROVE  job[j].requests \in Nat /\ job[j].preparations \in Nat
<1>1. Cardinality(On(j)) \in Nat /\ Cardinality(Preparing(j)) \in Nat
  BY OnFinite, FS_CardinalityType
<1> QED
  BY <1>1 DEF Counted

\* The encoder leaves: failed prewarmed bindings of its job go.
LEMMA EncoderLeavesSound ==
  ASSUME HLSInv, NEW j \in Jobs, EncoderLeaves(j)
  PROVE  RegistrySound' /\ Quiet
<1> DEFINE ks == {k \in Bound(j, hlsJobs) : job[j].err /\ k[1] \in Prewarm}
           worker == IF Writers = {j} THEN "last" ELSE "out"
           left == job[j].err /\ Bound(j, hlsJobs) = ks
           low == [job[j] EXCEPT !.worker = worker]
           row == IF left THEN [low EXCEPT !.detached = TRUE] ELSE low
<1> USE DEF HLSInv
<1>1. job[j] \in Row /\ RowSound(job[j], j \in Registered) /\ worker \in {"last", "out"}
      /\ left \in BOOLEAN
  BY DEF RowsTyped, RowsSound
<1>2. \A k \in Keys : hlsJobs'[k] = IF k \in ks THEN NoJob ELSE hlsJobs[k]
  BY DEF EncoderLeaves
<1>3. job' = [job EXCEPT ![j].worker = worker, ![j].detached = @ \/ left]
  BY DEF EncoderLeaves
<1>4. RegistryTyped' /\ NoJob \notin Jobs
  BY HLSJobsAssumption DEF EncoderLeaves, RegistryTyped
<1>5. ASSUME NEW i \in Jobs
      PROVE  /\ i # j \/ ~left => (i \in Registered' <=> i \in Registered)
             /\ left => j \notin Registered'
  <2>1. \A k \in Keys : k \in ks => hlsJobs[k] = j
    BY DEF Bound
  <2>2. CASE i # j
    <3>1. i \in Registered' <=> i \in Registered
      BY <1>2, <1>4, <2>1, <2>2, RegisteredIs
    <3>2. left => j \notin Registered'
      BY <1>2, <1>4, RegisteredIs DEF Bound
    <3> QED
      BY <3>1, <3>2
  <2>3. CASE i = j
    <3>1. left => j \notin Registered'
      BY <1>2, <1>4, RegisteredIs DEF Bound
    <3>2. ~left => (j \in Registered' <=> j \in Registered)
      <4>1. CASE ~job[j].err
        BY <1>2, <4>1, RegisteredIs
      <4>2. CASE job[j].err /\ Bound(j, hlsJobs) # ks
        <5>1. PICK k \in Bound(j, hlsJobs) : k \notin ks
          BY <4>2
        <5> QED
          BY <1>2, <5>1, RegisteredIs DEF Bound
      <4> QED
        BY <4>1, <4>2
    <3> QED
      BY <2>3, <3>1, <3>2
  <2> QED
    BY <2>2, <2>3
<1> HIDE DEF ks, worker, left
<1>6. job' = [job EXCEPT ![j] = row]
  <2>1. [job[j] EXCEPT !.worker = worker, !.detached = @ \/ left] = row
    <3>1. CASE left
      BY <1>1, <3>1 DEF Row
    <3>2. CASE ~left
      <4>1. (job[j].detached \/ left) = job[j].detached
        BY <1>1, <3>2 DEF Row
      <4> QED
        BY <1>1, <3>2, <4>1 DEF Row
    <3> QED
      BY <3>1, <3>2
  <2> HIDE DEF row
  <2> QED
    BY <1>3, <2>1 DEF RowsTyped
<1>7. low \in Row /\ RowSound(low, j \in Registered)
      /\ RowMoves(job[j], low, j \in Registered, j \in Registered)
  BY <1>1, RowLeaves DEF RowMoves
<1>8. ASSUME NEW i \in Jobs
      PROVE  RowMoves(job[i], job'[i], i \in Registered, i \in Registered')
  <2>1. CASE i # j
    <3>1. job'[i] = job[i] /\ job[i] \in Row /\ RowSound(job[i], i \in Registered)
      BY <1>6, <2>1 DEF RowsTyped, RowsSound
    <3> QED
      BY <1>5, <2>1, <3>1, RowStays
  <2>2. CASE i = j /\ left
    <3>1. job'[i] = [low EXCEPT !.detached = TRUE]
      BY <1>6, <2>2 DEF RowsTyped
    <3>2. RowMoves(low, [low EXCEPT !.detached = TRUE], j \in Registered, j \in Registered')
      <4> HIDE DEF low
      <4> QED
        BY <1>5, <1>7, <2>2, RowDetached
    <3> QED
      BY <1>5, <2>2, <3>1, <3>2 DEF RowMoves
  <2>3. CASE i = j /\ ~left
    <3>1. job'[i] = low
      BY <1>6, <2>3 DEF RowsTyped
    <3>2. i \in Registered' <=> i \in Registered
      BY <1>5, <2>3
    <3> HIDE DEF low
    <3> QED
      BY <1>7, <2>3, <3>1, <3>2 DEF RowMoves, RowSound
  <2> QED
    BY <2>1, <2>2, <2>3
<1>9. job' = [i \in Jobs |-> job'[i]]
  BY <1>6 DEF RowsTyped
<1>10. RegistrySound'
  BY <1>4, <1>8, <1>9, MovesSound DEF RegistrySound
<1>11. Quiet
  <2>1. row.requests = job[j].requests /\ row.preparations = job[j].preparations
    BY <1>1 DEF Row
  <2>2. \A i \in Jobs : job'[i] = IF i = j THEN row ELSE job[i]
    BY <1>6 DEF RowsTyped
  <2>3. UNCHANGED call
    BY DEF EncoderLeaves
  <2> HIDE DEF row
  <2> QED
    BY <2>1, <2>2, <2>3, QuietKept DEF Quiet
<1> QED
  BY <1>10, <1>11

\* A reclaim takes every binding of its victim and stops it.
LEMMA ReclaimStepSound ==
  ASSUME HLSInv, ReclaimStep
  PROVE  RegistrySound' /\ Quiet
<1> USE DEF HLSInv
<1>1. PICK j \in Preferred :
        /\ hlsJobs' = [k \in Keys |-> IF hlsJobs[k] = j THEN NoJob ELSE hlsJobs[k]]
        /\ job' = [job EXCEPT ![j] = StopDetached(job[j])]
  BY DEF ReclaimStep
<1>2. j \in Jobs /\ j \in Registered
  BY DEF Preferred, Registered
<1>3. job[j] \in Row /\ RowSound(job[j], j \in Registered) /\ job[j].requests >= 0
  BY <1>2, CountersNat DEF RowsTyped, RowsSound
<1>4. RegistryTyped' /\ NoJob \notin Jobs
  BY <1>1, HLSJobsAssumption DEF RegistryTyped
<1>5. j \notin Registered'
  BY <1>1, <1>2, <1>4, RegisteredIs
<1>6. ASSUME NEW i \in Jobs, i # j
      PROVE  i \in Registered' <=> i \in Registered
  BY <1>1, <1>4, <1>6, RegisteredIs
<1>7. ASSUME NEW i \in Jobs
      PROVE  RowMoves(job[i], job'[i], i \in Registered, i \in Registered')
  <2>1. CASE i = j
    <3>1. RowMoves(job[j], StopDetached(job[j]), j \in Registered, j \in Registered')
      BY <1>3, <1>5, RowStopped
    <3>2. job'[j] = StopDetached(job[j])
      BY <1>1, <1>2 DEF RowsTyped
    <3> QED
      BY <2>1, <3>1, <3>2
  <2>2. CASE i # j
    <3>1. job'[i] = job[i] /\ job[i] \in Row /\ RowSound(job[i], i \in Registered)
      BY <1>1, <2>2 DEF RowsTyped, RowsSound
    <3> QED
      BY <1>6, <2>2, <3>1, RowStays
  <2> QED
    BY <2>1, <2>2
<1>8. job' = [i \in Jobs |-> job'[i]]
  BY <1>1 DEF RowsTyped
<1>9. RegistrySound'
  BY <1>4, <1>7, <1>8, MovesSound DEF RegistrySound
<1>10. Quiet
  <2>1. \A i \in Jobs : job'[i] = IF i = j THEN StopDetached(job[j]) ELSE job[i]
    BY <1>1, <1>2 DEF RowsTyped
  <2>2. UNCHANGED call
    BY DEF ReclaimStep
  <2> QED
    BY <1>3, <2>1, <2>2, QuietKept, RowCounters DEF Quiet
<1> QED
  BY <1>9, <1>10

\* A further key is bound to a job, or takes it over from another.
LEMMA Joined ==
  ASSUME HLSInv, NEW k \in Keys, hlsJobs[k] = NoJob, NEW j \in Registered,
         hlsJobs' = [hlsJobs EXCEPT ![k] = j], UNCHANGED job
  PROVE  RegistrySound'
<1> USE DEF HLSInv
<1>1. j \in Jobs /\ NoJob \notin Jobs
  BY HLSJobsAssumption DEF Registered
<1>2. RegistryTyped'
  BY <1>1 DEF RegistryTyped
<1>3. \A q \in Keys : hlsJobs'[q] = IF q = k THEN j ELSE hlsJobs[q]
  BY DEF RegistryTyped
<1>4. ASSUME NEW i \in Jobs
      PROVE  i \in Registered' <=> i \in Registered
  BY <1>1, <1>3, RegisteredIs
<1> QED
  BY <1>2, <1>4, Rebound DEF RegistrySound

LEMMA Adopted ==
  ASSUME HLSInv, NEW k \in Keys, hlsJobs[k] = NoJob, NEW q \in Keys, hlsJobs[q] # NoJob,
         hlsJobs' = [hlsJobs EXCEPT ![q] = NoJob, ![k] = hlsJobs[q]], UNCHANGED job
  PROVE  RegistrySound'
<1> USE DEF HLSInv
<1>1. hlsJobs[q] \in Jobs /\ NoJob \notin Jobs
  BY HLSJobsAssumption DEF RegistryTyped
<1>2. RegistryTyped'
  BY <1>1 DEF RegistryTyped
<1>3. \A r \in Keys : hlsJobs'[r] = IF r = k THEN hlsJobs[q] ELSE IF r = q THEN NoJob ELSE hlsJobs[r]
  BY DEF RegistryTyped
<1>4. ASSUME NEW i \in Jobs
      PROVE  i \in Registered' <=> i \in Registered
  <2>1. ASSUME NEW r \in Keys, hlsJobs[r] = i
        PROVE  \E p \in Keys : hlsJobs'[p] = i
    <3>1. CASE r = q
      BY <1>3, <2>1, <3>1
    <3>2. CASE r # q
      BY <1>1, <1>3, <2>1, <3>2
    <3> QED
      BY <3>1, <3>2
  <2>2. ASSUME NEW r \in Keys, hlsJobs'[r] = i
        PROVE  \E p \in Keys : hlsJobs[p] = i
    BY <1>1, <1>3, <2>2
  <2> QED
    BY <2>1, <2>2, RegisteredIs
<1> QED
  BY <1>2, <1>4, Rebound DEF RegistrySound

\* A new writer is started for a key, when nothing of its start can be joined.
LEMMA Published ==
  ASSUME HLSInv, NEW k \in Keys, hlsJobs[k] = NoJob, NEW j \in Jobs, ~job[j].used,
         Shared(k[2]) = {}, hlsJobs' = [hlsJobs EXCEPT ![k] = j],
         job' = [job EXCEPT ![j] = NewJob(k[2])]
  PROVE  RegistrySound'
<1> USE DEF HLSInv
<1>1. NoJob \notin Jobs /\ k[2] \in Starts
  BY HLSJobsAssumption DEF Keys
<1>2. RegistryTyped'
  BY DEF RegistryTyped
<1>3. \A q \in Keys : hlsJobs'[q] = IF q = k THEN j ELSE hlsJobs[q]
  BY DEF RegistryTyped
<1>4. j \in Registered' /\ j \notin Registered
  BY <1>3, RegisteredIs DEF RowsSound, RowSound
<1>5. ASSUME NEW i \in Jobs, i # j
      PROVE  (i \in Registered' <=> i \in Registered) /\ job'[i] = job[i]
  BY <1>1, <1>3, <1>5, RegisteredIs DEF RowsTyped
<1>6. job'[j] = NewJob(k[2]) /\ NewJob(k[2]) \in Row /\ RowSound(NewJob(k[2]), j \in Registered')
  BY <1>1, <1>4, RowNew DEF RowsTyped, RowSound
<1>7. RowsTyped'
  BY <1>6 DEF RowsTyped
<1>8. RowsSound'
  BY <1>5, <1>6 DEF RowsSound, RowSound
<1>9. ASSUME NEW f \in Starts, NEW i \in Shared(f)'
      PROVE  (i = j /\ f = k[2]) \/ (i # j /\ i \in Shared(f))
  <2>1. i \in Jobs
    BY DEF Shared, Registered
  <2>2. NewJob(k[2]).fingerprint = k[2]
    BY DEF NewJob
  <2>3. CASE i = j
    BY <1>6, <2>1, <2>2, <2>3, SharedIs
  <2>4. CASE i # j
    BY <1>5, <2>1, <2>4, SharedIs
  <2> QED
    BY <2>3, <2>4
<1>10. ShareableOnce'
  BY <1>9 DEF ShareableOnce
<1> QED
  BY <1>2, <1>7, <1>8, <1>10 DEF RegistrySound

-----------------------------------------------------------------------------
(* Requests take a job up and release it.                                  *)

\* A call takes up a job that a key leads to.
LEMMA TakesUp ==
  ASSUME HLSInv, NEW c \in Calls, call[c].stage \notin Active, NEW j \in Registered,
         NEW row, row.stage = "preparing", row.job = j, Goes(c, row), job' = Retained(j),
         UNCHANGED hlsJobs
  PROVE  RegistrySound' /\ Counted'
<1> USE DEF HLSInv
<1> DEFINE new == [job[j] EXCEPT !.requests = @ + 1, !.preparations = @ + 1]
<1>1. j \in Jobs
  BY DEF Registered
<1>2. job[j] \in Row /\ RowSound(job[j], TRUE)
  BY <1>1 DEF RowsTyped, RowsSound, RowSound
<1>3. job' = [job EXCEPT ![j] = new]
  BY <1>1 DEF Retained, RowsTyped
<1>4. new.requests = job[j].requests + 1 /\ new.preparations = job[j].preparations + 1
  BY <1>2 DEF Row
<1>5. RowMoves(job[j], new, j \in Registered, j \in Registered)
  <2>1. RowMoves(job[j], new, TRUE, TRUE)
    BY <1>2, RowRetained
  <2> HIDE DEF new
  <2> QED
    BY <2>1 DEF RowMoves, RowSound
<1> HIDE DEF new
<1>6. RegistrySound'
  BY <1>1, <1>3, <1>5, RowChanged DEF RegistrySound
<1>7. \A d \in Calls : call'[d] = IF d = c THEN row ELSE call[d]
  BY DEF Goes, CallsSound
<1>8. ASSUME NEW i \in Jobs
      PROVE  /\ job'[i].requests = Cardinality(On(i)')
             /\ job'[i].preparations = Cardinality(Preparing(i)')
  <2>1. CASE i = j
    <3>1. On(j)' = On(j) \cup {c} /\ Preparing(j)' = Preparing(j) \cup {c}
          /\ c \notin On(j) /\ c \notin Preparing(j)
      BY <1>7 DEF On, Preparing, Active
    <3>2. /\ Cardinality(On(j) \cup {c}) = Cardinality(On(j)) + 1
          /\ Cardinality(Preparing(j) \cup {c}) = Cardinality(Preparing(j)) + 1
      BY <3>1, OnFinite, FS_AddElement
    <3>3. job'[j] = new
      BY <1>1, <1>3 DEF RowsTyped
    <3> QED
      BY <1>1, <1>4, <2>1, <3>1, <3>2, <3>3 DEF Counted
  <2>2. CASE i # j
    <3>1. On(i)' = On(i) /\ Preparing(i)' = Preparing(i)
      BY <1>7, <2>2 DEF On, Preparing, Active
    <3>2. job'[i] = job[i]
      BY <1>3, <2>2 DEF RowsTyped
    <3> QED
      BY <3>1, <3>2 DEF Counted
  <2> QED
    BY <2>1, <2>2
<1>9. Counted'
  BY <1>8 DEF Counted
<1> QED
  BY <1>6, <1>9

\* A call has its file, or lets its job go: it leaves the sets that count it.
LEMMA LetsGo ==
  ASSUME HLSInv, NEW c \in Calls, NEW j \in Jobs, call[c].job = j, call[c].stage \in Active,
         NEW stage, stage # "preparing",
         \A d \in Calls : /\ call'[d].stage = IF d = c THEN stage ELSE call[d].stage
                          /\ call'[d].job = call[d].job,
         NEW new, job' = [job EXCEPT ![j] = new],
         new.requests = IF stage \in Active THEN job[j].requests ELSE job[j].requests - 1,
         new.preparations = IF call[c].stage = "preparing" THEN job[j].preparations - 1
                                                           ELSE job[j].preparations
  PROVE  Counted'
<1> USE DEF HLSInv
<1>1. ASSUME NEW i \in Jobs
      PROVE  /\ job'[i].requests = Cardinality(On(i)')
             /\ job'[i].preparations = Cardinality(Preparing(i)')
  <2>1. CASE i = j
    <3>1. On(j)' = IF stage \in Active THEN On(j) ELSE On(j) \ {c}
      BY DEF On
    <3>2. Preparing(j)' = Preparing(j) \ {c}
      BY DEF Preparing
    <3>3. c \in On(j) /\ (c \in Preparing(j) <=> call[c].stage = "preparing")
      BY DEF On, Preparing
    <3>4. /\ Cardinality(On(j) \ {c}) = Cardinality(On(j)) - 1
          /\ c \in Preparing(j) => Cardinality(Preparing(j) \ {c}) = Cardinality(Preparing(j)) - 1
      BY <3>3, OnFinite, FS_RemoveElement
    <3>5. c \notin Preparing(j) => Preparing(j) \ {c} = Preparing(j)
      OBVIOUS
    <3>6. job'[j] = new
      BY DEF RowsTyped
    <3> QED
      BY <2>1, <3>1, <3>2, <3>3, <3>4, <3>5, <3>6 DEF Counted
  <2>2. CASE i # j
    <3>1. On(i)' = On(i) /\ Preparing(i)' = Preparing(i)
      BY <2>2 DEF On, Preparing
    <3>2. job'[i] = job[i]
      BY <2>2 DEF RowsTyped
    <3> QED
      BY <3>1, <3>2 DEF Counted
  <2> QED
    BY <2>1, <2>2
<1> QED
  BY <1>1 DEF Counted

LEMMA PromoteSound ==
  ASSUME HLSInv, NEW c \in Calls, Promote(c)
  PROVE  RegistrySound' /\ Counted'
<1> USE DEF HLSInv
<1> DEFINE j == call[c].job
           new == [job[j] EXCEPT !.preparations = @ - 1]
           rows == [call EXCEPT ![c].stage = "serving"]
<1>1. call[c].stage = "preparing" /\ j \in Jobs
  BY DEF Promote, CallsSound, CallRow, Active
<1>2. job' = [job EXCEPT ![j] = new]
  BY <1>1 DEF Promote, RowsTyped
<1>3. job[j] \in Row /\ RowSound(job[j], j \in Registered)
  BY <1>1 DEF RowsTyped, RowsSound
<1>4. new.requests = job[j].requests /\ new.preparations = job[j].preparations - 1
  BY <1>3 DEF Row
<1>5. RowMoves(job[j], new, j \in Registered, j \in Registered)
  BY <1>3, RowPromoted
<1>6. rows \in [Calls -> Call] /\ (\A d \in Calls : CallRow(rows[d]))
  <2>1. CallRow([call[c] EXCEPT !.stage = "serving"])
    BY <1>1, CallRowsRetained DEF CallsSound
  <2> QED
    BY <2>1 DEF CallsSound, CallRow
<1>7. call' = Informed(j, rows)
  BY DEF Promote
<1>8. \A d \in Calls : /\ rows[d].stage = IF d = c THEN "serving" ELSE call[d].stage
                       /\ rows[d].job = call[d].job
  BY DEF CallsSound, Call
<1>9. UNCHANGED hlsJobs
  BY DEF Promote
<1> HIDE DEF new, rows
<1>10. \A d \in Calls : /\ call'[d].stage = IF d = c THEN "serving" ELSE call[d].stage
                        /\ call'[d].job = call[d].job
  BY <1>6, <1>7, <1>8, InformedSound
<1>11. RegistrySound'
  BY <1>1, <1>2, <1>5, <1>9, RowChanged DEF RegistrySound
<1>12. Counted'
  BY <1>1, <1>2, <1>4, <1>10, LetsGo DEF Active
<1> QED
  BY <1>11, <1>12

LEMMA ReleaseJobSound ==
  ASSUME HLSInv, NEW c \in Calls, ReleaseJob(c)
  PROVE  RegistrySound' /\ Counted'
<1> USE DEF HLSInv
<1> DEFINE j == call[c].job
           preparing == call[c].stage = "preparing"
           new == ReleasedRow(job[j], preparing)
           rows == [call EXCEPT ![c].stage = "released"]
<1>1. call[c].stage \in Active /\ j \in Jobs
  BY DEF ReleaseJob, CallsSound, CallRow, Active
<1>2. job' = [job EXCEPT ![j] = new]
  BY DEF ReleaseJob
<1>3. job[j] \in Row /\ RowSound(job[j], j \in Registered) /\ job[j].requests >= 1
  BY <1>1, OnCounts DEF RowsTyped, RowsSound
<1>4. /\ RowMoves(job[j], new, j \in Registered, j \in Registered)
      /\ new.requests = job[j].requests - 1
      /\ new.preparations = IF preparing THEN job[j].preparations - 1 ELSE job[j].preparations
  <2>1. preparing \in BOOLEAN
    OBVIOUS
  <2> HIDE DEF preparing
  <2> QED
    BY <1>3, <2>1, RowReleased
<1>5. rows \in [Calls -> Call] /\ (\A d \in Calls : CallRow(rows[d]))
  <2>1. CallRow([call[c] EXCEPT !.stage = "released"])
    BY CallRowsStage DEF CallsSound, Stages, Active
  <2> QED
    BY <2>1 DEF CallsSound, CallRow
<1>6. call' = Informed(j, rows) \/ call' = rows
  BY DEF ReleaseJob
<1>7. \A d \in Calls : /\ rows[d].stage = IF d = c THEN "released" ELSE call[d].stage
                       /\ rows[d].job = call[d].job
  BY DEF CallsSound, Call
<1>8. UNCHANGED hlsJobs
  BY DEF ReleaseJob
<1> HIDE DEF new, rows
<1>9. \A d \in Calls : /\ call'[d].stage = IF d = c THEN "released" ELSE call[d].stage
                       /\ call'[d].job = call[d].job
  BY <1>5, <1>6, <1>7, InformedSound
<1>10. RegistrySound'
  BY <1>1, <1>2, <1>4, <1>8, RowChanged DEF RegistrySound
<1>11. Counted'
  BY <1>1, <1>2, <1>4, <1>9, LetsGo DEF Active
<1> QED
  BY <1>10, <1>11

-----------------------------------------------------------------------------
(* Every step keeps the invariant.                                         *)

\* A call moves between stages that hold no job.
Moves(c) ==
  /\ call[c].stage \notin Active /\ call'[c].stage \notin Active
  /\ \A d \in Calls : d # c => call'[d] = call[d]

LEMMA GoesMoves ==
  ASSUME CallsSound, NEW c \in Calls, NEW row, Goes(c, row),
         call[c].stage \notin Active, row.stage \notin Active
  PROVE  Moves(c)
BY DEF Moves, Goes, CallsSound

LEMMA GoesOnMoves ==
  ASSUME CallsSound, NEW c \in Calls, NEW j, GoesOn(c, j), call[c].stage \notin Active
  PROVE  Moves(c)
<1>1. call[c] \in Call
  BY DEF CallsSound
<1>2. PICK row : Goes(c, row) /\ row.stage \in {"made", "file", "done"}
  <2>1. CASE call[c].kind \in {"seek", "playlist"}
    <3>1. [call[c] EXCEPT !.stage = "made", !.at = call[c].key, !.job = j].stage = "made"
      BY <1>1 DEF Call
    <3> QED
      BY <2>1, <3>1 DEF GoesOn
  <2>2. CASE call[c].kind \in {"start", "restart"}
    <3>1. [call[c] EXCEPT !.stage = "file", !.job = j].stage = "file"
      BY <1>1 DEF Call
    <3> QED
      BY <2>2, <3>1 DEF GoesOn
  <2>3. CASE call[c].kind = "prewarm"
    <3>1. AtStage("done", <<call[c].kind, call[c].key>>).stage = "done"
      BY DEF AtStage
    <3> QED
      BY <2>3, <3>1 DEF GoesOn
  <2> QED
    BY <1>1, <2>1, <2>2, <2>3 DEF Call
<1> QED
  BY <1>2, GoesMoves DEF Active

LEMMA EndsMoves ==
  ASSUME CallsSound, NEW c \in Calls, Ends(c), call[c].stage \notin Active
  PROVE  Moves(c)
<1>1. AtStage("done", <<call[c].kind, call[c].key>>).stage = "done"
  BY DEF AtStage
<1> QED
  BY <1>1, GoesMoves DEF Ends, Active

LEMMA WaitMoves ==
  ASSUME CallsSound, NEW c \in Calls, NEW k, NEW next, StopAfterPreparations(c, k, next),
         call[c].stage \notin Active
  PROVE  Moves(c)
<1> DEFINE row == [call[c] EXCEPT !.stage = "wait", !.at = k, !.job = hlsJobs[k], !.next = next,
                                  !.passed = job[hlsJobs[k]].preparations = 0]
<1>1. row.stage = "wait" /\ Goes(c, row)
  BY DEF StopAfterPreparations, CallsSound, Call
<1> HIDE DEF row
<1> QED
  BY <1>1, GoesMoves DEF Active

LEMMA MovesCounted ==
  ASSUME Counted, CallsSound,
         UNCHANGED call \/ \E c \in Calls : Moves(c),
         \A j \in Jobs : job'[j].requests = job[j].requests
                         /\ job'[j].preparations = job[j].preparations
  PROVE  Counted'
<1>1. ASSUME NEW j \in Jobs
      PROVE  On(j)' = On(j) /\ Preparing(j)' = Preparing(j)
  <2>1. CASE UNCHANGED call
    BY <2>1, QuietKept
  <2>2. CASE \E c \in Calls : Moves(c)
    BY <2>2 DEF Moves, On, Preparing, Active
  <2> QED
    BY <2>1, <2>2
<1> QED
  BY <1>1, QuietCounted DEF Quiet

\* The steps of a call that take up no job and let none go.
LEMMA CallsMove ==
  ASSUME CallsSound, NEW c \in Calls,
         \/ BeginCall(c) \/ SelectGeneration(c) \/ StopWaited(c) \/ StopJoined(c) \/ AdoptJob(c)
         \/ EnterJob(c) \/ StopOther(c) \/ FindJob(c) \/ AdmitStorage(c) \/ PublishJob(c)
         \/ ReadLimit(c) \/ EndCall(c) \/ AwaitFile(c) \/ RetryStart(c) \/ EvictPrewarmed(c)
         \/ StopPrewarmed(c) \/ CancelCall(c)
  PROVE  Moves(c)
<1>1. call[c] \in Call
  BY DEF CallsSound
<1>2. CASE BeginCall(c)
  <2> DEFINE stage == First(call[c].kind)
             todo == IF call[c].kind = "prewarm" THEN Others(c) ELSE {}
             row == [call[c] EXCEPT !.stage = stage, !.todo = todo]
  <2>1. stage \in {"select", "others", "enter"}
    BY DEF First
  <2> HIDE DEF stage, todo
  <2>2. row.stage = stage
    BY <1>1 DEF Call
  <2>3. Goes(c, row) /\ call[c].stage = "planned"
    BY <1>2 DEF BeginCall, stage, todo
  <2> HIDE DEF row
  <2> QED
    BY <2>1, <2>2, <2>3, GoesMoves DEF Active
<1>3. CASE SelectGeneration(c)
  <2>1. call[c].stage = "select"
    BY <1>3 DEF SelectGeneration
  <2>2. CASE \E q \in MayCover(call[c].key) :
               Goes(c, [call[c] EXCEPT !.stage = "retain", !.at = q, !.job = hlsJobs[q]])
    <3>1. PICK q : Goes(c, [call[c] EXCEPT !.stage = "retain", !.at = q, !.job = hlsJobs[q]])
      BY <2>2
    <3>2. [call[c] EXCEPT !.stage = "retain", !.at = q, !.job = hlsJobs[q]].stage = "retain"
      BY <1>1 DEF Call
    <3> QED
      BY <2>1, <3>1, <3>2, GoesMoves DEF Active
  <2>3. CASE StopAfterPreparations(c, call[c].key, "enter")
    BY <2>1, <2>3, WaitMoves DEF Active
  <2>4. CASE Goes(c, [call[c] EXCEPT !.stage = "enter"])
    <3>1. [call[c] EXCEPT !.stage = "enter"].stage = "enter"
      BY <1>1 DEF Call
    <3> QED
      BY <2>1, <2>4, <3>1, GoesMoves DEF Active
  <2> QED
    BY <1>3, <2>2, <2>3, <2>4 DEF SelectGeneration
<1>4. CASE StopWaited(c) \/ StopJoined(c)
  <2>1. /\ Goes(c, [call[c] EXCEPT !.stage = "joined"]) \/ Goes(c, AfterWait(call[c]))
        /\ call[c].stage \in {"wait", "joined"}
    BY <1>4 DEF StopWaited, StopJoined
  <2>2. /\ [call[c] EXCEPT !.stage = "joined"].stage \notin Active
        /\ AfterWait(call[c]).stage \notin Active
    BY <1>1 DEF Call, AfterWait, Active
  <2> QED
    BY <2>1, <2>2, GoesMoves DEF Active
<1>5. CASE AdoptJob(c)
  <2>1. PICK j : Goes(c, [call[c] EXCEPT !.stage = "file", !.kind = "restart", !.job = j])
    BY <1>5 DEF AdoptJob
  <2>2. [call[c] EXCEPT !.stage = "file", !.kind = "restart", !.job = j].stage = "file"
    BY <1>1 DEF Call
  <2>3. call[c].stage = "enter"
    BY <1>5 DEF AdoptJob
  <2> QED
    BY <2>1, <2>2, <2>3, GoesMoves DEF Active
<1>6. CASE EnterJob(c)
  <2> DEFINE todo == Others(c)
  <2>1. /\ Goes(c, [call[c] EXCEPT !.stage = "job", !.todo = todo])
        /\ call[c].stage \in {"enter", "others", "evict"}
    BY <1>6 DEF EnterJob
  <2> HIDE DEF todo
  <2>2. [call[c] EXCEPT !.stage = "job", !.todo = todo].stage = "job"
    BY <1>1 DEF Call
  <2> QED
    BY <2>1, <2>2, GoesMoves DEF Active
<1>7. CASE StopOther(c)
  <2>1. PICK k : \/ Goes(c, [call[c] EXCEPT !.todo = @ \ {k}])
                 \/ StopAfterPreparations(c, k, call[c].stage)
    BY <1>7 DEF StopOther
  <2>2. /\ call[c].stage \in {"others", "job"}
        /\ [call[c] EXCEPT !.todo = @ \ {k}].stage = call[c].stage
    BY <1>1, <1>7 DEF StopOther, Call
  <2> QED
    BY <2>1, <2>2, GoesMoves, WaitMoves DEF Active
<1>8. CASE FindJob(c)
  <2>1. \/ \E j : GoesOn(c, j)
        \/ StopAfterPreparations(c, call[c].key, "job")
        \/ Goes(c, [call[c] EXCEPT !.stage = "storage"])
    BY <1>8 DEF FindJob
  <2>2. call[c].stage = "job" /\ [call[c] EXCEPT !.stage = "storage"].stage = "storage"
    BY <1>1, <1>8 DEF FindJob, Call
  <2> QED
    BY <2>1, <2>2, GoesMoves, GoesOnMoves, WaitMoves DEF Active
<1>9. CASE AdmitStorage(c)
  <2>1. Goes(c, [call[c] EXCEPT !.stage = "publish"]) /\ call[c].stage = "storage"
    BY <1>9 DEF AdmitStorage
  <2>2. [call[c] EXCEPT !.stage = "publish"].stage = "publish"
    BY <1>1 DEF Call
  <2> QED
    BY <2>1, <2>2, GoesMoves DEF Active
<1>10. CASE PublishJob(c)
  <2>1. Goes(c, [call[c] EXCEPT !.stage = "job"]) \/ (\E j : GoesOn(c, j)) \/ Ends(c)
    BY <1>10 DEF PublishJob
  <2>2. call[c].stage = "publish" /\ [call[c] EXCEPT !.stage = "job"].stage = "job"
    BY <1>1, <1>10 DEF PublishJob, Call
  <2> QED
    BY <2>1, <2>2, GoesMoves, GoesOnMoves, EndsMoves DEF Active
<1>11. CASE EndCall(c) \/ AwaitFile(c) \/ CancelCall(c)
  BY <1>11, EndsMoves DEF EndCall, AwaitFile, CancelCall, Active
<1>12. CASE RetryStart(c) \/ StopPrewarmed(c)
  <2>1. PICK k \in Keys, row \in Call : StopsKey(c, k, row) /\ row.next \in {"retry", "evict"}
    <3>1. CASE RetryStart(c)
      <4> DEFINE row == [call[c] EXCEPT !.kind = "restart", !.at = call[c].key, !.next = "retry"]
      <4>1. StopsKey(c, call[c].key, row)
        BY <3>1 DEF RetryStart
      <4>2. row \in Call /\ row.next = "retry"
        BY <1>1, CallRowsStop DEF Call
      <4> HIDE DEF row
      <4> QED
        BY <1>1, <4>1, <4>2 DEF Call
    <3>2. CASE StopPrewarmed(c)
      <4>1. PICK k \in call[c].todo : StopsKey(c, k, [call[c] EXCEPT !.at = k, !.next = "evict"])
        BY <3>2 DEF StopPrewarmed
      <4>2. k \in Keys
        BY <1>1 DEF Call
      <4>3. /\ [call[c] EXCEPT !.at = k, !.next = "evict"] \in Call
            /\ [call[c] EXCEPT !.at = k, !.next = "evict"].next = "evict"
        BY <1>1, <4>2, CallRowsStop DEF Call
      <4> QED
        BY <4>1, <4>2, <4>3
    <3> QED
      BY <1>12, <3>1, <3>2
  <2>2. /\ AfterWait(row).stage \notin Active
        /\ [row EXCEPT !.stage = "joined", !.job = hlsJobs[k]].stage \notin Active
    BY <2>1 DEF AfterWait, Call, Active
  <2>3. Goes(c, AfterWait(row)) \/ Goes(c, [row EXCEPT !.stage = "joined", !.job = hlsJobs[k]])
    BY <2>1 DEF StopsKey
  <2>4. call[c].stage \notin Active
    BY <1>12 DEF RetryStart, StopPrewarmed, Active
  <2> QED
    BY <2>2, <2>3, <2>4, GoesMoves
<1>13. CASE EvictPrewarmed(c)
  <2> DEFINE todo == {k \in Keys : k[1] \in Prewarm /\ hlsJobs[k] # NoJob}
  <2>1. Goes(c, [call[c] EXCEPT !.stage = "evict", !.todo = todo]) /\ call[c].stage = "retry"
    BY <1>13 DEF EvictPrewarmed
  <2> HIDE DEF todo
  <2>2. [call[c] EXCEPT !.stage = "evict", !.todo = todo].stage = "evict"
    BY <1>1 DEF Call
  <2> QED
    BY <2>1, <2>2, GoesMoves DEF Active
<1>14. CASE ReadLimit(c)
  <2>1. Goes(c, [call[c] EXCEPT !.stage = "reclaim"]) /\ call[c].stage = "released"
    BY <1>14 DEF ReadLimit
  <2>2. [call[c] EXCEPT !.stage = "reclaim"].stage = "reclaim"
    BY <1>1 DEF Call
  <2> QED
    BY <2>1, <2>2, GoesMoves DEF Active
<1> QED
  BY <1>2, <1>3, <1>4, <1>5, <1>6, <1>7, <1>8, <1>9, <1>10, <1>11, <1>12, <1>13, <1>14

CountersKept ==
  \A j \in Jobs : job'[j].requests = job[j].requests /\ job'[j].preparations = job[j].preparations

\* One row changes, the calls stay.
LEMMA RowStep ==
  ASSUME HLSInv, NEW j \in Jobs, NEW row, job' = [job EXCEPT ![j] = row],
         UNCHANGED <<hlsJobs, call>>, RowMoves(job[j], row, j \in Registered, j \in Registered),
         row.requests = job[j].requests, row.preparations = job[j].preparations
  PROVE  RegistrySound' /\ Counted'
<1> USE DEF HLSInv
<1>1. RegistrySound'
  BY RowChanged DEF RegistrySound
<1>2. \A i \in Jobs : job'[i] = IF i = j THEN row ELSE job[i]
  BY DEF RowsTyped
<1>3. Counted'
  BY <1>2, MovesCounted
<1> QED
  BY <1>1, <1>3

\* The jobs' own steps.
LEMMA JobsStep ==
  ASSUME HLSInv, NEW j \in Jobs, Stopping(j) \/ Leaving(j) \/ Encode(j) \/ EncoderEnds(j)
  PROVE  RegistrySound' /\ Counted'
<1> USE DEF HLSInv
<1>0. /\ job[j] \in Row /\ RowSound(job[j], j \in Registered)
      /\ job[j].requests \in Nat
  BY CountersNat DEF RowsTyped, RowsSound
<1>1. CASE DecideStop(j)
  <2>1. WhenIdle(j).requests = job[j].requests /\ WhenIdle(j).preparations = job[j].preparations
    <3>1. CASE job[j].requests > 0
      BY <1>0, <3>1 DEF WhenIdle, Row
    <3>2. CASE ~(job[j].requests > 0)
      <4> DEFINE row == StopDetached(job[j])
      <4>1. row \in Row
        BY <1>0, StopDetachedRow
      <4>2. row.requests = job[j].requests /\ row.preparations = job[j].preparations
        BY <1>0, RowCounters
      <4>3. WhenIdle(j) = [row EXCEPT !.detached = FALSE]
        BY <3>2 DEF WhenIdle
      <4> HIDE DEF row
      <4> QED
        BY <4>1, <4>2, <4>3 DEF Row
    <3> QED
      BY <3>1, <3>2
  <2>2. RowMoves(job[j], WhenIdle(j), j \in Registered, j \in Registered)
    BY <1>0, <1>1, RowWhenIdle DEF DecideStop
  <2> QED
    BY <1>1, <2>1, <2>2, RowStep DEF DecideStop
<1>2. CASE EncoderLeft(j)
  <2>1. CASE job[j].drain
    <3> DEFINE row == [job[j] EXCEPT !.stop = "drain"]
    <3>1. RowMoves(job[j], row, j \in Registered, j \in Registered)
      BY <1>0, <1>2, <2>1, RowDrains DEF EncoderLeft
    <3>2. row.requests = job[j].requests /\ row.preparations = job[j].preparations
      BY <1>0 DEF Row
    <3>3. job' = [job EXCEPT ![j] = row] /\ UNCHANGED <<hlsJobs, call>>
      BY <1>2, <2>1 DEF EncoderLeft
    <3> HIDE DEF row
    <3> QED
      BY <3>1, <3>2, <3>3, RowStep
  <2>2. CASE ~job[j].drain
    <3>1. RowMoves(job[j], Removed(job[j]), j \in Registered, j \in Registered)
      BY <1>0, <1>2, <2>2, RowRemoved DEF EncoderLeft, RowSound
    <3>2. job' = [job EXCEPT ![j] = Removed(job[j])] /\ UNCHANGED <<hlsJobs, call>>
      BY <1>2, <2>2 DEF EncoderLeft
    <3> QED
      BY <1>0, <3>1, <3>2, RowCounters, RowStep
  <2> QED
    BY <2>1, <2>2
<1>3. CASE Drained(j)
  <2>1. RowMoves(job[j], Removed(job[j]), j \in Registered, j \in Registered)
    BY <1>0, <1>3, RowRemoved DEF Drained
  <2> QED
    BY <1>0, <1>3, <2>1, RowCounters, RowStep DEF Drained
<1>4. CASE EncoderLeaves(j)
  BY <1>4, EncoderLeavesSound, QuietCounted
<1>5. CASE LastWriter(j)
  <2> DEFINE row == [job[j] EXCEPT !.worker = "out"]
  <2>1. RowMoves(job[j], row, j \in Registered, j \in Registered)
    BY <1>0, RowLeaves
  <2>2. row.requests = job[j].requests /\ row.preparations = job[j].preparations
    BY <1>0 DEF Row
  <2>3. job' = [job EXCEPT ![j] = row] /\ UNCHANGED <<hlsJobs, call>>
    BY <1>5 DEF LastWriter, RowsTyped
  <2> HIDE DEF row
  <2> QED
    BY <2>1, <2>2, <2>3, RowStep
<1>6. CASE Encode(j)
  <2> DEFINE row == [job[j] EXCEPT !.phase = @ + 1]
  <2>1. RowMoves(job[j], row, j \in Registered, j \in Registered)
    BY <1>0, <1>6, RowEncodes DEF Encode
  <2>2. row.requests = job[j].requests /\ row.preparations = job[j].preparations
    BY <1>0 DEF Row
  <2>3. job' = [job EXCEPT ![j] = row] /\ UNCHANGED <<hlsJobs, call>>
    BY <1>6 DEF Encode, RowsTyped
  <2> HIDE DEF row
  <2> QED
    BY <2>1, <2>2, <2>3, RowStep
<1>7. CASE EncoderEnds(j)
  <2>1. PICK failed \in BOOLEAN :
          job' = [job EXCEPT ![j].worker = "ended", ![j].err = @ \/ failed]
    BY <1>7 DEF EncoderEnds
  <2> DEFINE err == job[j].err \/ failed
             row == [job[j] EXCEPT !.worker = "ended", !.err = err]
  <2>2. err \in BOOLEAN /\ (job[j].err => err)
    OBVIOUS
  <2>3. job' = [job EXCEPT ![j] = row] /\ UNCHANGED <<hlsJobs, call>>
    BY <1>7, <2>1 DEF EncoderEnds, RowsTyped
  <2> HIDE DEF err
  <2>4. RowMoves(job[j], row, j \in Registered, j \in Registered)
    BY <1>0, <2>2, RowEnds
  <2>5. row.requests = job[j].requests /\ row.preparations = job[j].preparations
    BY <1>0 DEF Row
  <2> HIDE DEF row
  <2> QED
    BY <2>3, <2>4, <2>5, RowStep
<1> QED
  BY <1>1, <1>2, <1>3, <1>4, <1>5, <1>6, <1>7 DEF Stopping, Leaving

\* The bindings that the steps of a call make and take away.
LEMMA BindingsStep ==
  ASSUME HLSInv, NEW c \in Calls,
         \/ BeginCall(c) \/ SelectGeneration(c) \/ StopWaited(c) \/ StopJoined(c) \/ AdoptJob(c)
         \/ EnterJob(c) \/ StopOther(c) \/ FindJob(c) \/ AdmitStorage(c) \/ PublishJob(c)
         \/ ReadLimit(c) \/ EndCall(c) \/ AwaitFile(c) \/ RetryStart(c) \/ EvictPrewarmed(c)
         \/ StopPrewarmed(c) \/ CancelCall(c)
  PROVE  RegistrySound' /\ CountersKept
<1> USE DEF HLSInv
<1> DEFINE k == call[c].key
<1>0. k \in Keys /\ k[2] \in Starts
  BY DEF CallsSound, Call, Keys
<1>1. ASSUME UNCHANGED <<hlsJobs, job>> PROVE RegistrySound' /\ CountersKept
  BY <1>1, RegistryKept DEF RegistrySound, CountersKept
<1>2. ASSUME NEW ks, Unbound(ks) PROVE RegistrySound' /\ CountersKept
  BY <1>2, UnboundSound DEF RegistrySound, CountersKept
<1>3. ASSUME UNCHANGED job PROVE CountersKept
  BY <1>3 DEF CountersKept
<1>4. \A f : Shared(f) \subseteq Registered
  BY DEF Shared
<1>5. CASE \/ BeginCall(c) \/ SelectGeneration(c) \/ StopJoined(c) \/ EnterJob(c) \/ StopOther(c)
           \/ AdmitStorage(c) \/ ReadLimit(c) \/ EndCall(c) \/ EvictPrewarmed(c)
  BY <1>1, <1>5 DEF BeginCall, SelectGeneration, StopJoined, EnterJob, StopOther, AdmitStorage,
                    ReadLimit, EndCall, EvictPrewarmed
<1>6. CASE \/ StopWaited(c) \/ AwaitFile(c) \/ RetryStart(c) \/ StopPrewarmed(c) \/ CancelCall(c)
  BY <1>1, <1>2, <1>6 DEF StopWaited, AwaitFile, RetryStart, StopPrewarmed, StopsKey, CancelCall
<1>7. CASE AdoptJob(c)
  <2>1. PICK p \in Adoptable(k) :
          hlsJobs' = [hlsJobs EXCEPT ![<<p, k[2]>>] = NoJob, ![k] = hlsJobs[<<p, k[2]>>]]
    BY <1>7 DEF AdoptJob
  <2>2. <<p, k[2]>> \in Keys /\ hlsJobs[<<p, k[2]>>] # NoJob /\ hlsJobs[k] = NoJob
    BY <1>0, HLSJobsAssumption DEF Adoptable, Keys
  <2>3. UNCHANGED job
    BY <1>7 DEF AdoptJob
  <2> QED
    BY <1>0, <1>3, <2>1, <2>2, <2>3, Adopted
<1>8. CASE FindJob(c)
  <2>1. CASE UNCHANGED hlsJobs
    BY <1>1, <1>8, <2>1 DEF FindJob
  <2>2. CASE hlsJobs[k] = NoJob /\ \E shared \in Shared(k[2]) :
               hlsJobs' = [hlsJobs EXCEPT ![k] = shared]
    BY <1>0, <1>3, <1>4, <1>8, <2>2, Joined DEF FindJob
  <2> QED
    BY <1>8, <2>1, <2>2 DEF FindJob
<1>9. CASE PublishJob(c)
  <2>1. CASE UNCHANGED <<hlsJobs, job>>
    BY <1>1, <2>1
  <2>2. CASE /\ hlsJobs[k] = NoJob /\ UNCHANGED job
             /\ \E shared \in Shared(k[2]) : hlsJobs' = [hlsJobs EXCEPT ![k] = shared]
    BY <1>0, <1>3, <1>4, <2>2, Joined
  <2>3. CASE /\ ~Overtaken(k)
             /\ \E j \in Jobs : /\ ~job[j].used
                                /\ job' = [job EXCEPT ![j] = NewJob(k[2])]
                                /\ hlsJobs' = [hlsJobs EXCEPT ![k] = j]
    <3>1. PICK j \in Jobs : /\ ~job[j].used
                            /\ job' = [job EXCEPT ![j] = NewJob(k[2])]
                            /\ hlsJobs' = [hlsJobs EXCEPT ![k] = j]
      BY <2>3
    <3>2. hlsJobs[k] = NoJob /\ Shared(k[2]) = {}
      BY <2>3 DEF Overtaken
    <3>3. RegistrySound'
      BY <1>0, <3>1, <3>2, Published
    <3>4. job[j].requests = 0 /\ job[j].preparations = 0
      <4>1. job[j].requests = 0
        BY <3>1 DEF RowsSound, RowSound
      <4>2. Cardinality(Preparing(j)) \in 0..Cardinality(On(j))
        BY OnFinite
      <4> QED
        BY <4>1, <4>2 DEF Counted
    <3>5. NewJob(k[2]).requests = 0 /\ NewJob(k[2]).preparations = 0
      BY DEF NewJob
    <3>6. \A i \in Jobs : job'[i] = IF i = j THEN NewJob(k[2]) ELSE job[i]
      BY <3>1 DEF RowsTyped
    <3> QED
      BY <3>3, <3>4, <3>5, <3>6 DEF CountersKept
  <2> DEFINE unused == {i \in Jobs : ~job[i].used}
             fresh == CHOOSE i \in unused : TRUE
  <2>4. unused # {} => fresh \in Jobs /\ ~job[fresh].used
    OBVIOUS
  <2>5. \/ UNCHANGED <<hlsJobs, job>>
        \/ /\ hlsJobs[k] = NoJob /\ UNCHANGED job
           /\ \E shared \in Shared(k[2]) : hlsJobs' = [hlsJobs EXCEPT ![k] = shared]
        \/ /\ ~Overtaken(k) /\ unused # {}
           /\ job' = [job EXCEPT ![fresh] = NewJob(k[2])]
           /\ hlsJobs' = [hlsJobs EXCEPT ![k] = fresh]
    BY <1>9 DEF PublishJob
  <2> QED
    BY <2>1, <2>2, <2>3, <2>4, <2>5
<1> QED
  BY <1>5, <1>6, <1>7, <1>8, <1>9

LEMMA RegistryStep ==
  ASSUME HLSInv, Next
  PROVE  RegistrySound' /\ Counted'
<1> USE DEF HLSInv
<1>1. ASSUME UNCHANGED <<hlsJobs, job, call>> PROVE RegistrySound' /\ Counted'
  BY <1>1, RegistryKept, MovesCounted DEF RegistrySound
<1>2. ASSUME NEW c \in Calls, SelectActive(c) PROVE RegistrySound' /\ Counted'
  <2> DEFINE found == {hlsJobs[k] : k \in Prefix(call[c].key[1])} \ {NoJob}
  <2>1. CASE \E j \in found : /\ job' = Retained(j)
                              /\ Goes(c, [call[c] EXCEPT !.stage = "preparing", !.job = j])
    <3>1. PICK j \in found : /\ job' = Retained(j)
                             /\ Goes(c, [call[c] EXCEPT !.stage = "preparing", !.job = j])
      BY <2>1
    <3>2. Prefix(call[c].key[1]) \subseteq Keys
      BY DEF Prefix, Keys, CallsSound, Call
    <3>3. PICK k \in Keys : hlsJobs[k] = j
      BY <3>1, <3>2
    <3>4. j \in Registered
      BY <3>1, <3>3, RegisteredIs DEF RegistryTyped
    <3> DEFINE row == [call[c] EXCEPT !.stage = "preparing", !.job = j]
    <3>5. row.stage = "preparing" /\ row.job = j /\ Goes(c, row)
      BY <3>1 DEF CallsSound, Call
    <3>6. call[c].stage \notin Active /\ UNCHANGED hlsJobs
      BY <1>2 DEF SelectActive, Active
    <3> HIDE DEF row
    <3> QED
      BY <3>1, <3>4, <3>5, <3>6, TakesUp
  <2>2. CASE Goes(c, [call[c] EXCEPT !.stage = "enter"]) /\ UNCHANGED job
    <3>1. [call[c] EXCEPT !.stage = "enter"].stage = "enter"
      BY DEF CallsSound, Call
    <3>2. call[c].stage \notin Active /\ UNCHANGED <<hlsJobs, job>>
      BY <1>2, <2>2 DEF SelectActive, Active
    <3>3. Moves(c)
      BY <2>2, <3>1, <3>2, GoesMoves DEF Active
    <3> QED
      BY <3>2, <3>3, RegistryKept, MovesCounted DEF RegistrySound
  <2> QED
    BY <1>2, <2>1, <2>2 DEF SelectActive
<1>3. ASSUME NEW c \in Calls, RetainJob(c) PROVE RegistrySound' /\ Counted'
  <2> DEFINE j == call[c].job
  <2>1. call[c].at \in Keys /\ j \in Jobs /\ call[c].stage \notin Active /\ UNCHANGED hlsJobs
    BY <1>3 DEF RetainJob, CallsSound, CallRow, Active
  <2>2. CASE hlsJobs[call[c].at] = j
    <3> DEFINE row == [call[c] EXCEPT !.stage = "preparing", !.at = NoKey]
    <3>1. row.stage = "preparing" /\ row.job = j
      BY DEF CallsSound, Call
    <3>2. j \in Registered
      BY <2>1, <2>2, RegisteredIs
    <3>3. Goes(c, row) /\ job' = Retained(j)
      BY <1>3, <2>2 DEF RetainJob
    <3> HIDE DEF row
    <3> QED
      BY <2>1, <3>1, <3>2, <3>3, TakesUp
  <2>3. CASE hlsJobs[call[c].at] # j
    <3> DEFINE row == [call[c] EXCEPT !.stage = "select", !.at = NoKey, !.job = NoJob]
    <3>1. row.stage = "select"
      BY DEF CallsSound, Call
    <3>2. Goes(c, row) /\ UNCHANGED job
      BY <1>3, <2>3 DEF RetainJob
    <3> HIDE DEF row
    <3>3. Moves(c)
      BY <2>1, <3>1, <3>2, GoesMoves DEF Active
    <3> QED
      BY <2>1, <3>2, <3>3, RegistryKept, MovesCounted DEF RegistrySound
  <2> QED
    BY <2>2, <2>3
<1>4. ASSUME NEW c \in Calls,
             \/ BeginCall(c) \/ SelectGeneration(c) \/ StopWaited(c) \/ StopJoined(c) \/ AdoptJob(c)
             \/ EnterJob(c) \/ StopOther(c) \/ FindJob(c) \/ AdmitStorage(c) \/ PublishJob(c)
             \/ ReadLimit(c) \/ EndCall(c) \/ AwaitFile(c) \/ RetryStart(c) \/ EvictPrewarmed(c)
             \/ StopPrewarmed(c) \/ CancelCall(c)
      PROVE  RegistrySound' /\ Counted'
  BY <1>4, BindingsStep, CallsMove, MovesCounted DEF CountersKept
<1>8. ASSUME NEW c \in Calls, Admitted(c) PROVE RegistrySound' /\ Counted'
  <2>1. UNCHANGED <<hlsJobs, job>> /\ (UNCHANGED call \/ Ends(c)) /\ call[c].stage \notin Active
    BY <1>8 DEF Admitted, Active
  <2> QED
    BY <2>1, EndsMoves, RegistryKept, MovesCounted DEF RegistrySound
<1>5. ASSUME NEW k \in Keys, Detach(k) PROVE RegistrySound' /\ Counted'
  BY <1>5, UnboundSound, MovesCounted DEF Detach, RegistrySound
<1>6. CASE ReclaimStep
  BY <1>6, ReclaimStepSound, QuietCounted
<1>7. ASSUME \/ \E l \in Limits : AskReset(l)
             \/ MonitorReads \/ MonitorTick \/ ReclaimNext \/ MonitorEnds \/ Resetting
      PROVE  UNCHANGED <<hlsJobs, job, call>>
  BY <1>7 DEF AskReset, MonitorReads, MonitorTick, Resetting, ReclaimNext, MonitorEnds, RaiseLimit, LowerLimit,
              PublishLimit
<1> QED
  BY <1>1, <1>2, <1>3, <1>4, <1>5, <1>6, <1>7, <1>8, JobsStep, PromoteSound, ReleaseJobSound
     DEF Next, Steps, Reclaiming

LEMMA HLSStep ==
  ASSUME HLSInv, Next
  PROVE  HLSInv'
BY CallsStep, StorageStep, ReadStep, RegistryStep DEF HLSInv, RegistrySound

LEMMA HLSStutter ==
  ASSUME HLSInv, UNCHANGED vars
  PROVE  HLSInv'
<1> USE DEF HLSInv, vars
<1>1. RegistrySound'
  BY RegistryKept DEF RegistrySound
<1>2. Counted'
  BY MovesCounted
<1> QED
  BY <1>1, <1>2, CallsKept, StorageKept DEF RegistrySound, ReadSound

LEMMA HLSInit ==
  ASSUME Init
  PROVE  HLSInv
<1>1. NoJob \notin Jobs /\ Nobody \notin Calls \cup {"monitor", "reset"}
  BY HLSJobsAssumption DEF Nobody
<1>2. PICK plan \in Plans :
        /\ limit = plan.limit
        /\ call = [c \in Calls |-> AtStage("planned", plan.calls[c])]
        /\ reset = [stage |-> "none", limit |-> 0, may |-> plan.limits]
  BY DEF Init
<1>3. plan.limit \in Limits /\ plan.limits \subseteq Limits
  BY <1>2, HLSJobsAssumption
<1>4. StorageSound
  <2>1. storage = Free
    BY DEF Init
  <2>2. Limits \subseteq Int
    BY LimitsNat
  <2> QED
    BY <1>1, <1>2, <1>3, <2>1, <2>2 DEF StorageSound, Free
<1>5. ASSUME NEW c \in Calls
      PROVE  call[c] \in Call /\ call[c].stage = "planned"
  <2>1. PICK kind \in {"seek", "playlist", "prewarm", "start"}, key \in Keys : plan.calls[c] = <<kind, key>>
    BY <1>2, HLSJobsAssumption DEF Keys
  <2>2. call[c] = AtStage("planned", <<kind, key>>)
    BY <1>2, <2>1
  <2>3. CallRow(AtStage("planned", <<kind, key>>))
    BY StageRows DEF Stages, Active
  <2> QED
    BY <2>2, <2>3 DEF CallRow, AtStage
<1>6. CallsSound
  BY <1>2, <1>5 DEF CallsSound, CallRow, Active
<1>7. RegistryTyped /\ Registered = {}
  BY <1>1 DEF Init, RegistryTyped, Registered, Bound
<1>8. ASSUME NEW j \in Jobs
      PROVE  /\ job[j] \in Row /\ ~job[j].used /\ job[j].stop = "no"
             /\ job[j].requests = 0 /\ job[j].preparations = 0
  <2> DEFINE f == CHOOSE f \in Starts : TRUE
  <2>1. f \in Starts
    BY HLSJobsAssumption
  <2> HIDE DEF f
  <2>2. job[j] = [used |-> FALSE, fingerprint |-> f, phase |-> 0, err |-> FALSE, worker |-> "out",
                  requests |-> 0, preparations |-> 0, stopWhenIdle |-> FALSE,
                  detached |-> FALSE, drain |-> FALSE, stop |-> "no"]
    BY DEF Init, f
  <2> QED
    BY <2>1, <2>2 DEF Row
<1>9. RowsTyped
  BY <1>8 DEF RowsTyped, Init
<1>10. RowsSound
  BY <1>7, <1>8 DEF RowsSound, RowSound
<1>11. ShareableOnce
  BY <1>7 DEF ShareableOnce, Shared
<1>12. Counted
  <2>1. \A j \in Jobs : On(j) = {} /\ Preparing(j) = {}
    BY <1>5 DEF On, Preparing, Active
  <2> QED
    BY <1>8, <2>1, FS_EmptySet DEF Counted
<1>13. ReadSound
  BY DEF Init, ReadSound
<1> QED
  BY <1>4, <1>6, <1>7, <1>9, <1>10, <1>11, <1>12, <1>13 DEF HLSInv

LEMMA HLSInvariant == Spec => []HLSInv
<1>1. Init => HLSInv
  BY HLSInit
<1>2. HLSInv /\ [Next]_vars => HLSInv'
  BY HLSStep, HLSStutter
<1> QED
  BY <1>1, <1>2, PTL DEF Spec

\* Every reachable state is typed: in particular the counters of a job, which the code raises and
\* lowers one request at a time, never fall below zero nor rise above the number of calls, and no
\* job has more preparations than requests.
THEOREM HLSTypeCorrect == Spec => []TypeOK
<1>1. ASSUME HLSInv PROVE TypeOK
  <2> USE <1>1 DEF HLSInv
  <2>1. ASSUME NEW j \in Jobs
        PROVE  job[j] \in Job /\ job[j].preparations <= job[j].requests
    <3>1. /\ job[j].requests \in 0..Cardinality(Calls)
          /\ job[j].preparations \in 0..Cardinality(Calls)
          /\ job[j].preparations <= job[j].requests
      <4>1. Cardinality(On(j)) \in 0..Cardinality(Calls) /\ Cardinality(Calls) \in Nat
        BY OnFinite, FS_CardinalityType, HLSJobsAssumption
      <4>2. Cardinality(Preparing(j)) \in 0..Cardinality(On(j))
        BY OnFinite
      <4>3. /\ job[j].requests = Cardinality(On(j))
            /\ job[j].preparations = Cardinality(Preparing(j))
        BY DEF Counted
      <4> QED
        BY <4>1, <4>2, <4>3
    <3>2. job[j] \in Row
      BY DEF RowsTyped
    <3> QED
      BY <3>1, <3>2 DEF Row, Job
  <2>2. job \in [Jobs -> Job]
    BY <2>1 DEF RowsTyped
  <2> QED
    BY <2>1, <2>2 DEF TypeOK, RegistryTyped, CallsSound, StorageSound, ReadSound
<1> QED
  BY <1>1, HLSInvariant, PTL

\* A job that a key leads to is not being taken down, whoever looks the key up: neither at once
\* nor by the last response of a job that was to be stopped when idle.
THEOREM HLSBoundNotStopped == Spec => []BoundNotStopped
<1>1. ASSUME HLSInv PROVE BoundNotStopped
  <2>1. ASSUME NEW k \in Keys, hlsJobs[k] # NoJob
        PROVE  job[hlsJobs[k]].stop = "no" /\ ~job[hlsJobs[k]].detached
    <3>1. hlsJobs[k] \in Jobs
      BY <1>1, <2>1 DEF HLSInv, RegistryTyped
    <3>2. hlsJobs[k] \in Registered
      BY <3>1, RegisteredIs
    <3> QED
      BY <1>1, <3>1, <3>2 DEF HLSInv, RowsSound, RowSound
  <2> QED
    BY <2>1 DEF BoundNotStopped
<1> QED
  BY <1>1, HLSInvariant, PTL

\* No response loses the workspace it reads from, and no workspace is left without somebody who
\* will remove it, however detaches, stops, reclaims and releases interleave.
THEOREM HLSWorkspaceLifetime == Spec => []WorkspaceLifetime
<1>1. ASSUME HLSInv PROVE WorkspaceLifetime
  <2>1. ASSUME NEW c \in Calls, call[c].stage \in Active
        PROVE  job[call[c].job].stop # "gone"
    <3>1. call[c].job \in Jobs
      BY <1>1, <2>1 DEF HLSInv, CallsSound, CallRow
    <3>2. job[call[c].job].requests >= 1
      BY <1>1, <2>1, <3>1, OnCounts DEF HLSInv
    <3> QED
      BY <1>1, <3>1, <3>2 DEF HLSInv, RowsSound, RowSound
  <2>2. WorkspaceHeld
    BY <2>1 DEF WorkspaceHeld, Active
  <2>3. NoWorkspaceLeaks
    BY <1>1 DEF HLSInv, RowsSound, RowSound, NoWorkspaceLeaks
  <2> QED
    BY <2>2, <2>3 DEF WorkspaceLifetime
<1> QED
  BY <1>1, HLSInvariant, PTL

\* At most one encoder of a fingerprint can be joined: a call that waited for storage looks again
\* before it starts a second one.
THEOREM HLSOneShareable == Spec => []OneShareable
<1>1. ASSUME HLSInv PROVE OneShareable
  <2>1. ASSUME NEW f \in Starts
        PROVE  Cardinality(Shared(f)) <= 1
    <3>1. CASE Shared(f) = {}
      BY <3>1, FS_EmptySet
    <3>2. CASE Shared(f) # {}
      <4>1. PICK j \in Shared(f) : TRUE
        BY <3>2
      <4>2. Shared(f) = {j}
        BY <1>1, <4>1 DEF HLSInv, ShareableOnce
      <4> QED
        BY <4>2, FS_Singleton
    <3> QED
      BY <3>1, <3>2
  <2> QED
    BY <2>1 DEF OneShareable
<1> QED
  BY <1>1, HLSInvariant, PTL

-----------------------------------------------------------------------------
(* Storage over its limit.                                                 *)

\* Why the bytes can exceed the limit only while a writer or a reclaim is at work: they grow only
\* under a writer, the last of which looks again; a reclaim that aims no higher than the limit
\* ends below it; and one that aims higher, at a limit that it read before the change, is never
\* relied on.
LEMMA BytesNat == Bytes \in Nat
<1>1. {j \in Jobs : job[j].phase >= 1} \subseteq Jobs /\ {j \in Jobs : job[j].phase = 2} \subseteq Jobs
  OBVIOUS
<1>2. /\ IsFiniteSet({j \in Jobs : job[j].phase >= 1})
      /\ IsFiniteSet({j \in Jobs : job[j].phase = 2})
  BY <1>1, FS_Subset, HLSJobsAssumption
<1>3. /\ Cardinality({j \in Jobs : job[j].phase >= 1}) \in Nat
      /\ Cardinality({j \in Jobs : job[j].phase = 2}) \in Nat
  BY <1>2, FS_CardinalityType
<1> QED
  BY <1>3 DEF Bytes

LEMMA BytesFall ==
  ASSUME RowsTyped, \A j \in Jobs : job'[j].phase = job[j].phase \/ job'[j].phase = 0
  PROVE  Bytes' <= Bytes /\ Bytes \in Nat /\ Bytes' \in Nat
<1> DEFINE A == {j \in Jobs : job[j].phase >= 1}
           B == {j \in Jobs : job[j].phase = 2}
           A2 == {j \in Jobs : job'[j].phase >= 1}
           B2 == {j \in Jobs : job'[j].phase = 2}
<1>1. A \subseteq Jobs /\ B \subseteq Jobs /\ A2 \subseteq A /\ B2 \subseteq B
  BY DEF RowsTyped, Row
<1>2. Bytes = Cardinality(A) + Cardinality(B) /\ Bytes' = Cardinality(A2) + Cardinality(B2)
  BY DEF Bytes
<1> HIDE DEF A, B, A2, B2
<1>3. IsFiniteSet(A) /\ IsFiniteSet(B) /\ IsFiniteSet(A2) /\ IsFiniteSet(B2)
  BY <1>1, FS_Subset, HLSJobsAssumption
<1>4. Cardinality(A2) <= Cardinality(A) /\ Cardinality(B2) <= Cardinality(B)
  BY <1>1, <1>3, FS_Subset
<1>5. /\ Cardinality(A) \in Nat /\ Cardinality(B) \in Nat
      /\ Cardinality(A2) \in Nat /\ Cardinality(B2) \in Nat
  BY <1>3, FS_CardinalityType
<1> QED
  BY <1>2, <1>4, <1>5

\* Stopping, removing, retaining and releasing a job leave its worker alone and write nothing.
LEMMA RowWritesNothing ==
  ASSUME NEW row \in Row
  PROVE  /\ StopDetached(row).worker = row.worker /\ StopDetached(row).phase = row.phase
         /\ Removed(row).worker = row.worker /\ Removed(row).phase = 0
BY DEF Row, StopDetached, Begun, Removed

LEMMA ReleasedWritesNothing ==
  ASSUME NEW row \in Row, NEW preparing \in BOOLEAN
  PROVE  /\ ReleasedRow(row, preparing).worker = row.worker
         /\ ReleasedRow(row, preparing).phase = row.phase
<1> DEFINE left == IF preparing THEN row.preparations - 1 ELSE row.preparations
           less == [row EXCEPT !.requests = @ - 1, !.preparations = left]
           idle == [less EXCEPT !.stopWhenIdle = FALSE]
<1>1. less \in Row
  <2>1. row.requests - 1 \in Int /\ left \in Int
    BY DEF Row
  <2> HIDE DEF left
  <2> QED
    BY <2>1, RowWith
<1>2. less.worker = row.worker /\ less.phase = row.phase
  BY DEF Row
<1>3. ReleasedRow(row, preparing) = StopDetached(idle) \/ ReleasedRow(row, preparing) = less
  BY DEF ReleasedRow
<1> HIDE DEF less
<1>4. idle \in Row /\ idle.worker = less.worker /\ idle.phase = less.phase
  BY <1>1 DEF Row
<1> QED
  BY <1>2, <1>3, <1>4, RowWritesNothing

\* No step of this kind starts or ends a writer, or writes.
WritersKept ==
  \A j \in Jobs : /\ job'[j].worker = job[j].worker
                  /\ job'[j].phase = job[j].phase \/ job'[j].phase = 0

\* A reclaim is at work that brings the bytes down to the limit.
ReclaimsToLimit == storage.by # Nobody /\ ~storage.admitted /\ storage.goal <= limit

LEMMA AttendedKept ==
  ASSUME RowsTyped, StorageSound, OverLimitAttended, WritersKept,
         limit' \in Limits, limit' >= limit,
         ReclaimsToLimit => ReclaimsToLimit', Registered = {} => Registered' = {}
  PROVE  OverLimitAttended'
<1>1. Bytes' <= Bytes /\ Bytes \in Nat /\ Bytes' \in Nat
  BY BytesFall DEF WritersKept
<1>2. limit \in Nat /\ limit' \in Nat
  BY LimitsNat DEF StorageSound
<1>3. Bytes' > limit' => Bytes > limit
  BY <1>1, <1>2
<1>4. (\E j \in Jobs : job[j].worker # "out") => \E j \in Jobs : job'[j].worker # "out"
  BY DEF WritersKept
<1> QED
  BY <1>3, <1>4 DEF OverLimitAttended, ReclaimsToLimit

\* A reclaim ends: if it aimed no higher than the limit enough is free under the limit too.
LEMMA EnoughIs ==
  ASSUME StorageSound, OverLimitAttended, Enough, RowsTyped, UNCHANGED <<limit, hlsJobs, job>>
  PROVE  OverLimitAttended'
<1>1. Bytes \in Nat /\ limit \in Nat /\ storage.goal \in Int
  BY BytesNat, LimitsNat DEF StorageSound
<1>2. Bytes' = Bytes /\ Registered' = Registered
  BY DEF Bytes, Registered, Bound
<1>3. ReclaimsToLimit => ~(Bytes > limit)
  BY <1>1 DEF Enough, ReclaimsToLimit
<1>4. CASE Bytes > limit
  BY <1>2, <1>3, <1>4 DEF OverLimitAttended, ReclaimsToLimit
<1>5. CASE ~(Bytes > limit)
  BY <1>2, <1>5 DEF OverLimitAttended
<1> QED
  BY <1>4, <1>5

\* A lock that was free or held for a job that may be published is not what is relied on.
LEMMA NotReliedOn ==
  ASSUME StorageSound, OverLimitAttended, storage.by = Nobody \/ storage.admitted,
         UNCHANGED <<limit, hlsJobs, job>>
  PROVE  OverLimitAttended'
<1>1. Bytes' = Bytes /\ Registered' = Registered
  BY DEF Bytes, Registered, Bound
<1> QED
  BY <1>1 DEF OverLimitAttended

LEMMA UnboundAttended ==
  ASSUME HLSInv, NEW ks, Unbound(ks)
  PROVE  WritersKept /\ (Registered = {} => Registered' = {})
<1>1. \A j \in Jobs : job[j] \in Row
  BY DEF HLSInv, RowsTyped
<1>2. \A j \in Jobs : job'[j] = [job[j] EXCEPT !.detached = TRUE] \/ job'[j] = job[j]
  BY DEF Unbound
<1>3. WritersKept
  BY <1>1, <1>2 DEF WritersKept, Row
<1>4. \A k \in Keys : hlsJobs'[k] = NoJob \/ hlsJobs'[k] = hlsJobs[k]
  BY DEF Unbound
<1>5. ASSUME Registered = {}, NEW j \in Registered' PROVE FALSE
  <2>1. j \in Jobs /\ j # NoJob
    BY <1>5, HLSJobsAssumption DEF Registered
  <2> QED
    BY <1>4, <1>5, <2>1, RegisteredIs
<1> QED
  BY <1>3, <1>5

LEMMA OverLimitStep ==
  ASSUME HLSInv, OverLimitAttended, Next
  PROVE  OverLimitAttended'
<1> USE DEF HLSInv
<1>0. /\ \A j \in Jobs : job[j] \in Row
      /\ limit \in Limits /\ limit >= limit
  BY LimitsNat DEF RowsTyped, StorageSound
<1>n. Nobody \notin Calls \cup {"monitor", "reset"}
  BY HLSJobsAssumption DEF Nobody
<1>f. ASSUME UNCHANGED <<limit, hlsJobs, job>>, ReclaimsToLimit => ReclaimsToLimit'
      PROVE  OverLimitAttended'
  <2>1. WritersKept /\ (Registered = {} => Registered' = {})
    BY <1>f DEF WritersKept, Registered, Bound
  <2> QED
    BY <1>0, <1>f, <2>1, AttendedKept
<1>g. ASSUME UNCHANGED <<limit, hlsJobs, storage>>, NEW j \in Jobs, NEW row,
             job' = [job EXCEPT ![j] = row], row.worker = job[j].worker,
             row.phase = job[j].phase \/ row.phase = 0
      PROVE  OverLimitAttended'
  <2>1. WritersKept
    BY <1>g DEF WritersKept, RowsTyped
  <2>2. Registered = {} => Registered' = {}
    BY <1>g DEF Registered, Bound
  <2> QED
    BY <1>0, <1>g, <2>1, <2>2, AttendedKept DEF ReclaimsToLimit
<1>u. ASSUME UNCHANGED <<limit, storage>>, NEW ks, Unbound(ks)
      PROVE  OverLimitAttended'
  BY <1>0, <1>u, UnboundAttended, AttendedKept DEF ReclaimsToLimit
<1>k. ASSUME UNCHANGED <<limit, storage>>
      PROVE  ReclaimsToLimit => ReclaimsToLimit'
  BY <1>k DEF ReclaimsToLimit
<1>w. ASSUME NEW j \in Jobs, job'[j].worker # "out"
      PROVE  OverLimitAttended'
  BY <1>w DEF OverLimitAttended
<1>s. ASSUME ReclaimsToLimit'
      PROVE  OverLimitAttended'
  BY <1>s DEF OverLimitAttended, ReclaimsToLimit
<1>r. ASSUME NEW j \in Registered, UNCHANGED <<limit, job, storage>>
      PROVE  OverLimitAttended'
  <2>1. WritersKept
    BY <1>r DEF WritersKept
  <2> QED
    BY <1>0, <1>r, <2>1, AttendedKept DEF ReclaimsToLimit
<1>1. ASSUME NEW j \in Jobs, Stopping(j) PROVE OverLimitAttended'
  <2>1. CASE DecideStop(j)
    <3>1. WhenIdle(j).worker = job[j].worker /\ WhenIdle(j).phase = job[j].phase
      <4>1. CASE job[j].requests > 0
        BY <1>0, <4>1 DEF WhenIdle, Row
      <4>2. CASE ~(job[j].requests > 0)
        <5> DEFINE row == StopDetached(job[j])
        <5>1. row \in Row /\ row.worker = job[j].worker /\ row.phase = job[j].phase
          BY <1>0, StopDetachedRow, RowWritesNothing
        <5>2. WhenIdle(j) = [row EXCEPT !.detached = FALSE]
          BY <4>2 DEF WhenIdle
        <5> HIDE DEF row
        <5> QED
          BY <5>1, <5>2 DEF Row
      <4> QED
        BY <4>1, <4>2
    <3> QED
      BY <1>g, <2>1, <3>1 DEF DecideStop
  <2>2. CASE EncoderLeft(j) \/ Drained(j)
    <3> DEFINE row == [job[j] EXCEPT !.stop = "drain"]
    <3>1. row.worker = job[j].worker /\ row.phase = job[j].phase
      BY <1>0 DEF Row
    <3>2. job' = [job EXCEPT ![j] = row] \/ job' = [job EXCEPT ![j] = Removed(job[j])]
      BY <2>2 DEF EncoderLeft, Drained
    <3>3. UNCHANGED <<limit, hlsJobs, storage>>
      BY <2>2 DEF EncoderLeft, Drained
    <3> HIDE DEF row
    <3> QED
      BY <1>0, <1>g, <3>1, <3>2, <3>3, RowWritesNothing
  <2> QED
    BY <1>1, <2>1, <2>2 DEF Stopping
<1>2. ASSUME NEW j \in Jobs, EncoderLeaves(j) PROVE OverLimitAttended'
  <2>1. j \in Writers
    BY <1>2 DEF EncoderLeaves, Writers
  <2>2. CASE Writers = {j}
    <3>1. job'[j].worker = "last"
      BY <1>0, <1>2, <2>2 DEF EncoderLeaves, RowsTyped, Row
    <3> QED
      BY <1>w, <3>1
  <2>3. CASE Writers # {j}
    <3>1. PICK i \in Writers : i # j
      BY <2>1, <2>3
    <3>2. i \in Jobs /\ job'[i].worker # "out"
      BY <1>2, <3>1 DEF EncoderLeaves, RowsTyped, Writers
    <3> QED
      BY <1>w, <3>2
  <2> QED
    BY <2>2, <2>3
<1>3. ASSUME NEW j \in Jobs, LastWriter(j) PROVE OverLimitAttended'
  <2>1. CASE Writers = {}
    <3>1. /\ storage'.by = "monitor" /\ ~storage'.admitted /\ storage'.goal = limit
          /\ limit' = limit
      BY <1>3, <2>1 DEF LastWriter, Reclaim
    <3> QED
      BY <1>0, <1>n, <1>s, <3>1 DEF ReclaimsToLimit
  <2>2. CASE Writers # {}
    <3>1. PICK i \in Writers : TRUE
      BY <2>2
    <3>2. i \in Jobs /\ i # j /\ job[i].worker # "out"
      BY <1>3, <3>1 DEF LastWriter, Writers
    <3>3. job'[i].worker # "out"
      BY <1>3, <3>2 DEF LastWriter, RowsTyped
    <3> QED
      BY <1>w, <3>2, <3>3
  <2> QED
    BY <2>1, <2>2
<1>4. ASSUME NEW j \in Jobs, Encode(j) \/ EncoderEnds(j) PROVE OverLimitAttended'
  <2>1. job'[j].worker \in {"run", "ended"}
    <3>1. CASE Encode(j)
      BY <1>0, <3>1 DEF Encode, RowsTyped, Row
    <3>2. CASE EncoderEnds(j)
      BY <1>0, <3>2 DEF EncoderEnds, RowsTyped, Row
    <3> QED
      BY <1>4, <3>1, <3>2
  <2> QED
    BY <1>w, <2>1
<1>l. ASSUME storage.by = Nobody \/ storage.admitted, UNCHANGED <<limit, hlsJobs, job>>
      PROVE  OverLimitAttended'
  BY <1>l, NotReliedOn
<1>5. CASE MonitorReads \/ MonitorTick \/ LowerLimit
  <2>1. CASE MonitorReads
    BY <1>f, <1>k, <2>1 DEF MonitorReads
  <2>2. CASE MonitorTick
    BY <1>l, <2>2 DEF MonitorTick, ReclaimRead
  <2>3. CASE LowerLimit
    BY <1>l, <2>3 DEF LowerLimit, Reclaim
  <2> QED
    BY <1>5, <2>1, <2>2, <2>3
<1>6. CASE ReclaimStep
  <2>1. PICK j \in Preferred :
          /\ hlsJobs' = [k \in Keys |-> IF hlsJobs[k] = j THEN NoJob ELSE hlsJobs[k]]
          /\ job' = [job EXCEPT ![j] = StopDetached(job[j])]
          /\ storage' = [storage EXCEPT !.victim = j]
    BY <1>6 DEF ReclaimStep
  <2>2. j \in Jobs /\ j \in Registered
    BY DEF Preferred, Registered
  <2>3. ReclaimsToLimit => ReclaimsToLimit'
    BY <1>6, <2>1 DEF ReclaimStep, ReclaimsToLimit, StorageSound
  <2>4. WritersKept
    <3>1. \A i \in Jobs : job'[i] = IF i = j THEN StopDetached(job[i]) ELSE job[i]
      BY <2>1, <2>2 DEF RowsTyped
    <3> QED
      BY <1>0, <3>1, RowWritesNothing DEF WritersKept
  <2>5. UNCHANGED limit
    BY <1>6 DEF ReclaimStep
  <2> QED
    BY <1>0, <2>2, <2>3, <2>4, <2>5, AttendedKept
<1>7. CASE ReclaimNext
  <2>1. ReclaimsToLimit => ReclaimsToLimit'
    BY <1>7 DEF ReclaimNext, StorageSound, ReclaimsToLimit
  <2> QED
    BY <1>7, <1>f, <2>1 DEF ReclaimNext
<1>8. CASE MonitorEnds
  <2>1. CASE Enough
    BY <1>8, <2>1, EnoughIs DEF MonitorEnds, Reclaimed
  <2>2. CASE Registered = {}
    <3>1. Registered' = {}
      BY <1>8, <2>2 DEF MonitorEnds, Registered, Bound
    <3> QED
      BY <3>1 DEF OverLimitAttended
  <2> QED
    BY <1>8, <2>1, <2>2 DEF MonitorEnds, Reclaimed
<1>9. CASE RaiseLimit
  <2>1. limit' \in Limits /\ limit' >= limit
    BY <1>9, LimitsNat DEF RaiseLimit, StorageSound
  <2>2. WritersKept /\ (Registered = {} => Registered' = {})
    BY <1>9 DEF RaiseLimit, WritersKept, Registered, Bound
  <2> QED
    BY <1>9, <2>1, <2>2, AttendedKept DEF RaiseLimit, ReclaimsToLimit
<1>10. CASE PublishLimit
  <2>1. storage.by = "reset" /\ UNCHANGED <<hlsJobs, job>>
    BY <1>10 DEF PublishLimit, Reclaimed
  <2>2. Bytes' = Bytes /\ Bytes \in Nat /\ Registered' = Registered
    BY <2>1, BytesNat DEF Bytes, Registered, Bound
  <2>3. CASE Enough
    <3>1. limit' = reset.limit /\ storage.goal = reset.limit /\ reset.limit \in Int
      BY <1>10, <2>1, <2>3 DEF PublishLimit, StorageSound
    <3>2. ~(Bytes' > limit')
      BY <2>2, <2>3, <3>1 DEF Enough
    <3> QED
      BY <3>2 DEF OverLimitAttended
  <2>4. CASE ~Enough
    <3>1. Registered = {}
      BY <1>10, <2>4 DEF PublishLimit, Reclaimed
    <3> QED
      BY <2>2, <3>1 DEF OverLimitAttended
  <2> QED
    BY <2>3, <2>4
<1>11. ASSUME NEW k \in Keys, Detach(k) PROVE OverLimitAttended'
  BY <1>11, <1>u DEF Detach
<1>12. ASSUME NEW l \in Limits, AskReset(l) PROVE OverLimitAttended'
  BY <1>12, <1>f, <1>k DEF AskReset
<1>13. ASSUME NEW c \in Calls,
              \/ BeginCall(c) \/ SelectGeneration(c) \/ StopJoined(c) \/ EnterJob(c) \/ StopOther(c)
              \/ ReadLimit(c) \/ EvictPrewarmed(c)
       PROVE  OverLimitAttended'
  <2>1. UNCHANGED <<limit, hlsJobs, job, storage>>
    BY <1>13 DEF BeginCall, SelectGeneration, StopJoined, EnterJob, StopOther, ReadLimit,
                 EvictPrewarmed
  <2> QED
    BY <1>f, <1>k, <2>1
<1>14. ASSUME NEW c \in Calls, AdmitStorage(c) PROVE OverLimitAttended'
  BY <1>14, <1>l DEF AdmitStorage, Reclaim
<1>15. ASSUME NEW c \in Calls, EndCall(c) PROVE OverLimitAttended'
  BY <1>15, <1>l DEF EndCall, ReclaimRead
<1>16. ASSUME NEW c \in Calls,
              \/ StopWaited(c) \/ AwaitFile(c) \/ RetryStart(c) \/ StopPrewarmed(c) \/ CancelCall(c)
       PROVE  OverLimitAttended'
  <2>1. UNCHANGED <<limit, storage>>
    BY <1>16 DEF StopWaited, AwaitFile, RetryStart, StopPrewarmed, CancelCall
  <2>2. UNCHANGED <<hlsJobs, job>> \/ \E ks : Unbound(ks)
    BY <1>16 DEF StopWaited, AwaitFile, RetryStart, StopPrewarmed, StopsKey, CancelCall
  <2> QED
    BY <1>f, <1>k, <1>u, <2>1, <2>2
<1>17. ASSUME NEW c \in Calls, AdoptJob(c) PROVE OverLimitAttended'
  <2>1. PICK p \in Prewarm : hlsJobs[<<p, call[c].key[2]>>] # NoJob
    BY <1>17 DEF AdoptJob, Adoptable
  <2>2. <<p, call[c].key[2]>> \in Keys
    BY HLSJobsAssumption DEF Keys, CallsSound, Call
  <2>3. hlsJobs[<<p, call[c].key[2]>>] \in Registered
    BY <2>1, <2>2, RegisteredIs DEF RegistryTyped
  <2> QED
    BY <1>17, <1>r, <2>3 DEF AdoptJob
<1>18. ASSUME NEW c \in Calls, FindJob(c) PROVE OverLimitAttended'
  <2>1. UNCHANGED <<limit, job, storage>>
    BY <1>18 DEF FindJob
  <2>2. UNCHANGED hlsJobs \/ \E j : j \in Registered
    BY <1>18 DEF FindJob, Shared
  <2> QED
    BY <1>f, <1>k, <1>r, <2>1, <2>2
<1>19. ASSUME NEW c \in Calls, PublishJob(c) PROVE OverLimitAttended'
  <2> DEFINE k == call[c].key
             fresh == CHOOSE i \in {i \in Jobs : ~job[i].used} : TRUE
  <2>1. storage.admitted /\ UNCHANGED limit
    BY <1>19 DEF PublishJob
  <2>2. CASE UNCHANGED <<hlsJobs, job>>
    BY <1>l, <2>1, <2>2
  <2>3. CASE UNCHANGED job /\ \E shared \in Shared(k[2]) : TRUE
    <3>1. Registered # {} /\ WritersKept /\ ~ReclaimsToLimit
      BY <2>1, <2>3 DEF Shared, WritersKept, ReclaimsToLimit
    <3> QED
      BY <1>0, <2>1, <3>1, AttendedKept
  <2>4. CASE fresh \in Jobs /\ job' = [job EXCEPT ![fresh] = NewJob(k[2])]
    <3>1. job'[fresh].worker = "run"
      BY <2>4 DEF RowsTyped, NewJob
    <3> QED
      BY <1>w, <2>4, <3>1
  <2> QED
    BY <1>19, <2>2, <2>3, <2>4 DEF PublishJob
<1>23. ASSUME NEW c \in Calls, Admitted(c) PROVE OverLimitAttended'
  <2>1. UNCHANGED <<limit, hlsJobs, job>>
    BY <1>23 DEF Admitted
  <2>2. CASE Enough
    BY <2>1, <2>2, EnoughIs
  <2>3. CASE ~Enough
    <3>1. Registered = {}
      BY <1>23, <2>3 DEF Admitted, Reclaimed
    <3>2. Registered' = {}
      BY <2>1, <3>1 DEF Registered, Bound
    <3> QED
      BY <3>2 DEF OverLimitAttended
  <2> QED
    BY <2>2, <2>3
<1>20. ASSUME NEW c \in Calls, SelectActive(c) \/ RetainJob(c) PROVE OverLimitAttended'
  <2>1. UNCHANGED <<limit, hlsJobs, storage>>
    BY <1>20 DEF SelectActive, RetainJob
  <2>2. UNCHANGED job \/ \E j : job' = Retained(j)
    BY <1>20 DEF SelectActive, RetainJob
  <2>3. CASE UNCHANGED job
    BY <1>f, <1>k, <2>1, <2>3
  <2>4. CASE \E j : job' = Retained(j)
    <3>1. PICK j : job' = Retained(j)
      BY <2>4
    <3>2. CASE j \in Jobs
      <4> DEFINE row == [job[j] EXCEPT !.requests = @ + 1, !.preparations = @ + 1]
      <4>1. job' = [job EXCEPT ![j] = row]
        BY <3>1, <3>2 DEF Retained, RowsTyped
      <4>2. row.worker = job[j].worker /\ row.phase = job[j].phase
        BY <1>0, <3>2 DEF Row
      <4> HIDE DEF row
      <4> QED
        BY <1>g, <2>1, <3>2, <4>1, <4>2
    <3>3. CASE j \notin Jobs
      <4>1. UNCHANGED job
        BY <3>1, <3>3 DEF Retained, RowsTyped
      <4> QED
        BY <1>f, <1>k, <2>1, <4>1
    <3> QED
      BY <3>2, <3>3
  <2> QED
    BY <2>2, <2>3, <2>4
<1>21. ASSUME NEW c \in Calls, Promote(c) PROVE OverLimitAttended'
  <2> DEFINE j == call[c].job
             row == [job[j] EXCEPT !.preparations = @ - 1]
  <2>1. j \in Jobs
    BY <1>21 DEF Promote, CallsSound, CallRow, Active
  <2>2. job' = [job EXCEPT ![j] = row] /\ UNCHANGED <<limit, hlsJobs, storage>>
    BY <1>21, <2>1 DEF Promote, RowsTyped
  <2>3. row.worker = job[j].worker /\ row.phase = job[j].phase
    BY <1>0, <2>1 DEF Row
  <2> HIDE DEF row
  <2> QED
    BY <1>g, <2>1, <2>2, <2>3
<1>22. ASSUME NEW c \in Calls, ReleaseJob(c) PROVE OverLimitAttended'
  <2> DEFINE j == call[c].job
             preparing == call[c].stage = "preparing"
             row == ReleasedRow(job[j], preparing)
  <2>1. j \in Jobs
    BY <1>22 DEF ReleaseJob, CallsSound, CallRow, Active
  <2>2. job' = [job EXCEPT ![j] = row] /\ UNCHANGED <<limit, hlsJobs, storage>>
    BY <1>22 DEF ReleaseJob
  <2>3. row.worker = job[j].worker /\ row.phase = job[j].phase
    BY <1>0, <2>1, ReleasedWritesNothing
  <2> HIDE DEF row
  <2> QED
    BY <1>g, <2>1, <2>2, <2>3
<1> QED
  BY <1>1, <1>2, <1>3, <1>4, <1>5, <1>6, <1>7, <1>8, <1>9, <1>10, <1>11, <1>12, <1>13, <1>14,
     <1>15, <1>16, <1>17, <1>18, <1>19, <1>20, <1>21, <1>22, <1>23
     DEF Next, Steps, Leaving, Reclaiming, Resetting

\* Storage over its limit always has somebody who brings it down, or nothing left to evict,
\* whatever the writers, the reclaims and the changes of the limit do meanwhile.
THEOREM HLSOverLimitAttended == Spec => []OverLimitAttended
<1>1. Init => OverLimitAttended
  <2>1. ASSUME Init PROVE Registered = {}
    BY <2>1, HLSJobsAssumption DEF Init, Registered, Bound
  <2> QED
    BY <2>1 DEF OverLimitAttended
<1>2. HLSInv /\ OverLimitAttended /\ [Next]_vars => OverLimitAttended'
  <2>1. ASSUME OverLimitAttended, UNCHANGED vars PROVE OverLimitAttended'
    BY <2>1 DEF OverLimitAttended, vars, Bytes, Registered, Bound
  <2> QED
    BY <2>1, OverLimitStep
<1> QED
  BY <1>1, <1>2, HLSInvariant, PTL DEF Spec
=============================================================================
