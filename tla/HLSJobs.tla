------------------------------ MODULE HLSJobs ------------------------------
(***************************************************************************)
(* Local HLS generations: server/internal/playback/hls.go.                 *)
(*                                                                         *)
(* A job is one encoder with its workspace.  The registry binds keys of    *)
(* sessions to jobs; a job that loses its last binding is stopped, but its *)
(* workspace stays while a response reads from it.  hlsMu covers one step; *)
(* what happens between two of its critical sections is a step of its own. *)
(* hlsStorageMu serialises reclaims, the seek gate the requests of one     *)
(* session, and hlsResetMu keeps a change of the limit out of hlsJob.      *)
(***************************************************************************)
EXTENDS Integers, FiniteSets

CONSTANTS
  Sessions,  \* playback sessions, all of one asset
  Prewarm,   \* the sessions among them that only prepare one
  Starts,    \* start positions; a fingerprint is told by its start
  Jobs,      \* workspace generations, each drawn once
  NoJob,
  Calls,     \* HTTP requests and preparations, each made once
  Plans,     \* what each call is, its kind and its key; the limit, and those that may be set
  NoKey,
  Limits     \* the limits of storage, in units of encoded media

ASSUME HLSJobsAssumption ==
  /\ IsFiniteSet(Calls) /\ IsFiniteSet(Jobs) /\ Starts # {}
  /\ Calls \cap {"nobody", "monitor", "reset"} = {}
  /\ Prewarm \subseteq Sessions /\ NoJob \notin Jobs
  /\ Limits \subseteq Nat \ {0} /\ Limits # {}
  /\ NoKey \notin Sessions \X Starts
  /\ \A plan \in Plans : plan.limits \cup {plan.limit} \subseteq Limits /\ \A c \in Calls :
       plan.calls[c] \in ({"prewarm"} \X (Prewarm \X Starts))
                  \cup ({"seek", "playlist", "start"} \X ((Sessions \ Prewarm) \X Starts))

VARIABLES
  hlsJobs,   \* key -> the job bound to it
  job,       \* generation -> its state
  call,      \* call -> where it is
  storage,   \* who holds hlsStorageMu, and the reclaim it performs
  read,      \* who is about to reclaim -> the limit it has read, 0 if none
  limit,     \* mediaStorageBytes
  reset      \* ApplyMediaStorageLimit: who asks for hlsResetMu, and the new limit

vars == <<hlsJobs, job, call, storage, read, limit, reset>>

-----------------------------------------------------------------------------
Keys == Sessions \X Starts
Prefix(s) == {s} \X Starts
Nobody == "nobody"

\* phase: nothing written, a playlist inside the join window, a playlist past it.
\* stop: stopDetachedHLSJob has not begun, waits for the encoder, waits for the responses that
\* were active when it began (drain), has removed the workspace.  detached: the last binding is
\* gone and whoever removed it has yet to look at the active requests.
Job == [used : BOOLEAN, fingerprint : Starts, phase : 0..2, err : BOOLEAN,
        worker : {"run", "ended", "last", "out"},
        requests : 0..Cardinality(Calls), preparations : 0..Cardinality(Calls),
        stopWhenIdle : BOOLEAN, detached : BOOLEAN, drain : BOOLEAN,
        stop : {"no", "cancel", "drain", "gone"}]

\* A restart is a start that is not tried again.  todo: the generations still to be stopped;
\* at: the key being stopped or retained; next: where the call goes on then; passed: the
\* preparations it waited for have ended.
Call == [stage : {"planned", "done", "select", "others", "retry", "evict", "enter", "job", "wait",
                  "joined", "storage", "publish", "made", "retain", "preparing",
                  "serving", "released", "reclaim", "file"},
         kind : {"seek", "playlist", "prewarm", "start", "restart"},
         key : Keys, job : Jobs \cup {NoJob},
         todo : SUBSET Keys, at : Keys \cup {NoKey}, passed : BOOLEAN,
         next : {"enter", "job", "others", "retry", "evict"}]

AtStage(stage, planned) ==
  [stage |-> stage, kind |-> planned[1], key |-> planned[2], job |-> NoJob,
   todo |-> {}, at |-> NoKey, passed |-> FALSE, next |-> "enter"]

\* hlsResetMu is taken for a change of the limit, or asked for, which keeps new readers out.
ResetWaits == reset.stage \in {"asked", "held"}

\* admitted: the reclaim of a call that publishes a job is over, and the call keeps the lock.
Free == [by |-> Nobody, goal |-> 0, admission |-> FALSE, victim |-> NoJob, admitted |-> FALSE]

Init ==
  /\ hlsJobs = [k \in Keys |-> NoJob]
  /\ job = [j \in Jobs |->
       [used |-> FALSE, fingerprint |-> CHOOSE f \in Starts : TRUE, phase |-> 0, err |-> FALSE,
        worker |-> "out", requests |-> 0, preparations |-> 0, stopWhenIdle |-> FALSE,
        detached |-> FALSE, drain |-> FALSE, stop |-> "no"]]
  /\ \E plan \in Plans :
       /\ limit = plan.limit
       /\ call = [c \in Calls |-> AtStage("planned", plan.calls[c])]
       /\ reset = [stage |-> "none", limit |-> 0, may |-> plan.limits]
  /\ storage = Free
  /\ read = [who \in Calls \cup {"monitor"} |-> 0]

-----------------------------------------------------------------------------
(* Jobs and bindings.                                                      *)

Done(j) == job[j].worker # "run"
Bound(j, reg) == {k \in Keys : reg[k] = j}
Registered == {j \in Jobs : Bound(j, hlsJobs) # {}}
Reusable(j) == ~job[j].err

\* hlsJobShareable: an encoder that has written nothing yet, or is still in the join window.
Shareable(j) == Reusable(j) /\ (job[j].phase = 1 \/ (job[j].phase = 0 /\ ~Done(j)))

\* hlsWorkspaceBytes.
Bytes ==
  Cardinality({j \in Jobs : job[j].phase >= 1}) + Cardinality({j \in Jobs : job[j].phase = 2})

OnlyPrewarming(j) == \A k \in Bound(j, hlsJobs) : k[1] \in Prewarm

\* The workspace is removed, and with it the media the job had written.
Removed(row) == [row EXCEPT !.stop = "gone", !.phase = 0, !.drain = FALSE]

\* Its error is of no more consequence: no binding leads to a job that is being stopped.
Begun(row) == [row EXCEPT !.stop = "cancel", !.drain = row.requests > 0, !.err = FALSE]

\* stopDetachedHLSJob: once, with the responses that are active now.
StopDetached(row) == IF row.stop = "no" THEN Begun(row) ELSE row

SlipUnbound(ks) ==
  /\ hlsJobs' = [k \in Keys |-> IF k \in ks THEN NoJob ELSE hlsJobs[k]]
  /\ job' = [j \in Jobs |-> IF \E k \in ks : hlsJobs[k] = j
                             THEN [job[j] EXCEPT !.detached = TRUE] ELSE job[j]]

\* stopHLSJobInstance: the bindings go; a job that loses its last one is left detached.
Unbound(ks) ==
  /\ hlsJobs' = [k \in Keys |-> IF k \in ks THEN NoJob ELSE hlsJobs[k]]
  /\ job' = [j \in Jobs |-> IF Bound(j, hlsJobs) # {} /\ Bound(j, hlsJobs) \subseteq ks
                             THEN [job[j] EXCEPT !.detached = TRUE] ELSE job[j]]

\* The stop that a detach leads to has come to the point where its caller goes on.
Settled(j) == ~job[j].detached /\ job[j].stop # "cancel"

\* stopDetachedHLSJobWhenIdle.
WhenIdle(j) ==
  IF job[j].requests > 0 THEN [job[j] EXCEPT !.stopWhenIdle = TRUE, !.detached = FALSE]
                         ELSE [StopDetached(job[j]) EXCEPT !.detached = FALSE]

DecideStop(j) ==
  /\ job[j].detached
  /\ job' = [job EXCEPT ![j] = WhenIdle(j)]
  /\ UNCHANGED <<hlsJobs, call, storage, read, limit, reset>>

\* The encoder has ended after its cancellation, or five seconds have passed.
EncoderLeft(j) ==
  /\ job[j].stop = "cancel"
  /\ job' = [job EXCEPT ![j] = IF job[j].drain THEN [job[j] EXCEPT !.stop = "drain"] ELSE Removed(job[j])]
  /\ UNCHANGED <<hlsJobs, call, storage, read, limit, reset>>

\* cleanup after the last response.
Drained(j) ==
  /\ job[j].stop = "drain" /\ job[j].requests = 0
  /\ job' = [job EXCEPT ![j] = Removed(job[j])]
  /\ UNCHANGED <<hlsJobs, call, storage, read, limit, reset>>

\* The idle timer of a binding, stopHLSSession, stopHLSJob.
Detach(k) ==
  /\ hlsJobs[k] # NoJob
  /\ Unbound({k})
  /\ UNCHANGED <<call, storage, read, limit, reset>>

-----------------------------------------------------------------------------
(* The encoder (runHLSJob).                                                *)

\* A cancelled encoder may go on writing until its workspace is removed.
Encode(j) ==
  /\ job[j].worker = "run" /\ job[j].phase < 2 /\ job[j].stop # "gone"
  /\ job' = [job EXCEPT ![j].phase = @ + 1]
  /\ UNCHANGED <<hlsJobs, call, storage, read, limit, reset>>

EncoderEnds(j) ==
  /\ job[j].worker = "run"
  /\ \E failed \in BOOLEAN :
       /\ failed => job[j].stop = "no"
       /\ job' = [job EXCEPT ![j].worker = "ended", ![j].err = @ \/ failed]
  /\ UNCHANGED <<hlsJobs, call, storage, read, limit, reset>>

Writers == {j \in Jobs : job[j].worker \in {"run", "ended"}}

\* discardFailedPrewarmBindings, and the writer is counted out.
EncoderLeaves(j) ==
  LET ks == {k \in Bound(j, hlsJobs) : job[j].err /\ k[1] \in Prewarm} IN
  /\ job[j].worker = "ended"
  /\ hlsJobs' = [k \in Keys |-> IF k \in ks THEN NoJob ELSE hlsJobs[k]]
  /\ job' = [job EXCEPT ![j].worker = IF Writers = {j} THEN "last" ELSE "out",
                        ![j].detached = @ \/ (job[j].err /\ Bound(j, hlsJobs) = ks)]
  /\ UNCHANGED <<call, storage, read, limit, reset>>

-----------------------------------------------------------------------------
(* Storage.                                                                *)

Reclaim(who, goal, admission) ==
  /\ storage.by = Nobody
  /\ storage' = [by |-> who, goal |-> goal, admission |-> admission, victim |-> NoJob,
                  admitted |-> FALSE]

\* reclaimHLSStorage reads the limit and then waits for hlsStorageMu: the limit may change between.
ReadsLimit(who) == read' = [read EXCEPT ![who] = limit]

ReclaimRead(who) ==
  /\ storage.by = Nobody
  /\ IF Bytes > read[who] THEN Reclaim("monitor", read[who], FALSE) ELSE UNCHANGED storage
  /\ read' = [read EXCEPT ![who] = 0]

\* monitorHLSStorage: a tick while there are writers.
MonitorReads ==
  /\ Writers # {} /\ read["monitor"] = 0
  /\ ReadsLimit("monitor")
  /\ UNCHANGED <<hlsJobs, job, call, storage, limit, reset>>

MonitorTick ==
  /\ read["monitor"] # 0
  /\ ReclaimRead("monitor")
  /\ UNCHANGED <<hlsJobs, job, call, limit, reset>>

SlipLastWriter(j) ==
  /\ job[j].worker = "last"
  /\ job' = [job EXCEPT ![j].worker = "out"]
  /\ UNCHANGED <<hlsJobs, call, storage, read, limit, reset>>

\* reclaimHLSStorageIfIdle by the last writer.
LastWriter(j) ==
  /\ job[j].worker = "last"
  /\ storage.by = Nobody
  /\ job' = [job EXCEPT ![j].worker = "out"]
  /\ IF Writers = {} THEN Reclaim("monitor", limit, FALSE) ELSE UNCHANGED storage
  /\ UNCHANGED <<hlsJobs, call, read, limit, reset>>

Enough == Bytes < storage.goal \/ (~storage.admission /\ Bytes = storage.goal)

\* hlsStorageVictim: inactive before active, prewarmed before playing; the order of last access
\* inside a class is left open.
Preferred ==
  LET active == {j \in Registered : job[j].requests > 0}
      idle == Registered \ active
      class == IF idle # {} THEN idle ELSE active
      warm == {j \in class : OnlyPrewarming(j)}
  IN IF warm # {} THEN warm ELSE class

\* One turn of reclaimHLSStorageLocked.
ReclaimStep ==
  /\ storage.by # Nobody /\ storage.victim = NoJob /\ ~storage.admitted /\ ~Enough
  /\ \E j \in Preferred :
       /\ hlsJobs' = [k \in Keys |-> IF hlsJobs[k] = j THEN NoJob ELSE hlsJobs[k]]
       /\ job' = [job EXCEPT ![j] = StopDetached(job[j])]
       /\ storage' = [storage EXCEPT !.victim = j]
  /\ UNCHANGED <<call, read, limit, reset>>

ReclaimNext ==
  /\ storage.victim # NoJob /\ job[storage.victim].stop # "cancel"
  /\ storage' = [storage EXCEPT !.victim = NoJob]
  /\ UNCHANGED <<hlsJobs, job, call, read, limit, reset>>

\* The loop has come to its end: enough is free, or nothing is left to evict.
Reclaimed(who) ==
  /\ storage.by = who /\ storage.victim = NoJob /\ ~storage.admitted
  /\ Enough \/ Registered = {}

MonitorEnds ==
  /\ Reclaimed("monitor")
  /\ storage' = Free
  /\ UNCHANGED <<hlsJobs, job, call, read, limit, reset>>

-----------------------------------------------------------------------------
(* ApplyMediaStorageLimit.  A waiting writer of hlsResetMu keeps new readers out.                *)

\* Nobody is inside hlsJob.
NoReaders == \A c \in Calls : ~(call[c].stage \in {"job", "storage", "publish"}
                                \/ (call[c].stage \in {"wait", "joined"} /\ call[c].next = "job"))

AskReset(l) ==
  /\ reset.stage = "none" /\ l \in reset.may /\ l # limit
  /\ reset' = [stage |-> "asked", limit |-> l, may |-> {}]
  /\ UNCHANGED <<hlsJobs, job, call, storage, read, limit>>

RaiseLimit ==
  /\ reset.stage = "asked" /\ NoReaders /\ storage.by = Nobody
  /\ reset.limit > limit
  /\ limit' = reset.limit
  /\ reset' = [stage |-> "done", limit |-> 0, may |-> {}]
  /\ UNCHANGED <<hlsJobs, job, call, storage, read>>

LowerLimit ==
  /\ reset.stage = "asked" /\ NoReaders
  /\ reset.limit < limit
  /\ Reclaim("reset", reset.limit, FALSE)
  /\ reset' = [reset EXCEPT !.stage = "held"]
  /\ UNCHANGED <<hlsJobs, job, call, read, limit>>

\* A limit that could not be reached is not published.
PublishLimit ==
  /\ Reclaimed("reset")
  /\ limit' = IF Enough THEN reset.limit ELSE limit
  /\ storage' = Free
  /\ reset' = [stage |-> "done", limit |-> 0, may |-> {}]
  /\ UNCHANGED <<hlsJobs, job, call, read>>

-----------------------------------------------------------------------------
(* Calls.                                                                  *)

Goes(c, row) == call' = [call EXCEPT ![c] = row]

\* acquireHLSSeekGate: one request of a session at a time until it has its job.
Gated(c) == call[c].kind \in {"seek", "playlist"}
              /\ call[c].stage \notin {"planned", "done", "preparing", "serving", "released", "reclaim"}

Ends(c) == Goes(c, AtStage("done", <<call[c].kind, call[c].key>>))

\* The generations of the call's prefix but its own.
Others(c) == {k \in Prefix(call[c].key[1]) \ {call[c].key} : hlsJobs[k] # NoJob}

First(kind) == CASE kind \in {"seek", "playlist"} -> "select"
                 [] kind = "prewarm" -> "others"
                 [] OTHER -> "enter"

\* hlsPlaylistJob, hlsJobForSeekTarget, prewarmHLS, startSessionHLS.  prewarmHLS stops the other
\* generations of its session even before it enters hlsJob.
BeginCall(c) ==
  /\ call[c].stage = "planned"
  /\ call[c].kind \in {"seek", "playlist"} => \A d \in Calls : Gated(d) => call[d].key[1] # call[c].key[1]
  /\ Goes(c, [call[c] EXCEPT !.stage = First(call[c].kind),
                             !.todo = IF call[c].kind = "prewarm" THEN Others(c) ELSE {}])
  /\ UNCHANGED <<hlsJobs, job, storage, read, limit, reset>>

\* A generation that may hold the segment: it starts no later and still writes or has written.
MayCover(k) ==
  {q \in Prefix(k[1]) : /\ hlsJobs[q] # NoJob /\ q[2] <= k[2]
                        /\ ~(job[hlsJobs[q]].phase = 0 /\ Done(hlsJobs[q]))}

\* The generation of this start holds its first segment until it is past the join window.
Covers(k) == k \in MayCover(k) /\ job[hlsJobs[k]].phase < 2

Retained(j) == [job EXCEPT ![j].requests = @ + 1, ![j].preparations = @ + 1]

\* activeHLSJobRequest: any generation of the session will do, retained at once.
SelectActive(c) ==
  /\ call[c].stage = "select" /\ call[c].kind = "playlist" /\ ~ResetWaits
  /\ LET found == {hlsJobs[k] : k \in Prefix(call[c].key[1])} \ {NoJob} IN
     IF found = {}
     THEN Goes(c, [call[c] EXCEPT !.stage = "enter"]) /\ UNCHANGED job
     ELSE \E j \in found : /\ job' = Retained(j)
                           /\ Goes(c, [call[c] EXCEPT !.stage = "preparing", !.job = j])
  /\ UNCHANGED <<hlsJobs, storage, read, limit, reset>>

\* stopHLSJobAfterPreparations begins: it waits for the preparations there are now.
StopAfterPreparations(c, k, next) ==
  Goes(c, [call[c] EXCEPT !.stage = "wait", !.at = k, !.job = hlsJobs[k], !.next = next,
                          !.passed = job[hlsJobs[k]].preparations = 0])

\* hlsJobForSeekTarget takes a generation of its prefix that holds the segment, or replaces the
\* one of its own start.  Which segments a long generation still holds is left open.
SelectGeneration(c) ==
  LET k == call[c].key IN
  /\ call[c].stage = "select" /\ call[c].kind = "seek"
  /\ \/ \E q \in MayCover(k) :
          Goes(c, [call[c] EXCEPT !.stage = "retain", !.at = q, !.job = hlsJobs[q]])
     \/ ~Covers(k) /\ hlsJobs[k] # NoJob /\ StopAfterPreparations(c, k, "enter")
     \/ hlsJobs[k] = NoJob /\ Goes(c, [call[c] EXCEPT !.stage = "enter"])
  /\ UNCHANGED <<hlsJobs, job, storage, read, limit, reset>>

AfterWait(row) == [row EXCEPT !.stage = row.next, !.todo = @ \ {row.at}, !.at = NoKey,
                              !.job = NoJob, !.passed = FALSE, !.next = "enter"]

\* The preparations have ended: the binding goes if it is still of that job.
StopWaited(c) ==
  /\ call[c].stage = "wait" /\ call[c].passed
  /\ IF hlsJobs[call[c].at] = call[c].job
     THEN Unbound({call[c].at}) /\ Goes(c, [call[c] EXCEPT !.stage = "joined"])
     ELSE UNCHANGED <<hlsJobs, job>> /\ Goes(c, AfterWait(call[c]))
  /\ UNCHANGED <<storage, read, limit, reset>>

StopJoined(c) ==
  /\ call[c].stage = "joined" /\ Settled(call[c].job)
  /\ Goes(c, AfterWait(call[c]))
  /\ UNCHANGED <<hlsJobs, job, storage, read, limit, reset>>

\* adoptHLSJob: the prewarmed generation becomes the session's.
Adoptable(k) == {p \in Prewarm : hlsJobs[<<p, k[2]>>] # NoJob /\ Reusable(hlsJobs[<<p, k[2]>>])
                                /\ hlsJobs[k] = NoJob}

AdoptJob(c) ==
  LET k == call[c].key IN
  /\ call[c].stage = "enter" /\ call[c].kind = "start" /\ ~ResetWaits
  /\ \E p \in Adoptable(k) :
       /\ hlsJobs' = [hlsJobs EXCEPT ![<<p, k[2]>>] = NoJob, ![k] = hlsJobs[<<p, k[2]>>]]
       /\ Goes(c, [call[c] EXCEPT !.stage = "file", !.kind = "restart", !.job = hlsJobs[<<p, k[2]>>]])
  /\ UNCHANGED <<job, storage, read, limit, reset>>

\* hlsJob begins; stopOtherHLSGenerations takes down the other keys of the prefix.
EnterJob(c) ==
  /\ call[c].stage \in {"enter", "others", "evict"} /\ call[c].todo = {} /\ ~ResetWaits
  /\ call[c].kind = "start" => Adoptable(call[c].key) = {}
  /\ Goes(c, [call[c] EXCEPT !.stage = "job", !.todo = Others(c)])
  /\ UNCHANGED <<hlsJobs, job, storage, read, limit, reset>>

StopOther(c) ==
  /\ call[c].stage \in {"others", "job"}
  /\ \E k \in call[c].todo :
       IF hlsJobs[k] = NoJob THEN Goes(c, [call[c] EXCEPT !.todo = @ \ {k}])
                             ELSE StopAfterPreparations(c, k, call[c].stage)
  /\ UNCHANGED <<hlsJobs, job, storage, read, limit, reset>>

\* What a call does with the job hlsJob returns.
GoesOn(c, j) ==
  Goes(c, CASE call[c].kind \in {"seek", "playlist"} ->
                 [call[c] EXCEPT !.stage = "made", !.at = call[c].key, !.job = j]
            [] call[c].kind \in {"start", "restart"} -> [call[c] EXCEPT !.stage = "file", !.job = j]
            [] OTHER -> AtStage("done", <<call[c].kind, call[c].key>>))

\* sharedHLSJobLocked.
Shared(f) == {j \in Registered : job[j].fingerprint = f /\ Shareable(j)}

\* The first critical section of hlsJob.
FindJob(c) ==
  LET k == call[c].key  j == hlsJobs[k] IN
  /\ call[c].stage = "job" /\ call[c].todo = {}
  /\ \/ j # NoJob /\ Reusable(j) /\ GoesOn(c, j) /\ UNCHANGED hlsJobs
     \/ j # NoJob /\ ~Reusable(j) /\ StopAfterPreparations(c, k, "job") /\ UNCHANGED hlsJobs
     \/ j = NoJob /\ \E shared \in Shared(k[2]) :
          hlsJobs' = [hlsJobs EXCEPT ![k] = shared] /\ GoesOn(c, shared)
     \/ j = NoJob /\ Shared(k[2]) = {} /\ UNCHANGED hlsJobs
          /\ Goes(c, [call[c] EXCEPT !.stage = "storage"])
  /\ UNCHANGED <<job, storage, read, limit, reset>>

AdmitStorage(c) ==
  /\ call[c].stage = "storage"
  /\ Reclaim(c, limit, TRUE)
  /\ Goes(c, [call[c] EXCEPT !.stage = "publish"])
  /\ UNCHANGED <<hlsJobs, job, read, limit, reset>>

NewJob(f) == [used |-> TRUE, fingerprint |-> f, phase |-> 0, err |-> FALSE, worker |-> "run",
              requests |-> 0, preparations |-> 0, stopWhenIdle |-> FALSE, detached |-> FALSE,
              drain |-> FALSE, stop |-> "no"]

SlipOvertaken(k) == FALSE

\* A job that will do was published while this call waited for storage.
Overtaken(k) == hlsJobs[k] # NoJob \/ Shared(k[2]) # {}

\* The reclaim under which a job is published has come to its end: storage stays with the call,
\* or the call gives up.
Admitted(c) ==
  /\ call[c].stage = "publish" /\ Reclaimed(c)
  /\ IF Enough THEN storage' = [storage EXCEPT !.admitted = TRUE] /\ UNCHANGED call
               ELSE storage' = Free /\ Ends(c)
  /\ UNCHANGED <<hlsJobs, job, read, limit, reset>>

\* The second critical section: take what others published meanwhile, give up if storage has
\* filled again, or start a writer.  Jobs are bounded: without a free one no workspace is made.
PublishJob(c) ==
  LET k == call[c].key  unused == {i \in Jobs : ~job[i].used} IN
  /\ call[c].stage = "publish" /\ storage.by = c /\ storage.admitted
  /\ \/ /\ hlsJobs[k] # NoJob /\ Overtaken(k)
        /\ Goes(c, [call[c] EXCEPT !.stage = "job"]) /\ UNCHANGED <<hlsJobs, job>>
     \/ /\ hlsJobs[k] = NoJob /\ Overtaken(k)
        /\ \E shared \in Shared(k[2]) :
             hlsJobs' = [hlsJobs EXCEPT ![k] = shared] /\ GoesOn(c, shared)
        /\ UNCHANGED job
     \/ /\ ~Overtaken(k) /\ Bytes < storage.goal /\ unused # {}
        /\ LET j == CHOOSE i \in unused : TRUE IN
             /\ job' = [job EXCEPT ![j] = NewJob(k[2])]
             /\ hlsJobs' = [hlsJobs EXCEPT ![k] = j]
             /\ GoesOn(c, j)
     \/ /\ ~Overtaken(k) /\ (Bytes >= storage.goal \/ unused = {})
        /\ Ends(c) /\ UNCHANGED <<hlsJobs, job>>
  /\ storage' = Free
  /\ UNCHANGED <<read, limit, reset>>

\* retainHLSJobRequest: only while the binding is still of that job.
RetainJob(c) ==
  LET j == call[c].job IN
  /\ call[c].stage \in {"made", "retain"} /\ ~ResetWaits
  /\ IF hlsJobs[call[c].at] = j
     THEN job' = Retained(j) /\ Goes(c, [call[c] EXCEPT !.stage = "preparing", !.at = NoKey])
     ELSE UNCHANGED job /\ Goes(c, [call[c] EXCEPT !.stage = "select", !.at = NoKey, !.job = NoJob])
  /\ UNCHANGED <<hlsJobs, storage, read, limit, reset>>

\* The end of the last preparation lets those through that wait for it.
Informed(j, rows) ==
  [c \in Calls |-> IF rows[c].stage = "wait" /\ rows[c].job = j /\ job[j].preparations = 1
                   THEN [rows[c] EXCEPT !.passed = TRUE] ELSE rows[c]]

\* promote: the file is there and the response begins.
Promote(c) ==
  LET j == call[c].job IN
  /\ call[c].stage = "preparing" /\ job[j].phase > 0
  /\ job' = [job EXCEPT ![j].preparations = @ - 1]
  /\ call' = Informed(j, [call EXCEPT ![c].stage = "serving"])
  /\ UNCHANGED <<hlsJobs, storage, read, limit, reset>>

SlipReleased(row, preparing) ==
  [row EXCEPT !.requests = @ - 1, !.preparations = IF preparing THEN @ - 1 ELSE @]

SlipPreparing(row, preparing) ==
  LET less == [row EXCEPT !.requests = @ - 1] IN
  IF less.requests = 0 /\ less.stopWhenIdle
  THEN StopDetached([less EXCEPT !.stopWhenIdle = FALSE]) ELSE less

\* The row after its request is released; the last one stops a job that was to be stopped.
ReleasedRow(row, preparing) ==
  LET less == [row EXCEPT !.requests = @ - 1, !.preparations = IF preparing THEN @ - 1 ELSE @] IN
  IF less.requests = 0 /\ less.stopWhenIdle
  THEN StopDetached([less EXCEPT !.stopWhenIdle = FALSE]) ELSE less

\* release, after the response or when no file came.
ReleaseJob(c) ==
  LET j == call[c].job  preparing == call[c].stage = "preparing" IN
  /\ call[c].stage \in {"preparing", "serving"}
  /\ job' = [job EXCEPT ![j] = ReleasedRow(job[j], preparing)]
  /\ call' = LET rows == [call EXCEPT ![c].stage = "released"] IN
              IF preparing THEN Informed(j, rows) ELSE rows
  /\ UNCHANGED <<hlsJobs, storage, read, limit, reset>>

\* The reclaim at the end of release: the stop it may have led to is over.
ReadLimit(c) ==
  /\ call[c].stage = "released" /\ Settled(call[c].job)
  /\ ReadsLimit(c)
  /\ Goes(c, [call[c] EXCEPT !.stage = "reclaim"])
  /\ UNCHANGED <<hlsJobs, job, storage, limit, reset>>

EndCall(c) ==
  /\ call[c].stage = "reclaim"
  /\ ReclaimRead(c)
  /\ Ends(c)
  /\ UNCHANGED <<hlsJobs, job, limit, reset>>

\* waitForMediaFile of startSessionHLS; if no file comes the session's key is stopped.
AwaitFile(c) ==
  LET k == call[c].key IN
  /\ call[c].stage = "file"
  /\ \/ job[call[c].job].phase > 0 /\ UNCHANGED <<hlsJobs, job>>
     \/ hlsJobs[k] # NoJob /\ Unbound({k})
     \/ hlsJobs[k] = NoJob /\ UNCHANGED <<hlsJobs, job>>
  /\ Ends(c)
  /\ UNCHANGED <<storage, read, limit, reset>>

\* stopHLSJob: the binding goes, whatever it leads to, and the stop is awaited.
StopsKey(c, k, row) ==
  IF hlsJobs[k] = NoJob
  THEN UNCHANGED <<hlsJobs, job>> /\ Goes(c, AfterWait(row))
  ELSE Unbound({k}) /\ Goes(c, [row EXCEPT !.stage = "joined", !.job = hlsJobs[k]])

\* The encoder found no capacity: the start takes its own generation down, then the prewarmed
\* ones make room one by one, and it is tried again.
RetryStart(c) ==
  LET k == call[c].key IN
  /\ call[c].stage = "file" /\ call[c].kind = "start" /\ job[call[c].job].err
  /\ StopsKey(c, k, [call[c] EXCEPT !.kind = "restart", !.at = k, !.next = "retry"])
  /\ UNCHANGED <<storage, read, limit, reset>>

EvictPrewarmed(c) ==
  /\ call[c].stage = "retry"
  /\ Goes(c, [call[c] EXCEPT !.stage = "evict",
                             !.todo = {k \in Keys : k[1] \in Prewarm /\ hlsJobs[k] # NoJob}])
  /\ UNCHANGED <<hlsJobs, job, storage, read, limit, reset>>

StopPrewarmed(c) ==
  /\ call[c].stage = "evict"
  /\ \E k \in call[c].todo : StopsKey(c, k, [call[c] EXCEPT !.at = k, !.next = "evict"])
  /\ UNCHANGED <<storage, read, limit, reset>>

\* The context of the call ends; a seek takes the generation down that it had asked for.
CancelCall(c) ==
  /\ call[c].stage \in {"select", "wait", "made"}
  /\ IF call[c].stage = "made" /\ call[c].kind = "seek"
     THEN Unbound({call[c].key}) ELSE UNCHANGED <<hlsJobs, job>>
  /\ Ends(c)
  /\ UNCHANGED <<storage, read, limit, reset>>

-----------------------------------------------------------------------------
Steps(c) ==
  \/ SelectActive(c) \/ SelectGeneration(c) \/ StopWaited(c) \/ StopJoined(c)
  \/ AdoptJob(c) \/ EnterJob(c) \/ StopOther(c) \/ FindJob(c) \/ AdmitStorage(c) \/ Admitted(c)
  \/ PublishJob(c) \/ RetainJob(c) \/ ReleaseJob(c) \/ ReadLimit(c) \/ EndCall(c)
  \/ AwaitFile(c) \/ RetryStart(c) \/ EvictPrewarmed(c) \/ StopPrewarmed(c)

Stopping(j) == DecideStop(j) \/ EncoderLeft(j) \/ Drained(j)
Leaving(j) == EncoderLeaves(j) \/ LastWriter(j)
Reclaiming == ReclaimStep \/ ReclaimNext \/ MonitorEnds
Resetting == RaiseLimit \/ LowerLimit \/ PublishLimit

Next ==
  \/ \E c \in Calls : BeginCall(c) \/ Steps(c) \/ Promote(c) \/ CancelCall(c)
  \/ \E j \in Jobs : Stopping(j) \/ Leaving(j) \/ Encode(j) \/ EncoderEnds(j)
  \/ \E k \in Keys : Detach(k)
  \/ \E l \in Limits : AskReset(l)
  \/ MonitorReads \/ MonitorTick \/ Reclaiming \/ Resetting

Spec == Init /\ [][Next]_vars

-----------------------------------------------------------------------------
(* Properties.                                                             *)

\* Every variable has its type; no job has more preparations than requests.
TypeOK ==
  /\ hlsJobs \in [Keys -> Jobs \cup {NoJob}]
  /\ job \in [Jobs -> Job] /\ \A j \in Jobs : job[j].preparations <= job[j].requests
  /\ call \in [Calls -> Call]
  /\ storage.by \in Calls \cup {Nobody, "monitor", "reset"} /\ storage.victim \in Jobs \cup {NoJob}
  /\ read \in [Calls \cup {"monitor"} -> Limits \cup {0}]
  /\ limit \in Limits
  /\ reset.stage \in {"none", "asked", "held", "done"}

\* A response never loses the workspace it reads from: neither the idle timer, a newer
\* generation, a failed prewarm nor a reclaim removes it before the request is released.
WorkspaceHeld ==
  \A c \in Calls : call[c].stage \in {"preparing", "serving"} => job[call[c].job].stop # "gone"

\* A job that a key still leads to is not being stopped: whoever looks up a binding, shares a
\* job or adopts one gets an encoder that nobody else is taking down.
BoundNotStopped ==
  \A k \in Keys : hlsJobs[k] # NoJob => job[hlsJobs[k]].stop = "no" /\ ~job[hlsJobs[k]].detached

\* Two encoders of one fingerprint never run side by side while the second could have joined
\* the first: hlsJob looks again after it waited for storage.
OneShareable ==
  \A f \in Starts : Cardinality(Shared(f)) <= 1

\* No workspace leaks: a job that lost its last binding has somebody who will stop it and remove
\* its directory, be it the one who took the binding away or the last response that reads from it.
NoWorkspaceLeaks ==
  \A j \in Jobs : job[j].used /\ j \notin Registered =>
    \/ job[j].detached \/ job[j].stop # "no"
    \/ job[j].stopWhenIdle /\ job[j].requests > 0

\* A workspace lives exactly as long as it is needed: no response loses it, and somebody is
\* always there to remove it.
WorkspaceLifetime == WorkspaceHeld /\ NoWorkspaceLeaks

\* Storage over its limit is never left so: a writer is watched by the monitor, the last one
\* looks again when it leaves, a reclaim that aims no higher than the limit of today is at work,
\* or there is nothing left to evict.  A reclaim that read a limit since lowered does not count,
\* nor does one that has let its call through.
OverLimitAttended ==
  Bytes > limit =>
    \/ \E j \in Jobs : job[j].worker # "out"
    \/ storage.by # Nobody /\ ~storage.admitted /\ storage.goal <= limit
    \/ Registered = {}
=============================================================================
