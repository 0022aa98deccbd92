------------------------------ MODULE Commands ------------------------------
(***************************************************************************)
(* Device presence and remote playback commands:                           *)
(* server/internal/coordination/service.go over the tables of migrations   *)
(* 000076_playback_coordination.sql and                                    *)
(* 000083_playback_command_operations.sql.                                 *)
(*                                                                         *)
(* A device announces itself with heartbeats.  Another session of the same *)
(* profile sends it a command under an operation id of its own choosing;   *)
(* the target polls, executes and reports one terminal result; the sender  *)
(* reads it back.  Commands expire, and a maintenance pass deletes them.   *)
(*                                                                         *)
(* SendCommand is three steps of one transaction, because two copies of it *)
(* may run at the same time: look the operation up, lock the target's      *)
(* presence row and check it, insert.  All other operations are one step.  *)
(***************************************************************************)
EXTENDS Integers, FiniteSets

CONSTANTS
  Sessions,      \* auth_sessions rows
  Devices,       \* the sessions whose player sends heartbeats
  Profiles,      \* profiles a session may select
  NoProfile,     \* a session without a usable active profile
  Operations,    \* operation ids
  Requests,      \* SendCommand calls that may be in progress at once
  Workloads,     \* sets of SendCommand inputs the clients may use; an operation id
                 \* is a UUID its sender draws, so no two senders share one
  PresenceTTL,   \* presenceTTL
  PresenceKeep,  \* the 24 hours after which Cleanup drops a presence row
  CommandTTL,    \* commandTTL
  ResultKeep,    \* the 10 minutes Cleanup keeps finished and expired commands
  MaxPending,    \* maximumPendingCommands
  MaxRevision    \* bound of the model: heartbeats of one device stop here

ASSUME CommandsAssumption ==
  /\ NoProfile \notin Profiles
  /\ Devices \subseteq Sessions
  /\ IsFiniteSet(Sessions) /\ IsFiniteSet(Operations)
  /\ \A W \in Workloads :
       /\ W \subseteq [sender : Sessions, op : Operations, target : Sessions,
                       input : {"pause", "load"}, revision : 0..MaxRevision]
       /\ \A c, d \in W : c.op = d.op => c.sender = d.sender
  /\ PresenceTTL \in Nat \ {0}
  /\ PresenceKeep \in Nat /\ PresenceKeep >= PresenceTTL
  /\ CommandTTL \in Nat \ {0}
  /\ ResultKeep \in Nat \ {0}
  /\ MaxPending \in Nat \ {0}
  /\ MaxRevision \in Nat \ {0}

VARIABLES
  workload,  \* the member of Workloads the clients use
  profile,   \* session -> its active profile
  presence,  \* session -> the playback_device_presence row
  item,      \* the metadata of the title a "load" command carries
  command,   \* sender -> operation id -> the playback_commands row
  sending,   \* request -> the SendCommand transaction in progress
  accepted,  \* SendCommand inputs answered with a command (history)
  observed   \* sender -> operation id -> terminal status read (history)

vars == <<workload, profile, presence, item, command, sending, accepted, observed>>

-----------------------------------------------------------------------------
Items == {"old", "new"}
NoItem == "noItem"
Inputs == {"pause", "load"}
Results == {"applied", "failed", "expired"}

Presence == [profile : Profiles \cup {NoProfile},
             revision : 0..MaxRevision,      \* 0: no row
             remote : BOOLEAN,
             age : 0..PresenceKeep]

\* life counts down to expires_at and on, done counts up from completed_at.
Command == [status : {"none", "pending"} \cup Results,
            target : Sessions,
            profile : Profiles \cup {NoProfile},
            input : Inputs,
            item : Items \cup {NoItem},
            revision : 0..MaxRevision,       \* 0: no targetRevision
            life : (-ResultKeep)..CommandTTL,
            done : 0..(ResultKeep + 1)]

Call == [sender : Sessions, op : Operations, target : Sessions,
         input : Inputs, revision : 0..MaxRevision]

NoPresence == [profile |-> NoProfile, revision |-> 0, remote |-> FALSE, age |-> 0]
NoCommand == [status |-> "none", target |-> CHOOSE s \in Sessions : TRUE,
              profile |-> NoProfile, input |-> "pause", item |-> NoItem,
              revision |-> 0, life |-> 0, done |-> 0]
Idle == [stage |-> "idle"]
Sending == [stage : {"looked", "locked"}, call : Call, item : Items \cup {NoItem}]

\* The type invariant.
TypeOK ==
  /\ workload \in Workloads
  /\ profile \in [Sessions -> Profiles \cup {NoProfile}]
  /\ presence \in [Sessions -> Presence]
  /\ item \in Items
  /\ command \in [Sessions -> [Operations -> Command]]
  /\ sending \in [Requests -> {Idle} \cup Sending]
  /\ accepted \subseteq Call
  /\ observed \in [Sessions -> [Operations -> {"none"} \cup Results]]

Exists(s, o) == command[s][o].status # "none"
Expired(c) == c.life <= 0
Pending(t) == {r \in Sessions \X Operations :
                 LET c == command[r[1]][r[2]] IN
                   c.status = "pending" /\ c.target = t /\ ~Expired(c)}

\* The status scanStoredCommand returns for a row.
Shown(c) == IF c.status = "pending" /\ Expired(c) THEN "expired" ELSE c.status

\* canonicalItemTx replaces the item of a "load" by the catalogue's current one.
Canonical(input) == IF input = "load" THEN item ELSE NoItem

\* sameCommandInput compares the stored payload with the canonical new one.
SameInput(c, call, i) ==
  c.input = call.input /\ c.item = i /\ c.revision = call.revision

Replay(c, call, i) == c.target = call.target /\ SameInput(c, call, i)

InProgress(s) == \E q \in Requests : sending[q] # Idle /\ sending[q].call.sender = s

\* FOR UPDATE OF presence, held from the target check to the commit.
PresenceLocked(t) ==
  \E q \in Requests : sending[q].stage = "locked" /\ sending[q].call.target = t

\* Rows deleted take the histories about them along.
DeleteCommands(R) ==
  /\ command' = [s \in Sessions |-> [o \in Operations |->
                   IF <<s, o>> \in R THEN NoCommand ELSE command[s][o]]]
  /\ observed' = [s \in Sessions |-> [o \in Operations |->
                    IF <<s, o>> \in R THEN "none" ELSE observed[s][o]]]
  /\ accepted' = {c \in accepted : <<c.sender, c.op>> \notin R}

-----------------------------------------------------------------------------
HeartbeatLock(t) == ~PresenceLocked(t)

\* Heartbeat: upsert of the presence row, one revision on.
Heartbeat(s, remote) ==
  /\ profile[s] # NoProfile
  /\ HeartbeatLock(s)
  /\ presence[s].revision < MaxRevision
  /\ presence' = [presence EXCEPT ![s] =
        [profile |-> profile[s], revision |-> @.revision + 1,
         remote |-> remote, age |-> 0]]
  /\ UNCHANGED <<workload, profile, item, command, sending, accepted, observed>>

(***************************************************************************)
(* SendCommand.                                                            *)
(***************************************************************************)
\* A found operation is answered at once: with the stored command if the
\* call is a replay of it, otherwise with ErrConflict, which changes nothing.
ReplayCommand(call) ==
  /\ profile[call.sender] # NoProfile
  /\ Exists(call.sender, call.op)
  /\ Replay(command[call.sender][call.op], call, Canonical(call.input))
  /\ accepted' = accepted \cup {call}
  /\ UNCHANGED <<workload, profile, presence, item, command, sending, observed>>

LookUpCommand(q, call) ==
  /\ sending[q] = Idle
  /\ profile[call.sender] # NoProfile
  /\ ~Exists(call.sender, call.op)
  /\ sending' = [sending EXCEPT ![q] =
        [stage |-> "looked", call |-> call, item |-> Canonical(call.input)]]
  /\ UNCHANGED <<workload, profile, presence, item, command, accepted, observed>>

\* The row the target query selects: another live session of the same
\* profile that accepts remote control.
Reachable(s, t) ==
  /\ t # s
  /\ profile[t] = profile[s]
  /\ presence[t].revision > 0 /\ presence[t].profile = profile[s]
  /\ presence[t].age < PresenceTTL
  /\ presence[t].remote

RevisionMatches(call) ==
  call.revision # 0 => call.revision = presence[call.target].revision

\* Slip: the pending commands are counted without the lock on the target.
SendUnlocked(t) == TRUE

SendLock(t) == ~PresenceLocked(t)

LockTarget(q) ==
  LET call == sending[q].call IN
  /\ sending[q].stage = "looked"
  /\ SendLock(call.target)
  /\ IF /\ Reachable(call.sender, call.target)
        /\ RevisionMatches(call)
        /\ Cardinality(Pending(call.target)) < MaxPending
     THEN sending' = [sending EXCEPT ![q].stage = "locked"]
     ELSE sending' = [sending EXCEPT ![q] = Idle]
  /\ UNCHANGED <<workload, profile, presence, item, command, accepted, observed>>

\* INSERT ... ON CONFLICT (sender_session_id, operation_id) DO NOTHING, and
\* the replay check again when another copy was first.
StoreCommand(q) ==
  LET call == sending[q].call
      c == command[call.sender][call.op] IN
  /\ sending[q].stage = "locked"
  /\ sending' = [sending EXCEPT ![q] = Idle]
  /\ \/ /\ ~Exists(call.sender, call.op)
        /\ command' = [command EXCEPT ![call.sender][call.op] =
             [status |-> "pending", target |-> call.target,
              profile |-> profile[call.sender], input |-> call.input,
              item |-> sending[q].item, revision |-> call.revision,
              life |-> CommandTTL, done |-> 0]]
        /\ accepted' = accepted \cup {call}
     \/ /\ Exists(call.sender, call.op)
        /\ Replay(c, call, sending[q].item)
        /\ accepted' = accepted \cup {call}
        /\ UNCHANGED command
     \/ /\ Exists(call.sender, call.op)
        /\ ~Replay(c, call, sending[q].item)
        /\ UNCHANGED <<command, accepted>>
  /\ UNCHANGED <<workload, profile, presence, item, observed>>

\* The transaction rolls back: the request was cancelled or the server stopped.
AbandonSend(q) ==
  /\ sending[q] # Idle
  /\ sending' = [sending EXCEPT ![q] = Idle]
  /\ UNCHANGED <<workload, profile, presence, item, command, accepted, observed>>

(***************************************************************************)
(* CompleteCommand: the first row with this operation id and target        *)
(* decides; the UPDATE writes every such row.  A report for a decided      *)
(* command changes nothing: it is answered with the command if it agrees,  *)
(* otherwise with ErrConflict.                                             *)
(***************************************************************************)
Incoming(t, o) ==
  {s \in Sessions : Exists(s, o) /\ command[s][o].target = t
                                 /\ command[s][o].profile = profile[t]}

Undecided(c) == c.status = "pending"

\* Slips: a result that comes after the expiry is recorded as reported, or
\* under a status that is not one of the closed enumeration.
OutcomeIgnoringExpiry(c, result) == result
OutcomeTimedOut(c, result) == IF Expired(c) THEN "timed_out" ELSE result

Outcome(c, result) == IF Expired(c) THEN "expired" ELSE result

CompleteCommand(t, o, result) ==
  /\ profile[t] # NoProfile
  /\ \E s \in Incoming(t, o) :
       LET c == command[s][o]
           outcome == Outcome(c, result) IN
       /\ Undecided(c)
       /\ command' = [u \in Sessions |->
            IF u \in Incoming(t, o)
            THEN [command[u] EXCEPT ![o] = [@ EXCEPT !.status = outcome, !.done = 0]]
            ELSE command[u]]
  /\ UNCHANGED <<workload, profile, presence, item, sending, accepted, observed>>

\* OutgoingCommand: the sender reads the status of its command.
OutgoingCommand(s, o) ==
  /\ profile[s] # NoProfile
  /\ Exists(s, o)
  /\ Shown(command[s][o]) \in Results
  /\ observed' = [observed EXCEPT ![s][o] = Shown(command[s][o])]
  /\ UNCHANGED <<workload, profile, presence, item, command, sending, accepted>>

Outdated(c) ==
  \/ c.status # "none" /\ c.life <= -ResultKeep
  \/ c.status \in Results /\ c.done > ResultKeep

\* Cleanup of commands and presence in the maintenance pass.
Cleanup ==
  LET rows == {r \in Sessions \X Operations : Outdated(command[r[1]][r[2]])}
      silent == {s \in Sessions : presence[s].revision > 0 /\ presence[s].age >= PresenceKeep
                                  /\ ~PresenceLocked(s)} IN
  /\ rows # {} \/ silent # {}
  /\ DeleteCommands(rows)
  /\ presence' = [s \in Sessions |-> IF s \in silent THEN NoPresence ELSE presence[s]]
  /\ UNCHANGED <<workload, profile, item, sending>>

-----------------------------------------------------------------------------
(***************************************************************************)
(* What other services do.                                                 *)
(***************************************************************************)
\* auth: profile selection, its clearing or expiry, logout or revocation.
SelectProfile(s, p) ==
  /\ ~InProgress(s)
  /\ p # profile[s]
  /\ profile' = [profile EXCEPT ![s] = p]
  /\ UNCHANGED <<workload, presence, item, command, sending, accepted, observed>>

\* auth cleanup deletes a revoked or expired session with its rows.
DeleteSession(s) ==
  LET rows == {r \in Sessions \X Operations :
                 /\ Exists(r[1], r[2])
                 /\ r[1] = s \/ command[r[1]][r[2]].target = s} IN
  /\ profile[s] = NoProfile
  /\ ~InProgress(s) /\ ~PresenceLocked(s)
  /\ rows # {} \/ presence[s].revision > 0
  /\ DeleteCommands(rows)
  /\ presence' = [presence EXCEPT ![s] = NoPresence]
  /\ UNCHANGED <<workload, profile, item, sending>>

\* metadata: a refresh changes the display title or the poster of the item.
RefreshItem ==
  /\ item = "old"
  /\ item' = "new"
  /\ UNCHANGED <<workload, profile, presence, command, sending, accepted, observed>>

OlderPresence(p) == IF p.revision = 0 \/ p.age = PresenceKeep THEN p
                    ELSE [p EXCEPT !.age = @ + 1]
OlderCommand(c) ==
  IF c.status = "none" THEN c
  ELSE [c EXCEPT !.life = IF @ > -ResultKeep THEN @ - 1 ELSE @,
                 !.done = IF c.status \in Results /\ @ <= ResultKeep THEN @ + 1 ELSE @]

\* Time passes.
Tick ==
  /\ presence' = [s \in Sessions |-> OlderPresence(presence[s])]
  /\ command' = [s \in Sessions |-> [o \in Operations |-> OlderCommand(command[s][o])]]
  /\ UNCHANGED <<workload, profile, item, sending, accepted, observed>>

-----------------------------------------------------------------------------
Init ==
  /\ workload \in Workloads
  /\ profile \in [Sessions -> Profiles]
  /\ presence = [s \in Sessions |-> NoPresence]
  /\ item = "old"
  /\ command = [s \in Sessions |-> [o \in Operations |-> NoCommand]]
  /\ sending = [q \in Requests |-> Idle]
  /\ accepted = {}
  /\ observed = [s \in Sessions |-> [o \in Operations |-> "none"]]

Next ==
  \/ \E s \in Devices, remote \in BOOLEAN : Heartbeat(s, remote)
  \/ \E call \in workload : ReplayCommand(call) \/ \E q \in Requests : LookUpCommand(q, call)
  \/ \E q \in Requests : LockTarget(q) \/ StoreCommand(q) \/ AbandonSend(q)
  \/ \E t \in Sessions, o \in Operations, result \in Results : CompleteCommand(t, o, result)
  \/ \E s \in Sessions, o \in Operations : OutgoingCommand(s, o)
  \/ \E s \in Sessions, p \in Profiles \cup {NoProfile} : SelectProfile(s, p)
  \/ \E s \in Sessions : DeleteSession(s)
  \/ RefreshItem
  \/ Cleanup
  \/ Tick

Spec == Init /\ [][Next]_vars

-----------------------------------------------------------------------------
(***************************************************************************)
(* Properties.                                                             *)
(***************************************************************************)
\* An operation id stands for one command: whatever copies and variants of a
\* SendCommand race, all those answered with success asked for the same
\* target and the same input as the row that is stored.
OneCommandPerOperation ==
  \A call \in accepted :
    LET c == command[call.sender][call.op] IN
      /\ c.status # "none"
      /\ c.target = call.target /\ c.input = call.input /\ c.revision = call.revision

\* A target never has more than MaxPending unexpired pending commands, though
\* the count and the insert are two statements.
PendingLimit == \A t \in Sessions : Cardinality(Pending(t)) <= MaxPending

\* SendCommands race as if they came one after the other: the lookup, the count and the insert
\* of one are not torn apart by those of another.
SendsSerialised == OneCommandPerOperation /\ PendingLimit

\* Once a sender has read a terminal status, "expired" by the clock included,
\* every later read shows the same one until the command is deleted.
ObservedResultStable ==
  \A s \in Sessions, o \in Operations :
    observed[s][o] # "none" => Shown(command[s][o]) = observed[s][o]

\* A command that was accepted may be sent again at any time: as long as the
\* row is kept, the same call is recognised as its replay.
SendRetryIdempotent ==
  \A call \in accepted :
    Replay(command[call.sender][call.op], call, Canonical(call.input))
=============================================================================
