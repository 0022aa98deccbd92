--------------------------- MODULE CommandsProofs ---------------------------
(***************************************************************************)
(* Theorems about Commands, for any sessions, operations and concurrent    *)
(* requests, any workload and any limits.                                  *)
(***************************************************************************)
EXTENDS Commands, FiniteSetTheorems, TLAPS

-----------------------------------------------------------------------------
(* Type correctness. *)

LEMMA EmptyRows ==
  /\ NoPresence \in Presence
  /\ \A s \in Sessions : NoCommand \in Command
BY CommandsAssumption
DEF NoPresence, NoCommand, Presence, Command, Items, Inputs, Results

LEMMA CallsTyped == \A W \in Workloads : W \subseteq Call
BY CommandsAssumption DEF Call, Inputs

LEMMA OlderRows ==
  /\ \A p \in Presence : OlderPresence(p) \in Presence
  /\ \A c \in Command : OlderCommand(c) \in Command
<1> USE CommandsAssumption
<1>1. ASSUME NEW p \in Presence PROVE OlderPresence(p) \in Presence
  BY DEF OlderPresence, Presence
<1>2. ASSUME NEW c \in Command PROVE OlderCommand(c) \in Command
  <2>1. c.life \in (-ResultKeep)..CommandTTL /\ c.done \in 0..(ResultKeep + 1)
    BY DEF Command
  <2>2. (IF c.life > -ResultKeep THEN c.life - 1 ELSE c.life) \in (-ResultKeep)..CommandTTL
    BY <2>1
  <2>3. (IF c.status \in Results /\ c.done <= ResultKeep THEN c.done + 1 ELSE c.done)
          \in 0..(ResultKeep + 1)
    BY <2>1
  <2> DEFINE older == [c EXCEPT !.life = IF @ > -ResultKeep THEN @ - 1 ELSE @,
                                !.done = IF c.status \in Results /\ @ <= ResultKeep
                                         THEN @ + 1 ELSE @]
  <2>4. older \in Command
    BY <2>2, <2>3 DEF Command
  <2> QED BY <2>4 DEF OlderCommand
<1> QED BY <1>1, <1>2

LEMMA DecidedRow ==
  ASSUME NEW c \in Command, NEW outcome \in Results
  PROVE  [c EXCEPT !.status = outcome, !.done = 0] \in Command
<1>1. 0 \in 0..(ResultKeep + 1)
  BY CommandsAssumption
<1> QED BY <1>1 DEF Command

\* Deleting rows, with the histories about them.
LEMMA DeletionTyped ==
  ASSUME TypeOK, NEW R, DeleteCommands(R)
  PROVE  /\ command' \in [Sessions -> [Operations -> Command]]
         /\ observed' \in [Sessions -> [Operations -> {"none"} \cup Results]]
         /\ accepted' \subseteq Call
BY EmptyRows DEF DeleteCommands, TypeOK

LEMMA TypeInit == Init => TypeOK
BY EmptyRows, CommandsAssumption DEF Init, TypeOK, Items

LEMMA TypeStep == TypeOK /\ [Next]_vars => TypeOK'
<1> SUFFICES ASSUME TypeOK, [Next]_vars PROVE TypeOK'
  OBVIOUS
<1> USE CommandsAssumption
<1>0. workload \subseteq Call /\ workload' = workload
  BY CallsTyped
  DEF TypeOK, Next, vars, Heartbeat, ReplayCommand, LookUpCommand, LockTarget, StoreCommand,
      AbandonSend, CompleteCommand, OutgoingCommand, SelectProfile, DeleteSession, RefreshItem,
      Cleanup, Tick
<1>1. ASSUME NEW s \in Devices, NEW remote \in BOOLEAN, Heartbeat(s, remote) PROVE TypeOK'
  <2>1. [profile |-> profile[s], revision |-> presence[s].revision + 1,
         remote |-> remote, age |-> 0] \in Presence
    BY <1>1 DEF Heartbeat, TypeOK, Presence
  <2> QED BY <1>1, <2>1 DEF Heartbeat, TypeOK
<1>2. ASSUME NEW call \in workload, ReplayCommand(call) PROVE TypeOK'
  BY <1>0, <1>2 DEF ReplayCommand, TypeOK
<1>3. ASSUME NEW call \in workload, NEW q \in Requests, LookUpCommand(q, call) PROVE TypeOK'
  <2>1. [stage |-> "looked", call |-> call, item |-> Canonical(call.input)] \in Sending
    BY <1>0 DEF Canonical, Sending, TypeOK
  <2> QED BY <1>3, <2>1 DEF LookUpCommand, TypeOK
<1>4. ASSUME NEW q \in Requests, LockTarget(q) PROVE TypeOK'
  <2>1. sending[q] \in Sending
    BY <1>4 DEF LockTarget, TypeOK, Idle
  <2>2. [sending[q] EXCEPT !.stage = "locked"] \in Sending
    BY <2>1 DEF Sending
  <2> QED BY <1>4, <2>2 DEF LockTarget, TypeOK
<1>5. ASSUME NEW q \in Requests, StoreCommand(q) PROVE TypeOK'
  <2> DEFINE call == sending[q].call
             row == [status |-> "pending", target |-> call.target,
                     profile |-> profile[call.sender], input |-> call.input,
                     item |-> sending[q].item, revision |-> call.revision,
                     life |-> CommandTTL, done |-> 0]
  <2>1. call \in Call /\ sending[q].item \in Items \cup {NoItem}
    BY <1>5 DEF StoreCommand, TypeOK, Idle, Sending
  <2>2. row \in Command
    BY <2>1 DEF TypeOK, Call, Command
  <2>3. command' = [command EXCEPT ![call.sender][call.op] = row] \/ UNCHANGED command
    BY <1>5 DEF StoreCommand
  <2>4. accepted' \subseteq accepted \cup {call}
    BY <1>5 DEF StoreCommand
  <2> HIDE DEF row
  <2>5. command' \in [Sessions -> [Operations -> Command]]
    <3> DEFINE mine == [command[call.sender] EXCEPT ![call.op] = row]
    <3>1. mine \in [Operations -> Command]
      BY <2>1, <2>2 DEF TypeOK, Call
    <3> HIDE DEF mine
    <3>2. [command EXCEPT ![call.sender] = mine] \in [Sessions -> [Operations -> Command]]
      BY <3>1 DEF TypeOK
    <3> QED BY <2>3, <3>2 DEF mine, TypeOK
  <2> QED BY <1>5, <2>1, <2>4, <2>5 DEF StoreCommand, TypeOK
<1>6. ASSUME NEW q \in Requests, AbandonSend(q) PROVE TypeOK'
  BY <1>6 DEF AbandonSend, TypeOK
<1>7. ASSUME NEW t \in Sessions, NEW o \in Operations, NEW result \in Results,
             CompleteCommand(t, o, result)
      PROVE  TypeOK'
  <2>1. PICK outcome \in Results :
          command' = [u \in Sessions |->
            IF u \in Incoming(t, o)
            THEN [command[u] EXCEPT ![o] = [@ EXCEPT !.status = outcome, !.done = 0]]
            ELSE command[u]]
    BY <1>7 DEF CompleteCommand, Outcome, Results
  <2>2. ASSUME NEW u \in Sessions
        PROVE  [command[u] EXCEPT ![o] = [@ EXCEPT !.status = outcome, !.done = 0]]
                 \in [Operations -> Command]
    <3>1. command[u] \in [Operations -> Command] /\ command[u][o] \in Command
      BY DEF TypeOK
    <3> DEFINE decided == [command[u][o] EXCEPT !.status = outcome, !.done = 0]
    <3>2. decided \in Command
      BY <3>1, DecidedRow
    <3> HIDE DEF decided
    <3>3. [command[u] EXCEPT ![o] = decided] \in [Operations -> Command]
      BY <3>1, <3>2
    <3> QED BY <3>3 DEF decided
  <2>3. command' \in [Sessions -> [Operations -> Command]]
    BY <2>1, <2>2 DEF TypeOK
  <2> QED BY <1>7, <2>3 DEF CompleteCommand, TypeOK
<1>8. ASSUME NEW s \in Sessions, NEW o \in Operations, OutgoingCommand(s, o) PROVE TypeOK'
  BY <1>8 DEF OutgoingCommand, TypeOK
<1>9. ASSUME NEW s \in Sessions, NEW p \in Profiles \cup {NoProfile}, SelectProfile(s, p)
      PROVE  TypeOK'
  BY <1>9 DEF SelectProfile, TypeOK
<1>10. ASSUME NEW s \in Sessions, DeleteSession(s) PROVE TypeOK'
  BY <1>10, DeletionTyped, EmptyRows DEF DeleteSession, TypeOK
<1>11. CASE RefreshItem
  BY <1>11 DEF RefreshItem, TypeOK, Items
<1>12. CASE Cleanup
  BY <1>12, DeletionTyped, EmptyRows DEF Cleanup, TypeOK
<1>13. CASE Tick
  BY <1>13, OlderRows DEF Tick, TypeOK
<1>14. CASE UNCHANGED vars
  BY <1>14 DEF vars, TypeOK
<1> QED
  BY <1>1, <1>2, <1>3, <1>4, <1>5, <1>6, <1>7, <1>8, <1>9, <1>10, <1>11, <1>12, <1>13, <1>14
  DEF Next

\* Presence rows, command rows and the sends in progress keep their types through every handler,
\* clock step and deletion.
THEOREM CommandsTypeCorrect == Spec => []TypeOK
BY TypeInit, TypeStep, PTL DEF Spec

-----------------------------------------------------------------------------
(* What is sent, stored and answered comes from the clients, none of whom   *)
(* uses another's operation id; and what was answered with success agrees   *)
(* with the row that is stored.                                             *)

FromWorkload ==
  /\ accepted \subseteq workload
  /\ \A q \in Requests : sending[q] # Idle => sending[q].call \in workload
  /\ \A s \in Sessions, o \in Operations :
       Exists(s, o) => \E call \in workload : call.sender = s /\ call.op = o

StoredInv == FromWorkload /\ OneCommandPerOperation

LEMMA StoredInit == Init => StoredInv
BY DEF Init, StoredInv, FromWorkload, OneCommandPerOperation, Exists, NoCommand

\* A row that is deleted takes the answers about it along.
LEMMA StoredDeletion ==
  ASSUME TypeOK, StoredInv, NEW R, DeleteCommands(R), UNCHANGED <<workload, sending>>
  PROVE  StoredInv'
<1>1. \A s \in Sessions, o \in Operations :
        command'[s][o] = IF <<s, o>> \in R THEN NoCommand ELSE command[s][o]
  BY DEF DeleteCommands
<1>2. FromWorkload'
  BY <1>1 DEF DeleteCommands, StoredInv, FromWorkload, Exists, NoCommand
<1>3. ASSUME NEW call \in accepted'
      PROVE  call \in accepted /\ command'[call.sender][call.op] = command[call.sender][call.op]
  BY <1>1, <1>3 DEF DeleteCommands, TypeOK, Call
<1>4. OneCommandPerOperation'
  BY <1>3 DEF StoredInv, OneCommandPerOperation
<1> QED BY <1>2, <1>4 DEF StoredInv

\* What a report of the target does to the rows: all that are addressed get one outcome.
LEMMA CompletedRows ==
  ASSUME TypeOK, NEW t \in Sessions, NEW o \in Operations, NEW result \in Results,
         CompleteCommand(t, o, result)
  PROVE  \A s \in Sessions, p \in Operations :
           /\ command'[s][p].status = "none" <=> command[s][p].status = "none"
           /\ command'[s][p].target = command[s][p].target
           /\ command'[s][p].input = command[s][p].input
           /\ command'[s][p].revision = command[s][p].revision
           /\ command'[s][p].life = command[s][p].life
           /\ command'[s][p].status = "pending" => command[s][p].status = "pending"
<1>1. PICK outcome \in Results :
        command' = [u \in Sessions |->
          IF u \in Incoming(t, o)
          THEN [command[u] EXCEPT ![o] = [@ EXCEPT !.status = outcome, !.done = 0]]
          ELSE command[u]]
  BY DEF CompleteCommand, Outcome, Results
<1> TAKE s \in Sessions, p \in Operations
<1>2. command[s] \in [Operations -> Command] /\ command[s][p] \in Command
  BY DEF TypeOK
<1>3. CASE s \in Incoming(t, o) /\ p = o
  <2> DEFINE decided == [command[s][p] EXCEPT !.status = outcome, !.done = 0]
  <2>1. command'[s][p] = decided
    BY <1>1, <1>2, <1>3
  <2>2. decided.status = outcome /\ decided.target = command[s][p].target
        /\ decided.input = command[s][p].input /\ decided.revision = command[s][p].revision
        /\ decided.life = command[s][p].life
    BY <1>2 DEF Command
  <2>3. command[s][p].status # "none"
    BY <1>3 DEF Incoming, Exists
  <2> HIDE DEF decided
  <2> QED BY <2>1, <2>2, <2>3 DEF Results
<1>4. CASE ~(s \in Incoming(t, o) /\ p = o)
  <2>1. command'[s][p] = command[s][p]
    BY <1>1, <1>2, <1>4
  <2> QED BY <2>1
<1> QED BY <1>3, <1>4

\* What time does to a row: it only expires.
LEMMA AgedRows ==
  ASSUME TypeOK, Tick
  PROVE  \A s \in Sessions, o \in Operations :
           /\ command'[s][o].status = command[s][o].status
           /\ command'[s][o].target = command[s][o].target
           /\ command'[s][o].input = command[s][o].input
           /\ command'[s][o].revision = command[s][o].revision
           /\ Expired(command[s][o]) => Expired(command'[s][o])
<1> TAKE s \in Sessions, o \in Operations
<1> DEFINE c == command[s][o]
<1>1. c \in Command /\ command'[s][o] = OlderCommand(c)
  BY DEF Tick, TypeOK
<1> HIDE DEF c
<1>2. /\ OlderCommand(c).status = c.status /\ OlderCommand(c).target = c.target
      /\ OlderCommand(c).input = c.input /\ OlderCommand(c).revision = c.revision
      /\ OlderCommand(c).life = c.life \/ OlderCommand(c).life = c.life - 1
  BY <1>1 DEF OlderCommand, Command
<1>3. c.life \in Int
  BY <1>1, CommandsAssumption DEF Command
<1> QED BY <1>1, <1>2, <1>3 DEF c, Expired

LEMMA StoredStep == TypeOK /\ StoredInv /\ [Next]_vars => StoredInv'
<1> SUFFICES ASSUME TypeOK, StoredInv, [Next]_vars PROVE StoredInv'
  OBVIOUS
<1>1. ASSUME UNCHANGED <<workload, command, sending, accepted>> PROVE StoredInv'
  BY <1>1 DEF StoredInv, FromWorkload, OneCommandPerOperation, Exists
<1>2. ASSUME NEW call \in workload, ReplayCommand(call) PROVE StoredInv'
  <2>1. FromWorkload'
    BY <1>2 DEF ReplayCommand, StoredInv, FromWorkload, Exists
  <2>2. OneCommandPerOperation'
    BY <1>2
    DEF ReplayCommand, Replay, SameInput, Exists, StoredInv, OneCommandPerOperation
  <2> QED BY <2>1, <2>2 DEF StoredInv
<1>3. ASSUME NEW call \in workload, NEW q \in Requests, LookUpCommand(q, call) PROVE StoredInv'
  BY <1>3 DEF LookUpCommand, StoredInv, FromWorkload, OneCommandPerOperation, Exists, TypeOK
<1>4. ASSUME NEW q \in Requests, LockTarget(q) PROVE StoredInv'
  <2>1. sending[q] \in Sending /\ sending[q] # Idle
    BY <1>4 DEF LockTarget, TypeOK, Idle
  <2>2. \A r \in Requests : sending'[r] # Idle =>
          sending[r] # Idle /\ sending'[r].call = sending[r].call
    <3>1. [sending[q] EXCEPT !.stage = "locked"].call = sending[q].call
      BY <2>1 DEF Sending
    <3>2. \/ sending' = [sending EXCEPT ![q] = Idle]
          \/ sending' = [sending EXCEPT ![q] = [sending[q] EXCEPT !.stage = "locked"]]
      BY <1>4 DEF LockTarget
    <3> QED BY <2>1, <3>1, <3>2 DEF TypeOK
  <2> QED BY <1>4, <2>2 DEF LockTarget, StoredInv, FromWorkload, OneCommandPerOperation, Exists
<1>5. ASSUME NEW q \in Requests, StoreCommand(q) PROVE StoredInv'
  <2> DEFINE call == sending[q].call
             row == [status |-> "pending", target |-> call.target,
                     profile |-> profile[call.sender], input |-> call.input,
                     item |-> sending[q].item, revision |-> call.revision,
                     life |-> CommandTTL, done |-> 0]
  <2>1. call \in Call /\ call \in workload
    BY <1>5 DEF StoreCommand, TypeOK, Idle, Sending, StoredInv, FromWorkload
  <2>2. \A r \in Requests : sending'[r] # Idle => sending'[r] = sending[r]
    BY <1>5 DEF StoreCommand, TypeOK
  <2>3. CASE ~Exists(call.sender, call.op)
    <3>1. command' = [command EXCEPT ![call.sender][call.op] = row]
          /\ accepted' = accepted \cup {call} /\ workload' = workload
      BY <1>5, <2>3 DEF StoreCommand
    <3>2. \A s \in Sessions, o \in Operations :
            command'[s][o] = IF s = call.sender /\ o = call.op THEN row ELSE command[s][o]
      BY <2>1, <3>1 DEF TypeOK, Call
    <3>3. row.status = "pending" /\ row.target = call.target /\ row.input = call.input
          /\ row.revision = call.revision
      OBVIOUS
    <3> HIDE DEF row
    <3>4. FromWorkload'
      BY <2>1, <2>2, <3>1, <3>2 DEF StoredInv, FromWorkload, Exists
    <3>5. ASSUME NEW d \in accepted, d.sender = call.sender, d.op = call.op PROVE FALSE
      BY <2>3, <3>5 DEF StoredInv, OneCommandPerOperation, Exists
    <3>6. ASSUME NEW d \in accepted'
          PROVE  LET c == command'[d.sender][d.op] IN
                   /\ c.status # "none"
                   /\ c.target = d.target /\ c.input = d.input /\ c.revision = d.revision
      <4>1. CASE d = call
        BY <2>1, <3>2, <3>3, <4>1 DEF Call
      <4>2. CASE d # call
        <5>1. d \in accepted /\ d \in Call
          BY <3>1, <4>2 DEF TypeOK
        <5>2. command'[d.sender][d.op] = command[d.sender][d.op]
          BY <3>2, <3>5, <5>1 DEF Call
        <5> QED BY <5>1, <5>2 DEF StoredInv, OneCommandPerOperation
      <4> QED BY <4>1, <4>2
    <3>7. OneCommandPerOperation'
      BY <3>6 DEF OneCommandPerOperation
    <3> QED BY <3>4, <3>7 DEF StoredInv
  <2>4. CASE Exists(call.sender, call.op)
    <3>1. /\ UNCHANGED <<command, workload>>
          /\ accepted' = accepted \/ (accepted' = accepted \cup {call}
               /\ Replay(command[call.sender][call.op], call, sending[q].item))
      BY <1>5, <2>4 DEF StoreCommand
    <3>2. FromWorkload'
      BY <2>1, <2>2, <3>1 DEF StoredInv, FromWorkload, Exists
    <3>3. OneCommandPerOperation'
      BY <2>4, <3>1 DEF StoredInv, OneCommandPerOperation, Exists, Replay, SameInput
    <3> QED BY <3>2, <3>3 DEF StoredInv
  <2> QED BY <2>3, <2>4
<1>6. ASSUME NEW q \in Requests, AbandonSend(q) PROVE StoredInv'
  BY <1>6 DEF AbandonSend, StoredInv, FromWorkload, OneCommandPerOperation, Exists, TypeOK
<1>7. ASSUME UNCHANGED <<workload, sending, accepted>>,
             \A s \in Sessions, o \in Operations :
               /\ command'[s][o].status = "none" <=> command[s][o].status = "none"
               /\ command'[s][o].target = command[s][o].target
               /\ command'[s][o].input = command[s][o].input
               /\ command'[s][o].revision = command[s][o].revision
      PROVE  StoredInv'
  <2>1. FromWorkload'
    BY <1>7 DEF StoredInv, FromWorkload, Exists
  <2>2. OneCommandPerOperation'
    <3>1. ASSUME NEW call \in accepted'
          PROVE  LET c == command'[call.sender][call.op] IN
                   /\ c.status # "none"
                   /\ c.target = call.target /\ c.input = call.input
                   /\ c.revision = call.revision
      <4>1. call \in accepted /\ call.sender \in Sessions /\ call.op \in Operations
        BY <1>7, <3>1 DEF TypeOK, Call
      <4> QED BY <1>7, <4>1 DEF StoredInv, OneCommandPerOperation
    <3> QED BY <3>1 DEF OneCommandPerOperation
  <2> QED BY <2>1, <2>2 DEF StoredInv
<1>8. ASSUME NEW t \in Sessions, NEW o \in Operations, NEW result \in Results,
             CompleteCommand(t, o, result)
      PROVE  StoredInv'
  BY <1>7, <1>8, CompletedRows DEF CompleteCommand
<1>9. CASE Tick
  BY <1>7, <1>9, AgedRows DEF Tick
<1>10. ASSUME NEW s \in Sessions, DeleteSession(s) PROVE StoredInv'
  BY <1>10, StoredDeletion DEF DeleteSession
<1>11. CASE Cleanup
  BY <1>11, StoredDeletion DEF Cleanup
<1> QED
  BY <1>1, <1>2, <1>3, <1>4, <1>5, <1>6, <1>8, <1>9, <1>10, <1>11
  DEF Next, vars, Heartbeat, OutgoingCommand, SelectProfile, RefreshItem

-----------------------------------------------------------------------------
(* The limit of pending commands.  A send that has passed the count holds   *)
(* the target's row alone, so the place it found is still free at its       *)
(* insert: every other step only takes commands off the target's list.      *)

LocksExclusive ==
  \A q, r \in Requests :
    /\ sending[q].stage = "locked" /\ sending[r].stage = "locked"
    /\ sending[q].call.target = sending[r].call.target
    => q = r

LockedHasPlace ==
  \A q \in Requests, t \in Sessions :
    sending[q].stage = "locked" /\ sending[q].call.target = t => Cardinality(Pending(t)) < MaxPending

LimitInv == LocksExclusive /\ LockedHasPlace /\ PendingLimit

LEMMA PendingFinite == \A t \in Sessions : IsFiniteSet(Pending(t))
<1>1. IsFiniteSet(Sessions \X Operations)
  BY CommandsAssumption, FS_Product
<1> QED BY <1>1, FS_Subset DEF Pending

LEMMA LockedTyped ==
  ASSUME TypeOK, NEW q \in Requests, sending[q].stage \in {"looked", "locked"}
  PROVE  sending[q] \in Sending /\ sending[q].call \in Call
BY DEF TypeOK, Idle, Sending

\* The steps that neither lock a target nor insert a command.
LEMMA FewerPending ==
  ASSUME TypeOK, LimitInv,
         \A t \in Sessions : Pending(t)' \subseteq Pending(t),
         \A q \in Requests : sending'[q].stage = "locked" => sending'[q] = sending[q]
  PROVE  LimitInv'
<1>1. ASSUME NEW t \in Sessions
      PROVE  /\ Cardinality(Pending(t)') <= Cardinality(Pending(t))
             /\ Cardinality(Pending(t)') \in Nat /\ Cardinality(Pending(t)) \in Nat
  <2>1. IsFiniteSet(Pending(t)) /\ Pending(t)' \subseteq Pending(t)
    BY PendingFinite
  <2> HIDE DEF Pending
  <2> QED BY <2>1, FS_Subset, FS_CardinalityType
<1>2. LocksExclusive'
  BY DEF LimitInv, LocksExclusive
<1>3. ASSUME NEW q \in Requests, NEW t \in Sessions,
             sending'[q].stage = "locked", sending'[q].call.target = t
      PROVE  Cardinality(Pending(t)') < MaxPending
  <2>1. Cardinality(Pending(t)) < MaxPending
    BY <1>3 DEF LimitInv, LockedHasPlace
  <2> QED BY <1>1, <2>1, CommandsAssumption
<1>4. PendingLimit'
  BY <1>1, CommandsAssumption DEF LimitInv, PendingLimit
<1> QED BY <1>2, <1>3, <1>4 DEF LimitInv, LockedHasPlace

LEMMA LimitInit == Init => LimitInv
<1> SUFFICES ASSUME Init PROVE LimitInv
  OBVIOUS
<1>1. \A t \in Sessions : Pending(t) = {}
  BY DEF Init, Pending, NoCommand
<1>2. \A q \in Requests : sending[q].stage = "idle"
  BY DEF Init, Idle
<1>3. PendingLimit
  <2>1. Cardinality({}) = 0
    BY FS_EmptySet
  <2>2. 0 <= MaxPending
    BY CommandsAssumption
  <2>3. \A t \in Sessions : Cardinality(Pending(t)) <= MaxPending
    <3> HIDE DEF Pending
    <3> QED BY <1>1, <2>1, <2>2
  <2> QED BY <2>3 DEF PendingLimit
<1> QED BY <1>2, <1>3 DEF LimitInv, LocksExclusive, LockedHasPlace

LEMMA LimitStep == TypeOK /\ LimitInv /\ [Next]_vars => LimitInv'
<1> SUFFICES ASSUME TypeOK, LimitInv, [Next]_vars PROVE LimitInv'
  OBVIOUS
<1>1. ASSUME UNCHANGED command,
             \A q \in Requests : sending'[q].stage = "locked" => sending'[q] = sending[q]
      PROVE  LimitInv'
  BY <1>1, FewerPending DEF Pending
<1>2. ASSUME UNCHANGED sending,
             \A s \in Sessions, o \in Operations :
               command'[s][o].status = "pending" /\ ~Expired(command'[s][o]) =>
                 /\ command[s][o].status = "pending" /\ ~Expired(command[s][o])
                 /\ command[s][o].target = command'[s][o].target
      PROVE  LimitInv'
  <2>1. \A t \in Sessions : Pending(t)' \subseteq Pending(t)
    BY <1>2 DEF Pending
  <2> QED BY <1>2, <2>1, FewerPending
<1>3. ASSUME NEW call \in workload, NEW q \in Requests, LookUpCommand(q, call) PROVE LimitInv'
  <2>1. \A r \in Requests : sending'[r].stage = "locked" => sending'[r] = sending[r]
    BY <1>3 DEF LookUpCommand, TypeOK
  <2> QED BY <1>1, <1>3, <2>1 DEF LookUpCommand
<1>4. ASSUME NEW q \in Requests, LockTarget(q) PROVE LimitInv'
  <2> DEFINE t == sending[q].call.target
             locked == [sending[q] EXCEPT !.stage = "locked"]
  <2>1. sending[q] \in Sending /\ t \in Sessions
    BY <1>4, LockedTyped DEF LockTarget, Call
  <2>2. \A u \in Sessions : Pending(u)' = Pending(u)
    BY <1>4 DEF LockTarget, Pending
  <2>3. CASE sending' = [sending EXCEPT ![q] = Idle]
    <3>1. \A r \in Requests : sending'[r].stage = "locked" => sending'[r] = sending[r]
      BY <2>3 DEF TypeOK, Idle
    <3> QED BY <2>2, <3>1, FewerPending
  <2>4. CASE sending' # [sending EXCEPT ![q] = Idle]
    <3>1. /\ sending' = [sending EXCEPT ![q] = locked]
          /\ Cardinality(Pending(t)) < MaxPending /\ ~PresenceLocked(t)
      BY <1>4, <2>4 DEF LockTarget, SendLock
    <3>2. locked.call = sending[q].call
      BY <2>1 DEF Sending
    <3> HIDE DEF locked
    <3>3. \A r \in Requests : r # q => sending'[r] = sending[r]
      BY <3>1 DEF TypeOK
    <3>4. sending'[q].call = sending[q].call
      BY <3>1, <3>2 DEF TypeOK
    <3>5. LocksExclusive'
      BY <3>1, <3>3, <3>4 DEF PresenceLocked, LimitInv, LocksExclusive
    <3>6. ASSUME NEW r \in Requests, NEW u \in Sessions,
                 sending'[r].stage = "locked", sending'[r].call.target = u
          PROVE  Cardinality(Pending(u)') < MaxPending
      <4>1. CASE r = q
        BY <2>2, <3>1, <3>4, <3>6, <4>1
      <4>2. CASE r # q
        <5>1. Cardinality(Pending(u)) < MaxPending
          BY <3>3, <3>6, <4>2 DEF LimitInv, LockedHasPlace
        <5> QED BY <2>2, <5>1
      <4> QED BY <4>1, <4>2
    <3>7. PendingLimit'
      BY <2>2 DEF LimitInv, PendingLimit
    <3> QED BY <3>5, <3>6, <3>7 DEF LimitInv, LockedHasPlace
  <2> QED BY <2>3, <2>4
<1>5. ASSUME NEW q \in Requests, StoreCommand(q) PROVE LimitInv'
  <2> DEFINE call == sending[q].call
             row == [status |-> "pending", target |-> call.target,
                     profile |-> profile[call.sender], input |-> call.input,
                     item |-> sending[q].item, revision |-> call.revision,
                     life |-> CommandTTL, done |-> 0]
  <2>1. call \in Call /\ call.target \in Sessions
    BY <1>5, LockedTyped DEF StoreCommand, Call
  <2>2. \A r \in Requests : sending'[r].stage = "locked" => sending'[r] = sending[r] /\ r # q
    BY <1>5 DEF StoreCommand, TypeOK, Idle
  <2>3. CASE UNCHANGED command
    BY <1>1, <2>2, <2>3
  <2>4. CASE command' = [command EXCEPT ![call.sender][call.op] = row]
    <3>1. \A s \in Sessions, o \in Operations :
            command'[s][o] = IF s = call.sender /\ o = call.op THEN row ELSE command[s][o]
      BY <2>1, <2>4 DEF TypeOK, Call
    <3>2. row.target = call.target
      OBVIOUS
    <3> HIDE DEF row
    <3>3. ASSUME NEW t \in Sessions
          PROVE  Pending(t)' \subseteq
                   IF t = call.target THEN Pending(t) \cup {<<call.sender, call.op>>} ELSE Pending(t)
      BY <3>1, <3>2 DEF Pending
    <3>4. ASSUME NEW t \in Sessions
          PROVE  /\ Cardinality(Pending(t)') \in Nat /\ Cardinality(Pending(t)) \in Nat
                 /\ t # call.target => Cardinality(Pending(t)') <= Cardinality(Pending(t))
                 /\ Cardinality(Pending(t)') <= Cardinality(Pending(t)) + 1
      <4> DEFINE new == <<call.sender, call.op>>
      <4>1. IsFiniteSet(Pending(t)) /\ Cardinality(Pending(t)) \in Nat
        BY PendingFinite, FS_CardinalityType
      <4>2. /\ IsFiniteSet(Pending(t) \cup {new})
            /\ Cardinality(Pending(t) \cup {new}) \in Nat
            /\ Cardinality(Pending(t) \cup {new}) <= Cardinality(Pending(t)) + 1
        <5> HIDE DEF new
        <5>1. /\ IsFiniteSet(Pending(t) \cup {new})
              /\ \/ Cardinality(Pending(t) \cup {new}) = Cardinality(Pending(t))
                 \/ Cardinality(Pending(t) \cup {new}) = Cardinality(Pending(t)) + 1
          BY <4>1, FS_AddElement
        <5> QED BY <4>1, <5>1
      <4>3. /\ Pending(t)' \subseteq Pending(t) \cup {new}
            /\ t # call.target => Pending(t)' \subseteq Pending(t)
        BY <3>3
      <4>4. /\ Cardinality(Pending(t)') \in Nat
            /\ Cardinality(Pending(t)') <= Cardinality(Pending(t) \cup {new})
        BY <4>2, <4>3, FS_Subset, FS_CardinalityType
      <4>5. t # call.target => Cardinality(Pending(t)') <= Cardinality(Pending(t))
        BY <4>1, <4>3, FS_Subset
      <4> HIDE DEF new
      <4> QED BY <4>1, <4>2, <4>4, <4>5
    <3>5. Cardinality(Pending(call.target)) < MaxPending
      BY <1>5, <2>1 DEF StoreCommand, LimitInv, LockedHasPlace
    <3>6. LocksExclusive'
      BY <2>2 DEF LimitInv, LocksExclusive
    <3>7. ASSUME NEW r \in Requests, NEW t \in Sessions,
                 sending'[r].stage = "locked", sending'[r].call.target = t
          PROVE  Cardinality(Pending(t)') < MaxPending
      <4>1. sending'[r] = sending[r] /\ r # q
        BY <2>2, <3>7
      <4>2. t # call.target
        BY <1>5, <3>7, <4>1 DEF StoreCommand, LimitInv, LocksExclusive
      <4>3. Cardinality(Pending(t)) < MaxPending
        BY <3>7, <4>1 DEF LimitInv, LockedHasPlace
      <4> QED BY <3>4, <4>2, <4>3, CommandsAssumption
    <3>8. PendingLimit'
      <4>1. ASSUME NEW t \in Sessions PROVE Cardinality(Pending(t)') <= MaxPending
        <5>1. Cardinality(Pending(t)) <= MaxPending
          BY DEF LimitInv, PendingLimit
        <5> QED BY <2>1, <3>4, <3>5, <5>1, CommandsAssumption
      <4> QED BY <4>1 DEF PendingLimit
    <3> QED BY <3>6, <3>7, <3>8 DEF LimitInv, LockedHasPlace
  <2> QED BY <1>5, <2>3, <2>4 DEF StoreCommand
<1>6. ASSUME NEW q \in Requests, AbandonSend(q) PROVE LimitInv'
  <2>1. \A r \in Requests : sending'[r].stage = "locked" => sending'[r] = sending[r]
    BY <1>6 DEF AbandonSend, TypeOK, Idle
  <2> QED BY <1>1, <1>6, <2>1 DEF AbandonSend
<1>7. ASSUME NEW t \in Sessions, NEW o \in Operations, NEW result \in Results,
             CompleteCommand(t, o, result)
      PROVE  LimitInv'
  <2>1. UNCHANGED sending
    BY <1>7 DEF CompleteCommand
  <2> QED BY <1>2, <1>7, <2>1, CompletedRows DEF Expired
<1>8. ASSUME NEW R, DeleteCommands(R), UNCHANGED sending PROVE LimitInv'
  BY <1>2, <1>8 DEF DeleteCommands, NoCommand
<1>9. CASE Tick
  <2>1. UNCHANGED sending
    BY <1>9 DEF Tick
  <2> QED BY <1>2, <1>9, <2>1, AgedRows
<1>10. ASSUME NEW s \in Sessions, DeleteSession(s) PROVE LimitInv'
  BY <1>8, <1>10 DEF DeleteSession
<1>11. CASE Cleanup
  BY <1>8, <1>11 DEF Cleanup
<1> QED
  BY <1>1, <1>3, <1>4, <1>5, <1>6, <1>7, <1>9, <1>10, <1>11
  DEF Next, vars, Heartbeat, ReplayCommand, OutgoingCommand, SelectProfile, RefreshItem

\* However many copies and variants of SendCommand are in progress, an operation id stands for one
\* command, and no target ever has more than maximumPendingCommands of them pending.
THEOREM CommandsSendsSerialised == Spec => []SendsSerialised
<1>1. StoredInv /\ LimitInv => SendsSerialised
  BY DEF StoredInv, LimitInv, SendsSerialised
<1> QED BY <1>1, TypeInit, TypeStep, StoredInit, StoredStep, LimitInit, LimitStep, PTL DEF Spec

-----------------------------------------------------------------------------
(* What a sender has read stays so.  A report could only decide a row that  *)
(* was read as expired, and then says so too: the rows of an operation id   *)
(* that reach one target have one sender, so no other row is written.       *)

ReadInv == StoredInv /\ ObservedResultStable

LEMMA ReadInit == Init => ReadInv
BY StoredInit DEF Init, ReadInv, ObservedResultStable

LEMMA ReadStep == TypeOK /\ ReadInv /\ [Next]_vars => ReadInv'
<1> SUFFICES ASSUME TypeOK, ReadInv, [Next]_vars PROVE ObservedResultStable'
  BY StoredStep DEF ReadInv
<1>1. ASSUME UNCHANGED <<command, observed>> PROVE ObservedResultStable'
  BY <1>1 DEF ReadInv, ObservedResultStable
<1>2. ASSUME NEW q \in Requests, StoreCommand(q) PROVE ObservedResultStable'
  <2> DEFINE call == sending[q].call
             row == [status |-> "pending", target |-> call.target,
                     profile |-> profile[call.sender], input |-> call.input,
                     item |-> sending[q].item, revision |-> call.revision,
                     life |-> CommandTTL, done |-> 0]
  <2>1. call.sender \in Sessions /\ call.op \in Operations
    BY <1>2, LockedTyped DEF StoreCommand, Call
  <2>2. UNCHANGED observed
    BY <1>2 DEF StoreCommand
  <2>3. CASE UNCHANGED command
    BY <1>1, <2>2, <2>3
  <2>4. CASE ~Exists(call.sender, call.op) /\ command' = [command EXCEPT ![call.sender][call.op] = row]
    <3>1. \A s \in Sessions, o \in Operations :
            s # call.sender \/ o # call.op => command'[s][o] = command[s][o]
      BY <2>1, <2>4 DEF TypeOK
    <3>2. observed[call.sender][call.op] = "none"
      <4>1. Shown(command[call.sender][call.op]) = "none"
        BY <2>4 DEF Exists, Shown
      <4> QED BY <2>1, <4>1 DEF ReadInv, ObservedResultStable
    <3>3. ASSUME NEW s \in Sessions, NEW o \in Operations, observed'[s][o] # "none"
          PROVE  Shown(command'[s][o]) = observed'[s][o]
      BY <2>2, <3>1, <3>2, <3>3 DEF ReadInv, ObservedResultStable
    <3> QED BY <3>3 DEF ObservedResultStable
  <2> QED BY <1>2, <2>3, <2>4 DEF StoreCommand
<1>3. ASSUME NEW t \in Sessions, NEW o \in Operations, NEW result \in Results,
             CompleteCommand(t, o, result)
      PROVE  ObservedResultStable'
  <2> DEFINE outcome(s) == Outcome(command[s][o], result)
  <2>1. PICK s \in Incoming(t, o) :
          /\ Undecided(command[s][o])
          /\ command' = [u \in Sessions |->
               IF u \in Incoming(t, o)
               THEN [command[u] EXCEPT ![o] = [@ EXCEPT !.status = outcome(s), !.done = 0]]
               ELSE command[u]]
    BY <1>3 DEF CompleteCommand
  <2>2. s \in Sessions /\ UNCHANGED observed
    BY <1>3 DEF CompleteCommand, Incoming
  <2>3. \A u \in Incoming(t, o) : u = s
    <3>1. workload \in Workloads
      BY DEF TypeOK
    <3>2. \A u \in Incoming(t, o) : \E call \in workload : call.sender = u /\ call.op = o
      BY DEF Incoming, ReadInv, StoredInv, FromWorkload
    <3>3. \A c, d \in workload : c.op = d.op => c.sender = d.sender
      BY <3>1, CommandsAssumption
    <3> QED BY <3>2, <3>3
  <2> DEFINE old == command[s][o]
             decided == [old EXCEPT !.status = outcome(s), !.done = 0]
  <2>4. old \in Command /\ old.status = "pending"
    BY <2>1, <2>2 DEF Undecided, TypeOK
  <2>5. /\ command'[s][o] = decided
        /\ \A u \in Sessions, p \in Operations :
             u # s \/ p # o => command'[u][p] = command[u][p]
    <3>1. \A u \in Sessions : command[u] \in [Operations -> Command]
      BY DEF TypeOK
    <3> QED BY <2>1, <2>2, <2>3, <3>1
  <2>6. decided.status = outcome(s)
    BY <2>4 DEF Command
  <2>7. observed[s][o] # "none" => Shown(command'[s][o]) = observed[s][o]
    <3>1. observed[s][o] # "none" => observed[s][o] = Shown(old)
      BY <2>2 DEF ReadInv, ObservedResultStable
    <3>2. Shown(old) = "expired" => decided.status = "expired"
      BY <2>4, <2>6 DEF Shown, Outcome
    <3>3. Shown(old) \in {"pending", "expired"}
      BY <2>4 DEF Shown
    <3>4. observed[s][o] \in {"none"} \cup Results
      BY <2>2 DEF TypeOK
    <3> HIDE DEF old, decided
    <3> QED BY <2>5, <3>1, <3>2, <3>3, <3>4 DEF Results, Shown
  <2> HIDE DEF old, decided, outcome
  <2>8. ASSUME NEW u \in Sessions, NEW p \in Operations, observed'[u][p] # "none"
        PROVE  Shown(command'[u][p]) = observed'[u][p]
    BY <2>2, <2>5, <2>7, <2>8 DEF ReadInv, ObservedResultStable
  <2> QED BY <2>8 DEF ObservedResultStable
<1>4. ASSUME NEW s \in Sessions, NEW o \in Operations, OutgoingCommand(s, o)
      PROVE  ObservedResultStable'
  <2>1. ASSUME NEW u \in Sessions, NEW p \in Operations, observed'[u][p] # "none"
        PROVE  Shown(command'[u][p]) = observed'[u][p]
    <3>1. command' = command /\ observed' = [observed EXCEPT ![s][o] = Shown(command[s][o])]
      BY <1>4 DEF OutgoingCommand
    <3>2. observed'[u][p] = IF u = s /\ p = o THEN Shown(command[s][o]) ELSE observed[u][p]
      BY <3>1 DEF TypeOK
    <3> QED BY <2>1, <3>1, <3>2 DEF ReadInv, ObservedResultStable
  <2> QED BY <2>1 DEF ObservedResultStable
<1>5. ASSUME NEW R, DeleteCommands(R) PROVE ObservedResultStable'
  BY <1>5 DEF DeleteCommands, ReadInv, ObservedResultStable
<1>6. CASE Tick
  <2>1. ASSUME NEW s \in Sessions, NEW o \in Operations, observed'[s][o] # "none"
        PROVE  Shown(command'[s][o]) = observed'[s][o]
    <3>1. /\ command'[s][o].status = command[s][o].status /\ observed' = observed
          /\ Expired(command[s][o]) => Expired(command'[s][o])
      BY <1>6, AgedRows DEF Tick
    <3>2. Shown(command[s][o]) = observed[s][o] /\ observed[s][o] \in Results
      BY <2>1, <3>1 DEF ReadInv, ObservedResultStable, TypeOK
    <3> QED BY <3>1, <3>2 DEF Shown, Results
  <2> QED BY <2>1 DEF ObservedResultStable
<1>7. ASSUME NEW s \in Sessions, DeleteSession(s) PROVE ObservedResultStable'
  BY <1>5, <1>7 DEF DeleteSession
<1>8. CASE Cleanup
  BY <1>5, <1>8 DEF Cleanup
<1> QED
  BY <1>1, <1>2, <1>3, <1>4, <1>6, <1>7, <1>8
  DEF Next, vars, Heartbeat, ReplayCommand, LookUpCommand, LockTarget, AbandonSend,
      SelectProfile, RefreshItem

\* A terminal status a sender has read never changes while the row exists: neither a late report of
\* the target nor the clock overrides what OutgoingCommand has shown.
THEOREM CommandsObservedStable == Spec => []ObservedResultStable
<1>1. ReadInv => ObservedResultStable
  BY DEF ReadInv
<1> QED BY <1>1, TypeInit, TypeStep, ReadInit, ReadStep, PTL DEF Spec
=============================================================================
