--------------------------- MODULE AuthSessions ---------------------------
(***************************************************************************)
(* Native sessions with their refresh tokens and profile selection, and    *)
(* the Jellyfin compatibility sessions linked to them:                     *)
(* server/internal/auth/service.go, linked_session.go, maintenance.go,     *)
(* profile_authorization.go, profile/service.go and jellyfin/store.go.     *)
(*                                                                         *)
(* A call is one action where it is one transaction that locks the session *)
(* first.  Authenticate reads without a lock and corrects afterwards.  The *)
(* authentication of a compatibility token is four statements or           *)
(* transactions; the second locks the session FOR SHARE and then updates   *)
(* it, so that two of them can block each other.  Callers with one token   *)
(* share one authentication, which is cancelled when the last one leaves.  *)
(***************************************************************************)
EXTENDS Integers, FiniteSets

CONSTANTS
  Sessions,       \* ids of auth_sessions; each is drawn once
  Profiles,
  NoProfile,
  Compats,        \* ids of jellyfin_compat_sessions; each is drawn once
  Requests,       \* authentications that may be in progress at once
  NoSession,
  NoCompat,
  AccessTTL,      \* accessTTL
  RefreshTTL,     \* refreshTTL
  GrantTTL,       \* grantTTL of a native profile selection
  Grace,          \* refreshTokenReuseGracePeriod
  Retention,      \* how long Cleanup keeps consumed tokens
  MaxWaiters,     \* bound: callers of one authentication
  MaxTokens,      \* bound: refresh tokens drawn for one session
  MaxSelections   \* bound: profile contexts drawn for one session

ASSUME AuthSessionsAssumption ==
  /\ NoProfile \notin Profiles /\ NoSession \notin Sessions /\ NoCompat \notin Compats
  /\ AccessTTL \in Nat \ {0} /\ RefreshTTL \in Nat /\ AccessTTL <= RefreshTTL
  /\ GrantTTL \in Nat \ {0} /\ Grace \in Nat /\ Retention \in Nat /\ Grace <= Retention
  /\ MaxTokens \in Nat \ {0} /\ MaxSelections \in Nat /\ MaxWaiters \in Nat \ {0}

VARIABLES
  session,   \* id -> the auth_sessions row
  token,     \* id -> serial -> the auth_refresh_tokens row
  compat,    \* id -> the jellyfin_compat_sessions row
  assigned,  \* the profiles of the user (user_profile_access)
  open,      \* the profiles accessible now (ProfileAccessibleAt)
  request    \* request -> the authentication in progress

vars == <<session, token, compat, assigned, open, request>>

-----------------------------------------------------------------------------
Max(a, b) == IF a > b THEN a ELSE b
Least(a, b) == IF a < b THEN a ELSE b
Serials == 1..MaxTokens

\* scoped: validSessionScope holds of the session, its device and its user.  app: the profile
\* whose Jellyfin app password opened the session (jellyfin_credential_id), if one did.
Session == [state : {"unused", "live", "revoked", "gone"},
            profile : Profiles \cup {NoProfile},
            grant : 0..Max(GrantTTL, RefreshTTL),
            context : 0..MaxSelections,
            drawn : 0..MaxSelections,
            access : 0..AccessTTL,
            refresh : 0..RefreshTTL,
            scoped : BOOLEAN,
            app : Profiles \cup {NoProfile}]

\* age is the time since a token was consumed.
Token == [state : {"none", "current", "consumed", "deleted"}, age : 0..Retention]

Compat == [state : {"unused", "active", "revoked", "gone"},
           session : Sessions \cup {NoSession},
           profile : Profiles \cup {NoProfile},
           left : 0..RefreshTTL]

\* stale (history): the selection the request saw has been changed since.  An authentication of
\* a compatibility session is a flight, found by its key: the token or the session's id.
Request == [stage : {"idle", "revoke", "clear", "captured", "reload", "linked", "touch", "expel"},
            session : Sessions \cup {NoSession},
            profile : Profiles \cup {NoProfile},
            context : 0..MaxSelections,
            compat : Compats \cup {NoCompat},
            stale : BOOLEAN,
            key : {"none", "token", "id"},
            waiters : 0..MaxWaiters,
            cancelled : BOOLEAN]

Idle == [stage |-> "idle", session |-> NoSession, profile |-> NoProfile,
         context |-> 0, compat |-> NoCompat, stale |-> FALSE,
         key |-> "none", waiters |-> 0, cancelled |-> FALSE]

NoToken == [state |-> "none", age |-> 0]

Init ==
  /\ session = [s \in Sessions |->
       [state |-> "unused", profile |-> NoProfile, grant |-> 0, context |-> 0, drawn |-> 0,
        access |-> 0, refresh |-> 0, scoped |-> TRUE, app |-> NoProfile]]
  /\ token = [s \in Sessions |-> [n \in Serials |-> NoToken]]
  /\ compat = [c \in Compats |->
       [state |-> "unused", session |-> NoSession, profile |-> NoProfile, left |-> 0]]
  /\ assigned = Profiles
  /\ open = Profiles
  /\ request = [q \in Requests |-> Idle]

-----------------------------------------------------------------------------
(* Rows, locks and the trigger.                                            *)

Exists(s) == session[s].state \in {"live", "revoked"}
Live(s) == session[s].state = "live"
Active(c) == compat[c].state = "active" /\ compat[c].left > 0

\* The requests that hold the session row FOR SHARE.
Sharing(s) == {q \in Requests : request[q].stage = "linked" /\ request[q].session = s}

\* An UPDATE or FOR UPDATE of the rows need not wait.
Unlocked(S) == \A s \in S : Sharing(s) = {}

\* Nor one of the profile, its grant or the user's device, held along with the session.
ProfileUnlocked(p) == \A q \in Requests : request[q].stage = "linked" => request[q].profile # p

Tokens(s, state) == {n \in Serials : token[s][n].state = state}
Drawn(s) == {n \in Serials : token[s][n].state # "none"}

SlipCompatsKept(S) == compat

\* auth_sessions_revoke_jellyfin_compat: the compatibility sessions of the sessions S end.
CompatsRevoked(S) ==
  [c \in Compats |->
     IF compat[c].session \in S /\ Live(compat[c].session) /\ compat[c].state = "active"
     THEN [compat[c] EXCEPT !.state = "revoked"] ELSE compat[c]]

Revoked(S) ==
  [s \in Sessions |-> IF s \in S THEN [session[s] EXCEPT !.state = "revoked"] ELSE session[s]]

Cleared(row) == [row EXCEPT !.profile = NoProfile, !.grant = 0, !.context = 0]

\* The selection of the sessions S is about to change.
Disturbed(r, S) ==
  [q \in Requests |-> IF r[q].stage = "captured" /\ r[q].session \in S
                      THEN [r[q] EXCEPT !.stale = TRUE] ELSE r[q]]

-----------------------------------------------------------------------------
(* Sign-in and refresh.                                                    *)

\* createSessionForClient: a new session and its first refresh token.
Created(s, row) ==
  /\ session[s].state = "unused"
  /\ session' = [session EXCEPT ![s] = row]
  /\ token' = [token EXCEPT ![s][1] = [state |-> "current", age |-> 0]]
  /\ UNCHANGED <<compat, assigned, open, request>>

FreshSession ==
  [state |-> "live", profile |-> NoProfile, grant |-> 0, context |-> 0, drawn |-> 0,
   access |-> AccessTTL, refresh |-> RefreshTTL, scoped |-> TRUE, app |-> NoProfile]

\* login: no profile is selected yet.
Login(s) == Created(s, FreshSession)

\* LoginJellyfinProfile: the app password selects its profile for as long as the session lives.
LoginJellyfinProfile(s, p) ==
  /\ p \in assigned \cap open /\ MaxSelections > 0
  /\ Created(s, [FreshSession EXCEPT !.profile = p, !.grant = RefreshTTL, !.context = 1,
                                     !.drawn = 1, !.app = p])

\* The new access token does not outlive the session.
AccessLife(s) == Least(AccessTTL, session[s].refresh)

SlipTokenKept(s, n, new) == [token[s] EXCEPT ![new] = [state |-> "current", age |-> 0]]

\* The presented token is consumed and the next one stored.
TokensRotated(s, n, new) ==
  [token[s] EXCEPT ![n] = [state |-> "consumed", age |-> 0],
                   ![new] = [state |-> "current", age |-> 0]]

Rotate(s, n) ==
  /\ Live(s) /\ Unlocked({s})
  /\ token[s][n].state = "current"
  /\ session[s].refresh > 0 /\ session[s].scoped
  /\ \E new \in Serials \ Drawn(s) :
       /\ \A m \in Serials \ Drawn(s) : new <= m
       /\ token' = [token EXCEPT ![s] = TokensRotated(s, n, new)]
  /\ session' = [session EXCEPT ![s].access = AccessLife(s)]
  /\ UNCHANGED <<compat, assigned, open, request>>

\* A consumed token is presented again and the grace period is over.
Reused(s, n) == token[s][n].state = "consumed" /\ token[s][n].age >= Grace

\* The sessions S are revoked in one transaction.
EndSessions(S) ==
  /\ S # {} /\ \A s \in S : Live(s)
  /\ Unlocked(S)
  /\ session' = Revoked(S)
  /\ compat' = CompatsRevoked(S)
  /\ request' = Disturbed(request, S)
  /\ UNCHANGED <<token, assigned, open>>

\* refresh revokes the session when a token is reused, or when its rows no longer agree.
RefreshRevokes(s, n) ==
  /\ \/ Reused(s, n)
     \/ token[s][n].state = "current" /\ session[s].refresh > 0 /\ ~session[s].scoped
  /\ EndSessions({s})

RevokeSession(s) == EndSessions({s})

\* Any refresh token of the session will do, a consumed one too.
LogoutWeb(s, n) == token[s][n].state \in {"current", "consumed"} /\ EndSessions({s})

RevokeProfileSession(s) ==
  /\ session[s].profile # NoProfile /\ session[s].grant > 0 /\ session[s].refresh > 0
  /\ EndSessions({s})

LogoutLinkedSession(c) ==
  /\ compat[c].state \in {"active", "revoked"}
  /\ session[compat[c].session].profile = compat[c].profile
  /\ EndSessions({compat[c].session})

\* The Jellyfin sign-in failed after its session was made.
RevokeUnfinishedLinkedSession(s) == session[s].app # NoProfile /\ EndSessions({s})

\* CredentialStore.Rotate, Revoke: the sessions that the app password of the profile opened.
RotateCredential(p) == EndSessions({s \in Sessions : session[s].app = p /\ Live(s)})

\* user.Service.Update with a new password or role: all sessions of the user.
UpdateAccount == EndSessions({s \in Sessions : Live(s)})

-----------------------------------------------------------------------------
(* The profile selection of a session.                                     *)

SlipLifeAdded(s, linked) == session[s].refresh + GrantTTL

SelectionLife(s, linked) == IF linked THEN session[s].refresh ELSE GrantTTL

\* selectProfile: linked selections live as long as the session.
Select(s, p, linked) ==
  /\ p \in assigned \cap open
  /\ Live(s) /\ Unlocked({s}) /\ session[s].scoped
  /\ linked => session[s].refresh > 0
  /\ session[s].drawn < MaxSelections
  /\ session' = [session EXCEPT ![s].profile = p, ![s].grant = SelectionLife(s, linked),
                                ![s].context = session[s].drawn + 1, ![s].drawn = @ + 1]
  /\ request' = Disturbed(request, {s})
  /\ UNCHANGED <<token, compat, assigned, open>>

ClearSelection(s) ==
  /\ Live(s) /\ Unlocked({s}) /\ session[s].profile # NoProfile
  /\ session' = [session EXCEPT ![s] = Cleared(@)]
  /\ request' = Disturbed(request, {s})
  /\ UNCHANGED <<token, compat, assigned, open>>

\* The sessions whose selection, or one of whose compatibility sessions, is of profile p.
SessionsOf(p) ==
  {s \in Sessions : Exists(s) /\ \/ session[s].profile = p
                                 \/ \E c \in Compats : compat[c].session = s /\ compat[c].profile = p}

CompatsOfProfileRevoked(p) ==
  [c \in Compats |-> IF compat[c].profile = p /\ compat[c].state = "active"
                     THEN [compat[c] EXCEPT !.state = "revoked"] ELSE compat[c]]

SelectionsCleared(p) ==
  [s \in Sessions |-> IF session[s].profile = p THEN Cleared(session[s]) ELSE session[s]]

\* RevokeProfileAccess.
RevokeProfileAccess(p) ==
  /\ p \in assigned /\ ProfileUnlocked(p) /\ Unlocked(SessionsOf(p))
  /\ assigned' = assigned \ {p}
  /\ session' = SelectionsCleared(p)
  /\ compat' = CompatsOfProfileRevoked(p)
  /\ request' = Disturbed(request, {s \in Sessions : session[s].profile = p})
  /\ UNCHANGED <<token, open>>

\* GrantProfileAccess.
GrantProfileAccess(p) ==
  /\ p \notin assigned
  /\ assigned' = assigned \cup {p}
  /\ UNCHANGED <<session, token, compat, open, request>>

\* profile.Service.Update with a changed schedule or PIN: every selection ends.
ChangeProfileAccess(p) ==
  /\ ProfileUnlocked(p) /\ Unlocked(SessionsOf(p))
  /\ \E b \in BOOLEAN : open' = IF b THEN open \cup {p} ELSE open \ {p}
  /\ session' = SelectionsCleared(p)
  /\ compat' = CompatsOfProfileRevoked(p)
  /\ request' = Disturbed(request, {s \in Sessions : session[s].profile = p})
  /\ UNCHANGED <<token, assigned>>

\* The sessions S end without a selection, and their compatibility sessions with them.
EndSelected(S) ==
  /\ Unlocked(S)
  /\ session' = [s \in Sessions |-> IF s \in S
                                    THEN [Cleared(session[s]) EXCEPT !.state = "revoked"]
                                    ELSE session[s]]
  /\ request' = Disturbed(request, S)

\* profile.Service.Update that disables the profile: the sessions end with the selections.
DisableProfile(p) ==
  LET S == SessionsOf(p) \cup {s \in Sessions : Exists(s) /\ session[s].app = p} IN
  /\ p \in open /\ ProfileUnlocked(p)
  /\ open' = open \ {p}
  /\ EndSelected(S)
  /\ compat' = [c \in Compats |->
       IF compat[c].state = "active" /\ (compat[c].profile = p \/ compat[c].session \in S)
       THEN [compat[c] EXCEPT !.state = "revoked"] ELSE compat[c]]
  /\ UNCHANGED <<token, assigned>>

\* The schedule of a profile opens or closes it.
ScheduleTurns(p) ==
  /\ open' = IF p \in open THEN open \ {p} ELSE open \cup {p}
  /\ UNCHANGED <<session, token, compat, assigned, request>>

\* category.Service.MoveProfiles.
MoveProfiles(p) ==
  LET S == {s \in Sessions : Exists(s) /\ session[s].profile = p} IN
  /\ ProfileUnlocked(p)
  /\ EndSelected(S)
  /\ compat' = CompatsRevoked(S)
  /\ UNCHANGED <<token, assigned, open>>

\* category.Service.MoveDevices, UpdateDevice: revokeDeviceSessions of the session's device.
MoveDevices(s) ==
  /\ Exists(s)
  /\ EndSelected({s})
  /\ compat' = CompatsRevoked({s})
  /\ UNCHANGED <<token, assigned, open>>

\* upsertDevice: an administrator signs in on the session's device and moves it to another
\* category, which a category-scoped session of that device does not survive.
DeviceMoves(s) ==
  /\ Live(s) /\ session[s].scoped
  /\ Unlocked({s})
  /\ session' = [session EXCEPT ![s].scoped = FALSE]
  /\ UNCHANGED <<token, compat, assigned, open, request>>

-----------------------------------------------------------------------------
(* Authenticate: an unlocked read, then what the read calls for.           *)

\* The profile selection the read returns is not, or no longer, granted.
Ungranted(s) ==
  \/ session[s].profile \notin assigned
  \/ session[s].profile \notin open
  \/ session[s].grant = 0

AuthRead(q, s) ==
  /\ request[q] = Idle
  /\ Live(s) /\ session[s].access > 0
  /\ request' = [request EXCEPT ![q] =
       [Idle EXCEPT !.session = s, !.profile = session[s].profile, !.context = session[s].context,
                    !.stage = CASE ~session[s].scoped -> "revoke"
                                [] session[s].scoped /\ session[s].profile # NoProfile
                                                     /\ Ungranted(s) -> "clear"
                                [] OTHER -> "captured"]]
  /\ UNCHANGED <<session, token, compat, assigned, open>>

\* revokeNativeSession, after a read that found the rows at odds.
AuthRevoke(q) ==
  LET s == request[q].session IN
  /\ request[q].stage = "revoke" /\ Unlocked({s})
  /\ IF Exists(s)
     THEN /\ session' = Revoked({s})
          /\ compat' = CompatsRevoked({s})
     ELSE UNCHANGED <<session, compat>>
  /\ request' = [Disturbed(request, {s}) EXCEPT ![q] = Idle]
  /\ UNCHANGED <<token, assigned, open>>

\* WHERE ... active_profile_id: the session still has the profile that was read.
StillSelected(q) ==
  Exists(request[q].session) /\ session[request[q].session].profile = request[q].profile

\* clearNativeProfileCompatibilitySessions.
AuthClear(q) ==
  LET s == request[q].session  p == request[q].profile IN
  /\ request[q].stage = "clear" /\ Unlocked({s})
  /\ IF StillSelected(q)
     THEN /\ session' = [session EXCEPT ![s] = Cleared(@)]
          /\ compat' = [c \in Compats |->
               IF compat[c].session = s /\ compat[c].profile = p /\ compat[c].state = "active"
               THEN [compat[c] EXCEPT !.state = "revoked"] ELSE compat[c]]
          /\ request' = [Disturbed(request, {s}) EXCEPT ![q] = Idle]
     ELSE /\ request' = [request EXCEPT ![q] = Idle]
          /\ UNCHANGED <<session, compat>>
  /\ UNCHANGED <<token, assigned, open>>

SlipSelectionHolds(q) ==
  LET s == request[q].session IN
  Live(s) /\ session[s].profile = request[q].profile /\ session[s].access > 0 /\ session[s].grant > 0

\* LockActiveProfileSelection, reloadAndLockPrincipal: the selection captured at the start of
\* the request, told by its context, is still the session's.
SelectionHolds(q) ==
  LET s == request[q].session IN
  /\ Live(s) /\ session[s].profile = request[q].profile
  /\ session[s].access > 0 /\ session[s].grant > 0
  /\ session[s].context = request[q].context

\* The protected work of the request is done in the transaction that holds the selection.
UseSelection(q) ==
  /\ request[q].stage = "captured" /\ request[q].profile # NoProfile
  /\ SelectionHolds(q)
  /\ request' = [request EXCEPT ![q] = Idle]
  /\ UNCHANGED <<session, token, compat, assigned, open>>

\* The request ends without protected work, or is refused it.
EndRequest(q) ==
  /\ request[q].stage = "captured"
  /\ request' = [request EXCEPT ![q] = Idle]
  /\ UNCHANGED <<session, token, compat, assigned, open>>

-----------------------------------------------------------------------------
(* Compatibility sessions (jellyfin/store.go).                             *)

\* The credential expires no later than session and selection.
Covers(s, life) == session[s].refresh >= life /\ session[s].grant >= life

Issue(c, s) ==
  /\ compat[c].state = "unused"
  /\ Live(s) /\ session[s].profile # NoProfile
  /\ \E life \in 1..RefreshTTL :
       /\ Covers(s, life)
       /\ compat' = [compat EXCEPT ![c] = [state |-> "active", session |-> s,
                                           profile |-> session[s].profile, left |-> life]]
  /\ UNCHANGED <<session, token, assigned, open, request>>

\* RevokeByToken, Revoke, RevokeAllActive.
RevokeCompat(c) ==
  /\ compat[c].state = "active"
  /\ compat' = [compat EXCEPT ![c].state = "revoked"]
  /\ UNCHANGED <<session, token, assigned, open, request>>

\* Slip: a cancelled flight stays in the map.
SlipRegistered(r) == r.key # "none"

\* authenticationFlights: an authentication is found by its key until it ends or is cancelled.
Registered(r) == r.key # "none" /\ ~r.cancelled

FlightOf(c, key) == {q \in Requests : request[q].compat = c /\ request[q].key = key
                                                            /\ Registered(request[q])}

\* joinAuthenticationFlight without a flight to join, and authenticateDigest or
\* authenticateSessionID: the row, unlocked.
CompatRead(q, c, key) ==
  /\ request[q] = Idle /\ Active(c)
  /\ FlightOf(c, key) = {}
  /\ request' = [request EXCEPT ![q] = [Idle EXCEPT !.stage = "reload", !.compat = c,
                   !.session = compat[c].session, !.profile = compat[c].profile,
                   !.key = key, !.waiters = 1]]
  /\ UNCHANGED <<session, token, compat, assigned, open>>

\* joinAuthenticationFlight of one more caller.
JoinFlight(q) ==
  /\ Registered(request[q]) /\ request[q].waiters < MaxWaiters
  /\ request' = [request EXCEPT ![q].waiters = @ + 1]
  /\ UNCHANGED <<session, token, compat, assigned, open>>

\* leaveAuthenticationFlight of a caller who waits no longer; the last one cancels the flight.
LeaveFlight(q) ==
  /\ request[q].waiters > 0
  /\ request' = [request EXCEPT ![q] =
       [request[q] EXCEPT !.waiters = request[q].waiters - 1,
                          !.cancelled = IF request[q].waiters = 1 THEN TRUE ELSE request[q].cancelled]]
  /\ UNCHANGED <<session, token, compat, assigned, open>>

\* An authentication ends with an error that is not ErrInvalidToken: cancelled, past
\* compatAuthenticationOperationTimeout, or failed by the database, which also ends one of two
\* that wait for each other's lock on the session.  The credential stays as it is.
FailFlight(q) ==
  /\ request[q].key # "none"
  /\ request' = [request EXCEPT ![q] = Idle]
  /\ UNCHANGED <<session, token, compat, assigned, open>>

\* The session that ReloadLinkedPrincipal looks for and locks FOR SHARE.
Linked(q) ==
  LET s == request[q].session IN
  /\ Live(s) /\ session[s].profile = request[q].profile
  /\ session[s].refresh > 0 /\ session[s].grant > 0

ReloadLinked(q) ==
  /\ request[q].stage = "reload"
  /\ request' = [request EXCEPT ![q].stage = IF Linked(q) THEN "linked" ELSE "expel"]
  /\ UNCHANGED <<session, token, compat, assigned, open>>

\* The UPDATE waits for every other share of the row.
Alone(q) == Sharing(request[q].session) = {q}

\* validSessionScope, and the grant that a category-scoped session needs.
Agree(q) == session[request[q].session].scoped /\ request[q].profile \in assigned

\* The profile is closed now: the transaction ends without a write.
RejectLinked(q) ==
  /\ request[q].stage = "linked" /\ Agree(q) /\ request[q].profile \notin open
  /\ request' = [request EXCEPT ![q].stage = "expel"]
  /\ UNCHANGED <<session, token, compat, assigned, open>>

\* A session whose rows disagree is revoked, any other is touched; the transaction commits and
\* the outcome decides what becomes of the credential.
UpdateLinked(q) ==
  LET s == request[q].session IN
  /\ request[q].stage = "linked" /\ Alone(q)
  /\ Agree(q) => request[q].profile \in open
  /\ IF Agree(q) THEN UNCHANGED <<session, compat>>
                 ELSE session' = Revoked({s}) /\ compat' = CompatsRevoked({s})
  /\ request' = [(IF Agree(q) THEN request ELSE Disturbed(request, {s}))
                   EXCEPT ![q].stage = IF Agree(q) /\ Linked(q) THEN "touch" ELSE "expel"]
  /\ UNCHANGED <<token, assigned, open>>

\* The last statement of authenticateRow; the call answers with the session if it still finds
\* the row active.
TouchCompat(q) ==
  /\ request[q].stage = "touch"
  /\ request' = [request EXCEPT ![q] = Idle]
  /\ UNCHANGED <<session, token, compat, assigned, open>>

ExpelCompat(q) ==
  LET c == request[q].compat IN
  /\ request[q].stage = "expel"
  /\ compat' = IF compat[c].state = "active" THEN [compat EXCEPT ![c].state = "revoked"] ELSE compat
  /\ request' = [request EXCEPT ![q] = Idle]
  /\ UNCHANGED <<session, token, assigned, open>>

-----------------------------------------------------------------------------
(* Cleanup and time.                                                       *)

\* Revoked and expired sessions nobody holds (SKIP LOCKED).
Ended(s) == Exists(s) /\ (session[s].state = "revoked" \/ session[s].refresh = 0) /\ Sharing(s) = {}

Outdated(s, n) == token[s][n].state = "consumed" /\ token[s][n].age >= Retention

\* Sessions take their tokens and compatibility sessions with them.
Cleanup ==
  LET S == {s \in Sessions : Ended(s)} IN
  /\ S # {} \/ \E s \in Sessions, n \in Serials : Outdated(s, n)
  /\ session' = [s \in Sessions |->
       IF s \in S THEN [Cleared(session[s]) EXCEPT !.state = "gone", !.access = 0, !.refresh = 0,
                                                   !.scoped = TRUE, !.app = NoProfile]
       ELSE session[s]]
  /\ token' = [s \in Sessions |-> [n \in Serials |->
       IF n \in Drawn(s) /\ (s \in S \/ Outdated(s, n))
       THEN [state |-> "deleted", age |-> 0] ELSE token[s][n]]]
  /\ compat' = [c \in Compats |-> IF compat[c].session \in S
                                  THEN [compat[c] EXCEPT !.state = "gone", !.left = 0] ELSE compat[c]]
  /\ request' = Disturbed(request, S)
  /\ UNCHANGED <<assigned, open>>

Tick ==
  /\ session' = [s \in Sessions |-> [session[s] EXCEPT !.access = Max(@ - 1, 0),
                                       !.refresh = Max(@ - 1, 0), !.grant = Max(@ - 1, 0)]]
  /\ token' = [s \in Sessions |-> [n \in Serials |->
       IF token[s][n].state = "consumed" THEN [token[s][n] EXCEPT !.age = Least(@ + 1, Retention)]
       ELSE token[s][n]]]
  /\ compat' = [c \in Compats |-> [compat[c] EXCEPT !.left = Max(@ - 1, 0)]]
  /\ UNCHANGED <<assigned, open, request>>

-----------------------------------------------------------------------------
Continue(q) ==
  \/ AuthRevoke(q) \/ AuthClear(q) \/ EndRequest(q)
  \/ ReloadLinked(q) \/ RejectLinked(q) \/ UpdateLinked(q)
  \/ TouchCompat(q) \/ ExpelCompat(q) \/ FailFlight(q)

Next ==
  \/ \E s \in Sessions : \/ Login(s) \/ RevokeSession(s) \/ RevokeProfileSession(s)
                         \/ RevokeUnfinishedLinkedSession(s) \/ ClearSelection(s)
                         \/ MoveDevices(s) \/ DeviceMoves(s)
  \/ \E s \in Sessions, n \in Serials : Rotate(s, n) \/ RefreshRevokes(s, n) \/ LogoutWeb(s, n)
  \/ \E s \in Sessions, p \in Profiles : LoginJellyfinProfile(s, p)
  \/ UpdateAccount
  \/ \E s \in Sessions, p \in Profiles, linked \in BOOLEAN : Select(s, p, linked)
  \/ \E p \in Profiles : \/ RevokeProfileAccess(p) \/ GrantProfileAccess(p)
                         \/ ChangeProfileAccess(p) \/ DisableProfile(p) \/ ScheduleTurns(p)
                         \/ MoveProfiles(p) \/ RotateCredential(p)
  \/ \E q \in Requests, s \in Sessions : AuthRead(q, s)
  \/ \E q \in Requests, c \in Compats, key \in {"token", "id"} : CompatRead(q, c, key)
  \/ \E q \in Requests : UseSelection(q) \/ Continue(q) \/ JoinFlight(q) \/ LeaveFlight(q)
  \/ \E c \in Compats, s \in Sessions : Issue(c, s)
  \/ \E c \in Compats : RevokeCompat(c) \/ LogoutLinkedSession(c)
  \/ Cleanup
  \/ Tick

Spec == Init /\ [][Next]_vars

-----------------------------------------------------------------------------
(* Properties.                                                             *)

\* Every variable has its type: lifetimes stay within the configured ones.
TypeOK ==
  /\ session \in [Sessions -> Session]
  /\ token \in [Sessions -> [Serials -> Token]]
  /\ compat \in [Compats -> Compat]
  /\ assigned \subseteq Profiles
  /\ open \subseteq Profiles
  /\ request \in [Requests -> Request]

\* A live session has exactly one refresh token that works, however often and by whomever its
\* tokens are presented: refresh consumes the old one with the drawing of the new one.
OneWorkingToken == \A s \in Sessions : Live(s) => Cardinality(Tokens(s, "current")) = 1

\* No credential outlives what it rests on: the access token lives no longer than the session,
\* and a compatibility credential that would be accepted has a live session that refreshes at
\* least as long (refresh caps the access token, Issue the credential, a trigger revokes).
LifetimesNested ==
  /\ \A s \in Sessions : Live(s) => session[s].access <= session[s].refresh
  /\ \A c \in Compats : Active(c) => /\ Live(compat[c].session)
                                     /\ compat[c].left <= session[compat[c].session].refresh

\* Work is authorised by the selection its request began with: never by a later selection of
\* the same profile, nor after the session was revoked or the profile taken away.
WorkUnderItsSelection == [][\A q \in Requests : UseSelection(q) => ~request[q].stale]_vars

\* Nobody who waits for an authentication is answered with a cancellation that others caused by
\* leaving: who comes after the last caller left starts another one, beside the cancelled one
\* that may still run; and one authentication at a time is found under a key.
FlightsShared ==
  /\ \A q \in Requests : request[q].waiters > 0 => ~request[q].cancelled
  /\ \A c \in Compats, key \in {"token", "id"} : Cardinality(FlightOf(c, key)) <= 1
=============================================================================
