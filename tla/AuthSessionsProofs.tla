------------------------- MODULE AuthSessionsProofs -------------------------
(***************************************************************************)
(* Theorems about AuthSessions, for any number of sessions, compatibility  *)
(* sessions and concurrent authentications, any profiles and lifetimes.    *)
(***************************************************************************)
EXTENDS AuthSessions, FiniteSetTheorems, TLAPS

-----------------------------------------------------------------------------
(* Type correctness.  It needs that a row which is in use names the rows it *)
(* was made for.                                                            *)

RowsNamed ==
  /\ \A c \in Compats : compat[c].state # "unused" <=> compat[c].session \in Sessions
  /\ \A q \in Requests : request[q].stage # "idle" => request[q].session \in Sessions
  /\ \A q \in Requests : request[q].stage \in {"reload", "linked", "touch", "expel"} =>
                           request[q].compat \in Compats

TypeInv == TypeOK /\ RowsNamed

LEMMA Lifetimes ==
  /\ 0 \in 0..AccessTTL /\ AccessTTL \in 0..AccessTTL
  /\ 0 \in 0..RefreshTTL /\ RefreshTTL \in 0..RefreshTTL
  /\ 0 \in 0..Max(GrantTTL, RefreshTTL) /\ RefreshTTL \in 0..Max(GrantTTL, RefreshTTL)
  /\ GrantTTL \in 0..Max(GrantTTL, RefreshTTL)
  /\ \A n \in 0..RefreshTTL : n \in 0..Max(GrantTTL, RefreshTTL)
  /\ 0 \in 0..MaxSelections /\ 0 \in 0..Retention /\ 1 \in Serials
  /\ 0 \in 0..MaxWaiters /\ 1 \in 0..MaxWaiters
BY AuthSessionsAssumption DEF Max, Serials

\* The updates of a session row.
LEMMA SessionRows ==
  ASSUME NEW row \in Session
  PROVE  /\ Cleared(row) \in Session
         /\ [row EXCEPT !.state = "revoked"] \in Session
         /\ [Cleared(row) EXCEPT !.state = "revoked"] \in Session
         /\ [row EXCEPT !.scoped = FALSE] \in Session
         /\ \A life \in 0..AccessTTL : [row EXCEPT !.access = life] \in Session
         /\ [Cleared(row) EXCEPT !.state = "gone", !.access = 0, !.refresh = 0,
                                 !.scoped = TRUE, !.app = NoProfile] \in Session
         /\ [row EXCEPT !.access = Max(@ - 1, 0), !.refresh = Max(@ - 1, 0),
                        !.grant = Max(@ - 1, 0)] \in Session
<1>1. Cleared(row) \in Session
  BY Lifetimes DEF Cleared, Session
<1>2. ASSUME NEW r \in Session
      PROVE  /\ [r EXCEPT !.state = "revoked"] \in Session
             /\ [r EXCEPT !.scoped = FALSE] \in Session
             /\ \A life \in 0..AccessTTL : [r EXCEPT !.access = life] \in Session
             /\ [r EXCEPT !.state = "gone", !.access = 0, !.refresh = 0,
                          !.scoped = TRUE, !.app = NoProfile] \in Session
  BY Lifetimes DEF Session
<1>3. [row EXCEPT !.access = Max(@ - 1, 0), !.refresh = Max(@ - 1, 0),
                  !.grant = Max(@ - 1, 0)] \in Session
  <2> DEFINE limit == Max(GrantTTL, RefreshTTL)
  <2>1. limit \in Nat
    BY AuthSessionsAssumption DEF Max
  <2> HIDE DEF limit
  <2>2. \A n \in Nat : \A m \in 0..n : Max(m - 1, 0) \in 0..n
    BY DEF Max
  <2>3. AccessTTL \in Nat /\ RefreshTTL \in Nat
    BY AuthSessionsAssumption
  <2>4. row.access \in 0..AccessTTL /\ row.refresh \in 0..RefreshTTL /\ row.grant \in 0..limit
    BY DEF Session, limit
  <2>5. /\ Max(row.access - 1, 0) \in 0..AccessTTL
        /\ Max(row.refresh - 1, 0) \in 0..RefreshTTL
        /\ Max(row.grant - 1, 0) \in 0..limit
    BY <2>1, <2>2, <2>3, <2>4
  <2> QED BY <2>5 DEF Session, limit
<1> QED BY <1>1, <1>2, <1>3

\* Revoking a compatibility session, and the passing of its time.
LEMMA CompatRows ==
  ASSUME NEW row \in Compat
  PROVE  /\ [row EXCEPT !.state = "revoked"] \in Compat
         /\ [row EXCEPT !.state = "gone", !.left = 0] \in Compat
         /\ [row EXCEPT !.left = Max(@ - 1, 0)] \in Compat
<1>1. Max(row.left - 1, 0) \in 0..RefreshTTL
  BY AuthSessionsAssumption DEF Compat, Max
<1> QED BY <1>1, Lifetimes DEF Compat

\* The compatibility sessions keep the session they were issued to.
CompatKept ==
  /\ compat' \in [Compats -> Compat]
  /\ \A c \in Compats : /\ compat'[c].session = compat[c].session
                        /\ compat'[c].state = "unused" <=> compat[c].state = "unused"

LEMMA CompatsRevokedSome ==
  ASSUME TypeOK, NEW R \in SUBSET Compats,
         \A c \in R : compat[c].state # "unused",
         compat' = [c \in Compats |-> IF c \in R THEN [compat[c] EXCEPT !.state = "revoked"]
                                      ELSE compat[c]]
  PROVE  CompatKept
<1>1. ASSUME NEW c \in Compats
      PROVE  /\ compat'[c] \in Compat /\ compat'[c].session = compat[c].session
             /\ compat'[c].state = "unused" <=> compat[c].state = "unused"
  <2>1. compat[c] \in Compat /\ [compat[c] EXCEPT !.state = "revoked"] \in Compat
    BY CompatRows DEF TypeOK
  <2> QED BY <2>1 DEF Compat
<1> QED BY <1>1 DEF CompatKept

\* The compatibility sessions of ended sessions, or of a profile, are revoked.
LEMMA CompatsOfSessionsRevoked ==
  ASSUME TypeOK, NEW S \in SUBSET Sessions, compat' = CompatsRevoked(S)
  PROVE  CompatKept
<1> DEFINE R == {c \in Compats : /\ compat[c].session \in S /\ Live(compat[c].session)
                                 /\ compat[c].state = "active"}
<1>1. compat' = [c \in Compats |-> IF c \in R THEN [compat[c] EXCEPT !.state = "revoked"]
                                   ELSE compat[c]]
  BY DEF CompatsRevoked
<1> QED BY <1>1, CompatsRevokedSome

LEMMA CompatsOfProfileEnd ==
  ASSUME TypeOK, NEW p \in Profiles, compat' = CompatsOfProfileRevoked(p)
  PROVE  CompatKept
<1> DEFINE R == {c \in Compats : compat[c].profile = p /\ compat[c].state = "active"}
<1>1. compat' = [c \in Compats |-> IF c \in R THEN [compat[c] EXCEPT !.state = "revoked"]
                                   ELSE compat[c]]
  BY DEF CompatsOfProfileRevoked
<1> QED BY <1>1, CompatsRevokedSome

LEMMA IdleTyped == Idle \in Request
BY Lifetimes DEF Idle, Request

LEMMA DisturbedKept ==
  ASSUME TypeOK, NEW S \in SUBSET Sessions
  PROVE  /\ Disturbed(request, S) \in [Requests -> Request]
         /\ \A q \in Requests :
              /\ Disturbed(request, S)[q].session = request[q].session
              /\ Disturbed(request, S)[q].compat = request[q].compat
              /\ Disturbed(request, S)[q].stage = request[q].stage
              /\ Disturbed(request, S)[q].profile = request[q].profile
              /\ Disturbed(request, S)[q].context = request[q].context
              /\ Disturbed(request, S)[q].stale <=>
                   request[q].stale \/ (request[q].stage = "captured" /\ request[q].session \in S)
<1> DEFINE row(q) == IF request[q].stage = "captured" /\ request[q].session \in S
                     THEN [request[q] EXCEPT !.stale = TRUE] ELSE request[q]
<1>1. ASSUME NEW q \in Requests
      PROVE  /\ row(q) \in Request
             /\ row(q).session = request[q].session /\ row(q).compat = request[q].compat
             /\ row(q).stage = request[q].stage /\ row(q).profile = request[q].profile
             /\ row(q).context = request[q].context
             /\ row(q).stale <=>
                  request[q].stale \/ (request[q].stage = "captured" /\ request[q].session \in S)
  <2>1. request[q] \in Request
    BY DEF TypeOK
  <2> QED BY <2>1 DEF Request
<1>2. Disturbed(request, S) = [q \in Requests |-> row(q)]
  BY DEF Disturbed
<1> HIDE DEF row
<1> QED BY <1>1, <1>2

LinkStages == {"reload", "linked", "touch", "expel"}

\* A request goes on about the rows it began with, or is over.
RequestKept ==
  /\ request' \in [Requests -> Request]
  /\ \A q \in Requests :
       \/ request'[q] = Idle
       \/ /\ request'[q].session = request[q].session /\ request'[q].compat = request[q].compat
          /\ request[q].stage = "idle" => request'[q].stage = "idle"
          /\ request'[q].stage \in LinkStages => request[q].stage \in LinkStages

LEMMA RequestsDisturbed ==
  ASSUME TypeOK, NEW S \in SUBSET Sessions, request' = Disturbed(request, S)
  PROVE  RequestKept
BY DisturbedKept DEF RequestKept

LEMMA RequestOver ==
  ASSUME TypeOK, NEW q \in Requests,
         \/ request' = [request EXCEPT ![q] = Idle]
         \/ \E S \in SUBSET Sessions : request' = [Disturbed(request, S) EXCEPT ![q] = Idle]
  PROVE  RequestKept
<1>1. CASE request' = [request EXCEPT ![q] = Idle]
  BY <1>1, IdleTyped DEF RequestKept, TypeOK
<1>2. ASSUME NEW S \in SUBSET Sessions, request' = [Disturbed(request, S) EXCEPT ![q] = Idle]
      PROVE  RequestKept
  <2> DEFINE D == Disturbed(request, S)
  <2>1. D \in [Requests -> Request]
        /\ \A r \in Requests : /\ D[r].session = request[r].session
                               /\ D[r].compat = request[r].compat /\ D[r].stage = request[r].stage
    BY DisturbedKept
  <2> HIDE DEF D
  <2>2. request' = [D EXCEPT ![q] = Idle]
    BY <1>2 DEF D
  <2> QED BY <2>1, <2>2, IdleTyped DEF RequestKept
<1> QED BY <1>1, <1>2

LEMMA RequestMoves ==
  ASSUME TypeOK, NEW q \in Requests, request[q].stage \in LinkStages,
         NEW stage \in LinkStages, NEW D \in [Requests -> Request],
         \A r \in Requests : /\ D[r].session = request[r].session
                             /\ D[r].compat = request[r].compat /\ D[r].stage = request[r].stage,
         request' = [D EXCEPT ![q].stage = stage]
  PROVE  RequestKept
<1> DEFINE row == [D[q] EXCEPT !.stage = stage]
<1>1. row \in Request /\ row.session = D[q].session /\ row.compat = D[q].compat /\ row.stage = stage
  BY DEF Request, LinkStages
<1> HIDE DEF row
<1>2. request' = [D EXCEPT ![q] = row]
  BY DEF row
<1> QED BY <1>1, <1>2 DEF RequestKept, LinkStages

\* Callers come to a flight and leave it: nothing else of the request changes.
LEMMA CallersMove ==
  ASSUME TypeOK, NEW q \in Requests, JoinFlight(q) \/ LeaveFlight(q)
  PROVE  /\ request' \in [Requests -> Request] /\ UNCHANGED <<session, token, compat, assigned, open>>
         /\ \A r \in Requests :
              /\ request'[r].session = request[r].session
              /\ request'[r].compat = request[r].compat
              /\ request'[r].stage = request[r].stage
              /\ request'[r].profile = request[r].profile
              /\ request'[r].context = request[r].context
              /\ request'[r].stale = request[r].stale
<1>1. request \in [Requests -> Request] /\ request[q] \in Request /\ MaxWaiters \in Nat
  BY AuthSessionsAssumption DEF TypeOK
<1>2. CASE JoinFlight(q)
  <2> DEFINE row == [request[q] EXCEPT !.waiters = @ + 1]
  <2>1. row \in Request
    BY <1>1, <1>2 DEF JoinFlight, Request
  <2>2. request' = [request EXCEPT ![q] = row]
    BY <1>2 DEF JoinFlight
  <2> QED BY <1>1, <1>2, <2>1, <2>2 DEF JoinFlight, Request
<1>3. CASE LeaveFlight(q)
  <2> DEFINE over == IF request[q].waiters = 1 THEN TRUE ELSE request[q].cancelled
             rest == request[q].waiters - 1
             row == [request[q] EXCEPT !.waiters = rest, !.cancelled = over]
  <2>0. request[q].cancelled \in BOOLEAN /\ rest \in 0..MaxWaiters
    BY <1>1, <1>3 DEF LeaveFlight, Request
  <2>3. over \in BOOLEAN
    BY <2>0, Zenon
  <2>2. request' = [request EXCEPT ![q] = row]
    BY <1>3 DEF LeaveFlight
  <2> HIDE DEF over, rest
  <2>1. /\ row \in Request
        /\ row.session = request[q].session /\ row.compat = request[q].compat
        /\ row.stage = request[q].stage /\ row.profile = request[q].profile
        /\ row.context = request[q].context /\ row.stale = request[q].stale
    BY <1>1, <2>0, <2>3 DEF Request
  <2> HIDE DEF row
  <2> QED BY <1>1, <1>3, <2>1, <2>2 DEF LeaveFlight
<1> QED BY <1>2, <1>3

LEMMA TypeKept ==
  ASSUME TypeInv,
         session' \in [Sessions -> Session], token' \in [Sessions -> [Serials -> Token]],
         CompatKept \/ UNCHANGED compat, RequestKept \/ UNCHANGED request,
         assigned' \subseteq Profiles, open' \subseteq Profiles
  PROVE  TypeInv'
<1>1. TypeOK'
  BY DEF TypeInv, TypeOK, CompatKept, RequestKept
<1>2. \A c \in Compats : compat'[c].state # "unused" <=> compat'[c].session \in Sessions
  BY DEF TypeInv, RowsNamed, CompatKept
<1>3. ASSUME RequestKept
      PROVE  \A q \in Requests :
               /\ request'[q].stage # "idle" => request'[q].session \in Sessions
               /\ request'[q].stage \in LinkStages => request'[q].compat \in Compats
  BY <1>3 DEF TypeInv, RowsNamed, RequestKept, LinkStages, Idle
<1> QED BY <1>1, <1>2, <1>3 DEF TypeInv, RowsNamed, LinkStages

LEMMA TypeInit == Init => TypeInv
<1> SUFFICES ASSUME Init PROVE TypeInv
  OBVIOUS
<1>1. session \in [Sessions -> Session]
  <2>1. [state |-> "unused", profile |-> NoProfile, grant |-> 0, context |-> 0, drawn |-> 0,
         access |-> 0, refresh |-> 0, scoped |-> TRUE, app |-> NoProfile] \in Session
    BY Lifetimes DEF Session
  <2> QED BY <2>1 DEF Init
<1>2. token \in [Sessions -> [Serials -> Token]]
  BY Lifetimes DEF Init, NoToken, Token
<1>3. compat \in [Compats -> Compat]
  BY Lifetimes DEF Init, Compat
<1>4. RowsNamed
  BY AuthSessionsAssumption DEF Init, RowsNamed, Idle
<1> QED BY <1>1, <1>2, <1>3, <1>4, IdleTyped DEF Init, TypeInv, TypeOK

\* The sets of sessions that the operations end or clear.
LEMMA SessionRowsOf ==
  ASSUME TypeOK, NEW S \in SUBSET Sessions
  PROVE  /\ Revoked(S) \in [Sessions -> Session]
         /\ \A p \in Profiles : SelectionsCleared(p) \in [Sessions -> Session]
         /\ [s \in Sessions |-> IF s \in S THEN [Cleared(session[s]) EXCEPT !.state = "revoked"]
                                ELSE session[s]] \in [Sessions -> Session]
BY SessionRows DEF Revoked, SelectionsCleared, TypeOK

LEMMA EndSessionsTyped ==
  ASSUME TypeInv, NEW S, EndSessions(S), S \subseteq Sessions
  PROVE  TypeInv'
<1>1. TypeOK /\ S \in SUBSET Sessions
  BY DEF TypeInv
<1>2. session' = Revoked(S) /\ compat' = CompatsRevoked(S) /\ request' = Disturbed(request, S)
      /\ UNCHANGED <<token, assigned, open>>
  BY DEF EndSessions
<1> QED BY <1>1, <1>2, SessionRowsOf, CompatsOfSessionsRevoked, RequestsDisturbed, TypeKept DEF TypeOK

LEMMA CreatedTyped ==
  ASSUME TypeInv, NEW s \in Sessions, NEW row \in Session, Created(s, row)
  PROVE  TypeInv'
<1>1. [token[s] EXCEPT ![1] = [state |-> "current", age |-> 0]] \in [Serials -> Token]
  BY Lifetimes DEF TypeInv, TypeOK, Token
<1>2. token' \in [Sessions -> [Serials -> Token]]
  BY <1>1 DEF Created, TypeInv, TypeOK
<1> QED BY <1>2, TypeKept DEF Created, TypeInv, TypeOK

\* The operations that revoke sessions in one transaction.
Revocation ==
  \/ \E s \in Sessions : \/ RevokeSession(s) \/ RevokeProfileSession(s)
                         \/ RevokeUnfinishedLinkedSession(s)
  \/ \E s \in Sessions, n \in Serials : RefreshRevokes(s, n) \/ LogoutWeb(s, n)
  \/ \E p \in Profiles : RotateCredential(p)
  \/ \E c \in Compats : LogoutLinkedSession(c)
  \/ UpdateAccount

LEMMA RevocationEnds ==
  ASSUME RowsNamed, Revocation
  PROVE  \E S \in SUBSET Sessions : EndSessions(S)
<1>1. ASSUME NEW s \in Sessions,
             \/ RevokeSession(s) \/ RevokeProfileSession(s) \/ RevokeUnfinishedLinkedSession(s)
             \/ \E n \in Serials : RefreshRevokes(s, n) \/ LogoutWeb(s, n)
      PROVE  EndSessions({s})
  BY <1>1
  DEF RevokeSession, RevokeProfileSession, RevokeUnfinishedLinkedSession, RefreshRevokes, LogoutWeb
<1>2. ASSUME NEW p \in Profiles, RotateCredential(p)
      PROVE  EndSessions({s \in Sessions : session[s].app = p /\ Live(s)})
  BY <1>2 DEF RotateCredential
<1>3. ASSUME NEW c \in Compats, LogoutLinkedSession(c)
      PROVE  EndSessions({compat[c].session}) /\ compat[c].session \in Sessions
  BY <1>3 DEF LogoutLinkedSession, RowsNamed
<1>4. ASSUME UpdateAccount PROVE EndSessions({s \in Sessions : Live(s)})
  BY <1>4 DEF UpdateAccount
<1>5. \A s \in Sessions : {s} \in SUBSET Sessions
  OBVIOUS
<1>6. /\ \A p \in Profiles : {s \in Sessions : session[s].app = p /\ Live(s)} \in SUBSET Sessions
      /\ {s \in Sessions : Live(s)} \in SUBSET Sessions
  OBVIOUS
<1> HIDE DEF RotateCredential
<1>7. CASE \E p \in Profiles : RotateCredential(p)
  BY <1>2, <1>6, <1>7
<1>8. CASE \E c \in Compats : LogoutLinkedSession(c)
  BY <1>3, <1>5, <1>8
<1>9. CASE UpdateAccount
  BY <1>4, <1>6, <1>9
<1> QED BY <1>1, <1>5, <1>7, <1>8, <1>9 DEF Revocation

LEMMA TypeStep == TypeInv /\ [Next]_vars => TypeInv'
<1> SUFFICES ASSUME TypeInv, [Next]_vars PROVE TypeInv'
  OBVIOUS
<1>0. /\ TypeOK /\ RowsNamed /\ \A s \in Sessions : session[s] \in Session
      /\ session \in [Sessions -> Session] /\ token \in [Sessions -> [Serials -> Token]]
      /\ compat \in [Compats -> Compat] /\ request \in [Requests -> Request]
      /\ assigned \subseteq Profiles /\ open \subseteq Profiles
  BY DEF TypeInv, TypeOK
<1>1. CASE Revocation
  BY <1>0, <1>1, RevocationEnds, EndSessionsTyped
<1>2. ASSUME NEW s \in Sessions, Login(s) PROVE TypeInv'
  <2>1. FreshSession \in Session
    BY Lifetimes DEF FreshSession, Session
  <2> QED BY <1>2, <2>1, CreatedTyped DEF Login
<1>3. ASSUME NEW s \in Sessions, NEW p \in Profiles, LoginJellyfinProfile(s, p) PROVE TypeInv'
  <2> DEFINE row == [FreshSession EXCEPT !.profile = p, !.grant = RefreshTTL, !.context = 1,
                                         !.drawn = 1, !.app = p]
  <2>1. 1 \in 0..MaxSelections
    BY <1>3, AuthSessionsAssumption DEF LoginJellyfinProfile
  <2>2. row \in Session
    BY <2>1, Lifetimes DEF FreshSession, Session
  <2>3. Created(s, row)
    BY <1>3 DEF LoginJellyfinProfile
  <2> HIDE DEF row
  <2> QED BY <2>2, <2>3, CreatedTyped
<1>4. ASSUME NEW s \in Sessions, NEW n \in Serials, Rotate(s, n) PROVE TypeInv'
  <2>1. PICK new \in Serials : token' = [token EXCEPT ![s] = TokensRotated(s, n, new)]
    BY <1>4 DEF Rotate
  <2>2. TokensRotated(s, n, new) \in [Serials -> Token]
    BY <1>0, Lifetimes DEF TokensRotated, Token
  <2>3. AccessLife(s) \in 0..AccessTTL
    BY <1>0, AuthSessionsAssumption DEF AccessLife, Least, Session
  <2>4. [session[s] EXCEPT !.access = AccessLife(s)] \in Session
    BY <1>0, <2>3, SessionRows
  <2>5. session' \in [Sessions -> Session]
    BY <1>0, <1>4, <2>4 DEF Rotate
  <2> QED BY <1>0, <1>4, <2>1, <2>2, <2>5, TypeKept DEF Rotate
<1>5. ASSUME NEW s \in Sessions, NEW p \in Profiles, NEW linked \in BOOLEAN, Select(s, p, linked)
      PROVE  TypeInv'
  <2> DEFINE life == SelectionLife(s, linked)
             next == session[s].drawn + 1
             row == [session[s] EXCEPT !.profile = p, !.grant = life, !.context = next, !.drawn = next]
  <2>1. life \in 0..Max(GrantTTL, RefreshTTL) /\ next \in 0..MaxSelections
    BY <1>0, <1>5, Lifetimes, AuthSessionsAssumption DEF Select, SelectionLife, Session
  <2> HIDE DEF life, next
  <2>2. row \in Session
    BY <1>0, <2>1 DEF Session
  <2>3. session' = [session EXCEPT ![s] = row]
    BY <1>0, <1>5 DEF Select, life, next, Session
  <2> HIDE DEF row
  <2>4. session' \in [Sessions -> Session] /\ {s} \in SUBSET Sessions
    BY <1>0, <2>2, <2>3
  <2> QED BY <1>0, <1>5, <2>4, RequestsDisturbed, TypeKept DEF Select
<1>6. ASSUME NEW s \in Sessions, ClearSelection(s) PROVE TypeInv'
  <2>1. session' \in [Sessions -> Session] /\ {s} \in SUBSET Sessions
    BY <1>0, <1>6, SessionRows DEF ClearSelection
  <2> QED BY <1>0, <1>6, <2>1, RequestsDisturbed, TypeKept DEF ClearSelection
<1>7. ASSUME NEW p \in Profiles, RevokeProfileAccess(p) \/ ChangeProfileAccess(p) PROVE TypeInv'
  <2>1. {s \in Sessions : session[s].profile = p} \in SUBSET Sessions
    OBVIOUS
  <2>2. /\ session' = SelectionsCleared(p) /\ compat' = CompatsOfProfileRevoked(p)
        /\ request' = Disturbed(request, {s \in Sessions : session[s].profile = p})
        /\ token' = token /\ assigned' \subseteq Profiles /\ open' \subseteq Profiles
    BY <1>0, <1>7 DEF RevokeProfileAccess, ChangeProfileAccess
  <2> QED BY <1>0, <2>1, <2>2, SessionRowsOf, CompatsOfProfileEnd, RequestsDisturbed, TypeKept
<1>8. ASSUME NEW p \in Profiles, GrantProfileAccess(p) \/ ScheduleTurns(p) PROVE TypeInv'
  BY <1>0, <1>8, TypeKept DEF GrantProfileAccess, ScheduleTurns
<1>9. ASSUME NEW S \in SUBSET Sessions, EndSelected(S), CompatKept,
             token' = token, assigned' \subseteq Profiles, open' \subseteq Profiles
      PROVE  TypeInv'
  BY <1>0, <1>9, SessionRowsOf, RequestsDisturbed, TypeKept DEF EndSelected
<1>10. ASSUME NEW p \in Profiles, DisableProfile(p) PROVE TypeInv'
  <2> DEFINE S == SessionsOf(p) \cup {s \in Sessions : Exists(s) /\ session[s].app = p}
             R == {c \in Compats : compat[c].state = "active" /\ (compat[c].profile = p \/ compat[c].session \in S)}
  <2>1. S \in SUBSET Sessions
    BY DEF SessionsOf
  <2>2. EndSelected(S) /\ token' = token /\ assigned' \subseteq Profiles /\ open' \subseteq Profiles
        /\ compat' = [c \in Compats |-> IF c \in R THEN [compat[c] EXCEPT !.state = "revoked"]
                                        ELSE compat[c]]
    BY <1>0, <1>10 DEF DisableProfile
  <2>3. R \in SUBSET Compats /\ \A c \in R : compat[c].state # "unused"
    OBVIOUS
  <2> HIDE DEF S, R
  <2>4. CompatKept
    BY <1>0, <2>2, <2>3, CompatsRevokedSome
  <2> QED BY <1>9, <2>1, <2>2, <2>4
<1>11. ASSUME NEW p \in Profiles, MoveProfiles(p) PROVE TypeInv'
  <2> DEFINE S == {s \in Sessions : Exists(s) /\ session[s].profile = p}
  <2>1. S \in SUBSET Sessions
    OBVIOUS
  <2>2. EndSelected(S) /\ compat' = CompatsRevoked(S) /\ UNCHANGED <<token, assigned, open>>
    BY <1>11 DEF MoveProfiles
  <2> HIDE DEF S
  <2> QED BY <1>0, <1>9, <2>1, <2>2, CompatsOfSessionsRevoked
<1>12. ASSUME NEW s \in Sessions, MoveDevices(s) PROVE TypeInv'
  <2>1. {s} \in SUBSET Sessions
    OBVIOUS
  <2> QED BY <1>0, <1>9, <1>12, <2>1, CompatsOfSessionsRevoked DEF MoveDevices
<1>13. ASSUME NEW s \in Sessions, DeviceMoves(s) PROVE TypeInv'
  <2>1. session' \in [Sessions -> Session]
    BY <1>0, <1>13, SessionRows DEF DeviceMoves
  <2> QED BY <1>0, <1>13, <2>1, TypeKept DEF DeviceMoves
<1>14. ASSUME NEW q \in Requests, NEW s \in Sessions, AuthRead(q, s) PROVE TypeInv'
  <2>1. PICK stage \in {"revoke", "clear", "captured"} :
          request' = [request EXCEPT ![q] =
            [Idle EXCEPT !.session = s, !.profile = session[s].profile,
                         !.context = session[s].context, !.stage = stage]]
    BY <1>14 DEF AuthRead
  <2> DEFINE row == [Idle EXCEPT !.session = s, !.profile = session[s].profile,
                                 !.context = session[s].context, !.stage = stage]
  <2>2. row \in Request /\ row.session = s /\ row.stage \notin LinkStages
    BY <1>0, IdleTyped DEF Request, Session, LinkStages, Idle
  <2>3. request' = [request EXCEPT ![q] = row]
    BY <2>1
  <2> HIDE DEF row
  <2>4. request' \in [Requests -> Request]
    BY <1>0, <2>2, <2>3
  <2>5. RowsNamed'
    BY <1>0, <1>14, <2>2, <2>3 DEF AuthRead, RowsNamed, LinkStages
  <2> QED BY <1>0, <1>14, <2>4, <2>5 DEF AuthRead, TypeInv, TypeOK
<1>15. ASSUME NEW q \in Requests, NEW c \in Compats, NEW key \in {"token", "id"}, CompatRead(q, c, key)
      PROVE  TypeInv'
  <2> DEFINE row == [Idle EXCEPT !.stage = "reload", !.compat = c, !.session = compat[c].session,
                                 !.profile = compat[c].profile, !.key = key, !.waiters = 1]
  <2>1. row \in Request /\ row.session = compat[c].session /\ row.compat = c
    BY <1>0, IdleTyped, Lifetimes DEF Request, Compat, Idle
  <2>2. compat[c].session \in Sessions
    BY <1>0, <1>15 DEF CompatRead, Active, RowsNamed
  <2>3. request' = [request EXCEPT ![q] = row]
    BY <1>15 DEF CompatRead
  <2> HIDE DEF row
  <2>4. request' \in [Requests -> Request]
    BY <1>0, <2>1, <2>3
  <2>5. RowsNamed'
    BY <1>0, <1>15, <2>1, <2>2, <2>3 DEF CompatRead, RowsNamed
  <2> QED BY <1>0, <1>15, <2>4, <2>5 DEF CompatRead, TypeInv, TypeOK
<1>16. ASSUME NEW q \in Requests, UseSelection(q) \/ EndRequest(q) \/ FailFlight(q) \/ TouchCompat(q)
       PROVE  TypeInv'
  BY <1>0, <1>16, RequestOver, TypeKept DEF UseSelection, EndRequest, FailFlight, TouchCompat
<1>17. ASSUME NEW q \in Requests, AuthRevoke(q) PROVE TypeInv'
  <2> DEFINE s == request[q].session
  <2>1. {s} \in SUBSET Sessions
    BY <1>0, <1>17 DEF AuthRevoke, RowsNamed
  <2>2. RequestKept
    BY <1>0, <1>17, <2>1, RequestOver DEF AuthRevoke
  <2>3. (session' = Revoked({s}) /\ compat' = CompatsRevoked({s})) \/ UNCHANGED <<session, compat>>
    BY <1>17 DEF AuthRevoke
  <2> QED BY <1>0, <1>17, <2>1, <2>2, <2>3, SessionRowsOf, CompatsOfSessionsRevoked, TypeKept
          DEF AuthRevoke
<1>18. ASSUME NEW q \in Requests, AuthClear(q) PROVE TypeInv'
  <2> DEFINE s == request[q].session
             p == request[q].profile
             R == {c \in Compats : compat[c].session = s /\ compat[c].profile = p /\ compat[c].state = "active"}
  <2>1. s \in Sessions /\ {s} \in SUBSET Sessions
    BY <1>0, <1>18 DEF AuthClear, RowsNamed
  <2>2. RequestKept
    BY <1>0, <1>18, <2>1, RequestOver DEF AuthClear
  <2>3. \/ UNCHANGED <<session, compat>>
        \/ /\ session' = [session EXCEPT ![s] = Cleared(session[s])]
           /\ compat' = [c \in Compats |-> IF c \in R THEN [compat[c] EXCEPT !.state = "revoked"]
                                           ELSE compat[c]]
    BY <1>18 DEF AuthClear
  <2>4. R \in SUBSET Compats /\ \A c \in R : compat[c].state # "unused"
    OBVIOUS
  <2> HIDE DEF R, s
  <2>5. session' \in [Sessions -> Session]
    <3>1. Cleared(session[s]) \in Session
      BY <1>0, <2>1, SessionRows
    <3> QED
      BY <1>0, <2>1, <2>3, <3>1
  <2>6. CompatKept \/ UNCHANGED compat
    BY <1>0, <2>3, <2>4, CompatsRevokedSome
  <2> QED BY <1>0, <1>18, <2>2, <2>5, <2>6, TypeKept DEF AuthClear
<1>19. ASSUME NEW q \in Requests, ReloadLinked(q) \/ RejectLinked(q) PROVE TypeInv'
  <2>1. PICK stage \in LinkStages : request' = [request EXCEPT ![q].stage = stage]
    BY <1>19 DEF ReloadLinked, RejectLinked, LinkStages
  <2>2. request[q].stage \in LinkStages
    BY <1>19 DEF ReloadLinked, RejectLinked, LinkStages
  <2>3. RequestKept
    BY <1>0, <2>1, <2>2, RequestMoves
  <2> QED BY <1>0, <1>19, <2>3, TypeKept DEF ReloadLinked, RejectLinked
<1>20. ASSUME NEW q \in Requests, UpdateLinked(q) PROVE TypeInv'
  <2> DEFINE s == request[q].session
             D == IF Agree(q) THEN request ELSE Disturbed(request, {s})
  <2>1. s \in Sessions /\ {s} \in SUBSET Sessions /\ request[q].stage \in LinkStages
    BY <1>0, <1>20 DEF UpdateLinked, RowsNamed, LinkStages
  <2>2. PICK stage \in LinkStages : request' = [D EXCEPT ![q].stage = stage]
    BY <1>20 DEF UpdateLinked, LinkStages
  <2>3. /\ D \in [Requests -> Request]
        /\ \A r \in Requests : /\ D[r].session = request[r].session
                               /\ D[r].compat = request[r].compat /\ D[r].stage = request[r].stage
    BY <1>0, <2>1, DisturbedKept
  <2>4. (session' = Revoked({s}) /\ compat' = CompatsRevoked({s})) \/ UNCHANGED <<session, compat>>
    BY <1>20 DEF UpdateLinked
  <2> HIDE DEF D
  <2>5. RequestKept
    BY <1>0, <2>1, <2>2, <2>3, RequestMoves
  <2> QED BY <1>0, <1>20, <2>1, <2>4, <2>5, SessionRowsOf, CompatsOfSessionsRevoked, TypeKept
          DEF UpdateLinked
<1>21. ASSUME NEW q \in Requests, ExpelCompat(q) PROVE TypeInv'
  <2> DEFINE c == request[q].compat
             R == {d \in Compats : d = c /\ compat[c].state = "active"}
  <2>1. compat' = [d \in Compats |-> IF d \in R THEN [compat[d] EXCEPT !.state = "revoked"]
                                     ELSE compat[d]]
    BY <1>0, <1>21 DEF ExpelCompat
  <2>2. R \in SUBSET Compats /\ \A d \in R : compat[d].state # "unused"
    OBVIOUS
  <2> HIDE DEF R
  <2>3. CompatKept
    BY <1>0, <2>1, <2>2, CompatsRevokedSome
  <2> QED BY <1>0, <1>21, <2>3, RequestOver, TypeKept DEF ExpelCompat
<1>22. ASSUME NEW c \in Compats, NEW s \in Sessions, Issue(c, s) PROVE TypeInv'
  <2>1. PICK life \in 1..RefreshTTL :
          compat' = [compat EXCEPT ![c] = [state |-> "active", session |-> s,
                                           profile |-> session[s].profile, left |-> life]]
    BY <1>22 DEF Issue
  <2>2. [state |-> "active", session |-> s, profile |-> session[s].profile, left |-> life] \in Compat
    BY <1>0 DEF Compat, Session
  <2>3. compat' \in [Compats -> Compat] /\ RowsNamed'
    BY <1>0, <1>22, <2>1, <2>2 DEF Issue, RowsNamed
  <2> QED BY <1>0, <1>22, <2>3 DEF Issue, TypeInv, TypeOK
<1>23. ASSUME NEW c \in Compats, RevokeCompat(c) PROVE TypeInv'
  <2> DEFINE R == {c}
  <2>1. compat' = [d \in Compats |-> IF d \in R THEN [compat[d] EXCEPT !.state = "revoked"]
                                     ELSE compat[d]]
        /\ R \in SUBSET Compats /\ \A d \in R : compat[d].state # "unused"
    BY <1>0, <1>23 DEF RevokeCompat
  <2> HIDE DEF R
  <2>2. CompatKept
    BY <1>0, <2>1, CompatsRevokedSome
  <2> QED BY <1>0, <1>23, <2>2, TypeKept DEF RevokeCompat
<1>24. CASE Cleanup
  <2> DEFINE S == {s \in Sessions : Ended(s)}
  <2>1. S \in SUBSET Sessions /\ request' = Disturbed(request, S)
    BY <1>24 DEF Cleanup
  <2>2. session' \in [Sessions -> Session]
    BY <1>0, <1>24, SessionRows DEF Cleanup
  <2>3. token' \in [Sessions -> [Serials -> Token]]
    BY <1>0, <1>24, Lifetimes DEF Cleanup, Token
  <2>4. CompatKept
    <3>1. ASSUME NEW c \in Compats
          PROVE  /\ compat'[c] \in Compat /\ compat'[c].session = compat[c].session
                 /\ compat'[c].state = "unused" <=> compat[c].state = "unused"
      <4>1. compat[c] \in Compat /\ [compat[c] EXCEPT !.state = "gone", !.left = 0] \in Compat
        BY <1>0, CompatRows
      <4>2. compat'[c] = IF compat[c].session \in S
                         THEN [compat[c] EXCEPT !.state = "gone", !.left = 0] ELSE compat[c]
        BY <1>24 DEF Cleanup
      <4>3. compat[c].session \in S => compat[c].state # "unused"
        BY <1>0, <2>1 DEF RowsNamed
      <4> HIDE DEF S
      <4> QED BY <4>1, <4>2, <4>3 DEF Compat
    <3> QED BY <1>24, <3>1 DEF Cleanup, CompatKept
  <2> HIDE DEF S
  <2> QED BY <1>0, <1>24, <2>1, <2>2, <2>3, <2>4, RequestsDisturbed, TypeKept DEF Cleanup
<1>25. CASE Tick
  <2>1. session' \in [Sessions -> Session]
    BY <1>0, <1>25, SessionRows DEF Tick
  <2>2. token' \in [Sessions -> [Serials -> Token]]
    <3>1. \A t \in Token : Least(t.age + 1, Retention) \in 0..Retention
      BY AuthSessionsAssumption DEF Token, Least
    <3>2. \A t \in Token : [t EXCEPT !.age = Least(@ + 1, Retention)] \in Token
      BY <3>1 DEF Token
    <3> QED BY <1>0, <1>25, <3>2 DEF Tick
  <2>3. CompatKept
    <3>1. ASSUME NEW c \in Compats
          PROVE  /\ compat'[c] \in Compat /\ compat'[c].session = compat[c].session
                 /\ compat'[c].state = "unused" <=> compat[c].state = "unused"
      <4>1. compat[c] \in Compat /\ [compat[c] EXCEPT !.left = Max(@ - 1, 0)] \in Compat
        BY <1>0, CompatRows
      <4>2. compat'[c] = [compat[c] EXCEPT !.left = Max(@ - 1, 0)]
        BY <1>25 DEF Tick
      <4> QED BY <4>1, <4>2 DEF Compat
    <3> QED BY <1>25, <3>1 DEF Tick, CompatKept
  <2> QED BY <1>0, <1>25, <2>1, <2>2, <2>3, TypeKept DEF Tick
<1>27. ASSUME NEW q \in Requests, JoinFlight(q) \/ LeaveFlight(q) PROVE TypeInv'
  BY <1>0, <1>27, CallersMove, TypeKept DEF RequestKept, TypeOK
<1>26. CASE UNCHANGED vars
  BY <1>0, <1>26, TypeKept DEF vars
<1> QED
  BY <1>1, <1>2, <1>3, <1>4, <1>5, <1>6, <1>7, <1>8, <1>10, <1>11, <1>12, <1>13, <1>14, <1>15,
     <1>16, <1>17, <1>18, <1>19, <1>20, <1>21, <1>22, <1>23, <1>24, <1>25, <1>26, <1>27
  DEF Next, Continue, Revocation

\* The rows of sessions, tokens, compatibility sessions and requests keep their types, lifetimes and
\* selection numbers stay within their limits, and no row points to another that never was.
THEOREM AuthTypeCorrect == Spec => []TypeOK
<1>1. TypeInv => TypeOK
  BY DEF TypeInv
<1> QED BY <1>1, TypeInit, TypeStep, PTL DEF Spec

-----------------------------------------------------------------------------
(* The operations that make nothing new: they end sessions, take selections *)
(* and compatibility sessions away, and let requests go on.  Three facts    *)
(* about them serve all the invariants below.                               *)

\* A session is as it was, or has ended; its selection is as it was, or gone.
SessionsOnlyEnd ==
  \A s \in Sessions :
    /\ session'[s].drawn = session[s].drawn
    /\ \/ session'[s].context = session[s].context /\ session'[s].profile = session[s].profile
       \/ session'[s].context = 0 /\ session'[s].profile = NoProfile
    /\ \/ /\ session'[s].state = session[s].state
          /\ session'[s].access = session[s].access /\ session'[s].refresh = session[s].refresh
       \/ session[s].state # "unused" /\ session'[s].state \in {"revoked", "gone"}

\* A compatibility session that stays active is as it was, and did not lose its session.
CompatsFollow ==
  \A c \in Compats : compat'[c].state = "active" =>
    /\ compat'[c] = compat[c]
    /\ compat[c].session \in Sessions /\ Live(compat[c].session) =>
         session'[compat[c].session].state = "live"

\* A request stays with its session; one that has captured a selection is told when that ends.
FollowsSelection(q) ==
  /\ request[q].stage = "captured"
  /\ request'[q].profile = request[q].profile /\ request'[q].context = request[q].context
  /\ request'[q].stale => \/ request[q].stale
                          \/ session'[request[q].session].state # "live"
                          \/ session'[request[q].session].context = 0

RequestsFollow ==
  \A q \in Requests : request'[q].stage # "idle" =>
    /\ request[q].stage # "idle" /\ request'[q].session = request[q].session
    /\ request'[q].stage = "captured" => FollowsSelection(q)

\* A step of a request other than capturing a selection.
GoesOn(q) ==
  /\ request[q].stage # "idle" /\ request'[q].session = request[q].session
  /\ request'[q].stage # "captured"

Quiet == SessionsOnlyEnd /\ CompatsFollow /\ RequestsFollow

LEMMA QuietIfSame ==
  /\ TypeOK /\ UNCHANGED session => SessionsOnlyEnd
  /\ TypeOK /\ UNCHANGED <<session, compat>> => CompatsFollow
  /\ TypeOK /\ UNCHANGED request => RequestsFollow
BY DEF SessionsOnlyEnd, CompatsFollow, RequestsFollow, FollowsSelection, Live

\* What the requests of the sessions S see when those lose their selection.
LEMMA DisturbedFollow ==
  ASSUME TypeOK, NEW S \in SUBSET Sessions,
         \A s \in S : session'[s].state # "live" \/ session'[s].context = 0,
         \A q \in Requests : \/ request'[q].stage = "idle" \/ GoesOn(q)
                             \/ request'[q] = Disturbed(request, S)[q]
  PROVE  RequestsFollow
<1> SUFFICES ASSUME NEW q \in Requests, request'[q].stage # "idle",
                    request'[q] = Disturbed(request, S)[q]
             PROVE  /\ request[q].stage # "idle" /\ request'[q].session = request[q].session
                    /\ request'[q].stage = "captured" => FollowsSelection(q)
  BY DEF RequestsFollow, GoesOn
<1> QED BY DisturbedKept DEF FollowsSelection

\* A request is over, and the others are as they were.
LEMMA OverFollow ==
  ASSUME TypeOK, NEW q \in Requests, request' = [request EXCEPT ![q] = Idle]
  PROVE  RequestsFollow
BY DEF TypeOK, RequestsFollow, FollowsSelection, Idle

\* Sessions are revoked, with the compatibility sessions of those that were live.
LEMMA RevokedQuiet ==
  ASSUME TypeOK, NEW S \in SUBSET Sessions, \A s \in S : session[s].state # "unused",
         session' = Revoked(S), compat' = CompatsRevoked(S)
  PROVE  /\ SessionsOnlyEnd /\ CompatsFollow
         /\ \A s \in S : session'[s].state # "live"
<1>1. ASSUME NEW s \in Sessions
      PROVE  /\ s \in S => session'[s] = [session[s] EXCEPT !.state = "revoked"]
             /\ s \notin S => session'[s] = session[s]
             /\ session[s] \in Session
  BY DEF Revoked, TypeOK
<1>2. SessionsOnlyEnd
  <2> SUFFICES ASSUME NEW s \in Sessions
               PROVE  /\ session'[s].drawn = session[s].drawn
                      /\ session'[s].context = session[s].context
                      /\ session'[s].profile = session[s].profile
                      /\ \/ /\ session'[s].state = session[s].state
                            /\ session'[s].access = session[s].access
                            /\ session'[s].refresh = session[s].refresh
                         \/ session[s].state # "unused" /\ session'[s].state = "revoked"
    BY DEF SessionsOnlyEnd
  <2>1. /\ [session[s] EXCEPT !.state = "revoked"].state = "revoked"
        /\ [session[s] EXCEPT !.state = "revoked"].drawn = session[s].drawn
        /\ [session[s] EXCEPT !.state = "revoked"].context = session[s].context
        /\ [session[s] EXCEPT !.state = "revoked"].profile = session[s].profile
    BY <1>1 DEF Session
  <2>2. s \in S => session[s].state # "unused"
    OBVIOUS
  <2> QED BY <1>1, <2>1, <2>2
<1>3. CompatsFollow
  <2> SUFFICES ASSUME NEW c \in Compats, compat'[c].state = "active"
               PROVE  /\ compat'[c] = compat[c]
                      /\ compat[c].session \in Sessions /\ Live(compat[c].session) =>
                           session'[compat[c].session].state = "live"
    BY DEF CompatsFollow
  <2>1. compat[c] \in Compat
    BY DEF TypeOK
  <2>2. compat'[c] = compat[c] /\ ~(compat[c].session \in S /\ Live(compat[c].session))
    BY <2>1 DEF CompatsRevoked, Compat
  <2>3. Live(compat[c].session) /\ compat[c].session \in Sessions =>
          session'[compat[c].session] = session[compat[c].session]
    BY <1>1, <2>2
  <2> QED BY <2>2, <2>3 DEF Live
<1> QED BY <1>1, <1>2, <1>3 DEF Session

LEMMA EndSessionsQuiet ==
  ASSUME TypeOK, NEW S \in SUBSET Sessions, EndSessions(S)
  PROVE  Quiet
<1>1. /\ session' = Revoked(S) /\ compat' = CompatsRevoked(S) /\ request' = Disturbed(request, S)
      /\ \A s \in S : session[s].state # "unused"
  BY DEF EndSessions, Live
<1> QED BY <1>1, RevokedQuiet, DisturbedFollow DEF Quiet

\* Selections are cleared; compatibility sessions may be revoked on the way.
LEMMA ClearedQuiet ==
  ASSUME TypeOK, NEW S \in SUBSET Sessions,
         \A s \in Sessions : session'[s] = IF s \in S THEN Cleared(session[s]) ELSE session[s],
         \A c \in Compats : compat'[c] = compat[c] \/ compat'[c].state # "active"
  PROVE  /\ SessionsOnlyEnd /\ CompatsFollow
         /\ \A s \in S : session'[s].context = 0
<1>1. ASSUME NEW s \in Sessions
      PROVE  /\ Cleared(session[s]).profile = NoProfile /\ Cleared(session[s]).context = 0
             /\ Cleared(session[s]).state = session[s].state
             /\ Cleared(session[s]).drawn = session[s].drawn
             /\ Cleared(session[s]).access = session[s].access
             /\ Cleared(session[s]).refresh = session[s].refresh
  <2>1. session[s] \in Session
    BY DEF TypeOK
  <2> QED BY <2>1 DEF Session, Cleared
<1>2. SessionsOnlyEnd
  BY <1>1 DEF SessionsOnlyEnd
<1>3. \A s \in Sessions : session'[s].state = session[s].state
  BY <1>1
<1>4. CompatsFollow
  BY <1>3 DEF CompatsFollow, Live
<1> QED BY <1>1, <1>2, <1>4

\* Sessions end together with their selections.
LEMMA EndSelectedQuiet ==
  ASSUME TypeOK, NEW S \in SUBSET Sessions, \A s \in S : Exists(s), EndSelected(S),
         \A c \in Compats : compat'[c].state = "active" =>
           compat'[c] = compat[c] /\ (compat[c].session \in S => ~Live(compat[c].session))
  PROVE  Quiet
<1>1. ASSUME NEW s \in Sessions
      PROVE  /\ session'[s] = IF s \in S THEN [Cleared(session[s]) EXCEPT !.state = "revoked"]
                              ELSE session[s]
             /\ [Cleared(session[s]) EXCEPT !.state = "revoked"].state = "revoked"
             /\ [Cleared(session[s]) EXCEPT !.state = "revoked"].profile = NoProfile
             /\ [Cleared(session[s]) EXCEPT !.state = "revoked"].context = 0
             /\ [Cleared(session[s]) EXCEPT !.state = "revoked"].drawn = session[s].drawn
  BY DEF EndSelected, TypeOK, Session, Cleared
<1>2. SessionsOnlyEnd
  BY <1>1 DEF SessionsOnlyEnd, Exists
<1>3. CompatsFollow
  BY <1>1 DEF CompatsFollow, Live
<1>4. RequestsFollow
  BY <1>1, DisturbedFollow DEF EndSelected
<1> QED BY <1>2, <1>3, <1>4 DEF Quiet

LEMMA CleanupQuiet == TypeOK /\ Cleanup => Quiet
<1> SUFFICES ASSUME TypeOK, Cleanup PROVE Quiet
  OBVIOUS
<1> DEFINE S == {s \in Sessions : Ended(s)}
           gone(s) == [Cleared(session[s]) EXCEPT !.state = "gone", !.access = 0, !.refresh = 0,
                                                  !.scoped = TRUE, !.app = NoProfile]
<1>1. /\ \A s \in Sessions : session'[s] = IF s \in S THEN gone(s) ELSE session[s]
      /\ request' = Disturbed(request, S)
      /\ \A c \in Compats : compat'[c] = IF compat[c].session \in S
                                         THEN [compat[c] EXCEPT !.state = "gone", !.left = 0]
                                         ELSE compat[c]
  BY DEF Cleanup
<1>2. ASSUME NEW s \in Sessions
      PROVE  /\ gone(s).state = "gone" /\ gone(s).profile = NoProfile /\ gone(s).context = 0
             /\ gone(s).drawn = session[s].drawn
  BY DEF TypeOK, Session, Cleared
<1>3. \A c \in Compats : [compat[c] EXCEPT !.state = "gone", !.left = 0].state = "gone"
  BY DEF TypeOK, Compat
<1>4. S \in SUBSET Sessions /\ \A s \in S : session[s].state # "unused"
  BY DEF Ended, Exists
<1> HIDE DEF S, gone
<1>5. SessionsOnlyEnd
  BY <1>1, <1>2, <1>4 DEF SessionsOnlyEnd
<1>6. CompatsFollow
  BY <1>1, <1>3 DEF CompatsFollow, Live
<1>7. RequestsFollow
  BY <1>1, <1>2, <1>4, DisturbedFollow
<1> QED BY <1>5, <1>6, <1>7 DEF Quiet

\* The session a request is about has been made.
RequestsInUse ==
  \A q \in Requests : request[q].stage # "idle" => session[request[q].session].state # "unused"

QuietOperation ==
  \/ Revocation
  \/ \E s \in Sessions : ClearSelection(s) \/ MoveDevices(s) \/ DeviceMoves(s)
  \/ \E p \in Profiles : \/ RevokeProfileAccess(p) \/ GrantProfileAccess(p)
                         \/ ChangeProfileAccess(p) \/ DisableProfile(p) \/ ScheduleTurns(p)
                         \/ MoveProfiles(p)
  \/ \E q \in Requests : UseSelection(q) \/ Continue(q) \/ JoinFlight(q) \/ LeaveFlight(q)
  \/ \E c \in Compats : RevokeCompat(c)
  \/ Cleanup
  \/ UNCHANGED vars

LEMMA QuietStep == TypeInv /\ RequestsInUse /\ QuietOperation => Quiet
<1> SUFFICES ASSUME TypeInv, RequestsInUse, QuietOperation PROVE Quiet
  OBVIOUS
<1>0. TypeOK /\ RowsNamed
  BY DEF TypeInv
<1>1. CASE Revocation
  BY <1>0, <1>1, RevocationEnds, EndSessionsQuiet
<1>2. ASSUME NEW s \in Sessions, ClearSelection(s) PROVE Quiet
  <2> DEFINE S == {s}
  <2>1. /\ S \in SUBSET Sessions /\ request' = Disturbed(request, S) /\ compat' = compat
        /\ \A t \in Sessions : session'[t] = IF t \in S THEN Cleared(session[t]) ELSE session[t]
    BY <1>0, <1>2 DEF ClearSelection, TypeOK
  <2> HIDE DEF S
  <2> QED BY <1>0, <2>1, ClearedQuiet, DisturbedFollow DEF Quiet
<1>3. ASSUME NEW p \in Profiles, RevokeProfileAccess(p) \/ ChangeProfileAccess(p) PROVE Quiet
  <2> DEFINE S == {s \in Sessions : session[s].profile = p}
  <2>1. /\ S \in SUBSET Sessions /\ request' = Disturbed(request, S)
        /\ session' = SelectionsCleared(p) /\ compat' = CompatsOfProfileRevoked(p)
    BY <1>3 DEF RevokeProfileAccess, ChangeProfileAccess
  <2>2. \A t \in Sessions : session'[t] = IF t \in S THEN Cleared(session[t]) ELSE session[t]
    BY <2>1 DEF SelectionsCleared
  <2>3. \A c \in Compats : compat'[c] = compat[c] \/ compat'[c].state # "active"
    BY <1>0, <2>1 DEF CompatsOfProfileRevoked, TypeOK, Compat
  <2> HIDE DEF S
  <2> QED BY <1>0, <2>1, <2>2, <2>3, ClearedQuiet, DisturbedFollow DEF Quiet
<1>4. ASSUME NEW p \in Profiles, GrantProfileAccess(p) \/ ScheduleTurns(p) PROVE Quiet
  BY <1>0, <1>4, QuietIfSame DEF GrantProfileAccess, ScheduleTurns, Quiet
<1>5. ASSUME NEW p \in Profiles, DisableProfile(p) PROVE Quiet
  <2> DEFINE S == SessionsOf(p) \cup {s \in Sessions : Exists(s) /\ session[s].app = p}
  <2>1. S \in SUBSET Sessions /\ (\A s \in S : Exists(s))
    BY DEF SessionsOf
  <2>2. /\ EndSelected(S)
        /\ compat' = [c \in Compats |->
             IF compat[c].state = "active" /\ (compat[c].profile = p \/ compat[c].session \in S)
             THEN [compat[c] EXCEPT !.state = "revoked"] ELSE compat[c]]
    BY <1>5 DEF DisableProfile
  <2> HIDE DEF S
  <2>3. ASSUME NEW c \in Compats, compat'[c].state = "active"
        PROVE  compat'[c] = compat[c] /\ compat[c].session \notin S
    <3>1. compat[c] \in Compat
      BY <1>0 DEF TypeOK
    <3> QED BY <2>2, <2>3, <3>1 DEF Compat
  <2> QED BY <1>0, <2>1, <2>2, <2>3, EndSelectedQuiet
<1>6. ASSUME NEW S \in SUBSET Sessions, \A s \in S : Exists(s), EndSelected(S),
             compat' = CompatsRevoked(S)
      PROVE  Quiet
  <2>1. ASSUME NEW c \in Compats, compat'[c].state = "active"
        PROVE  compat'[c] = compat[c] /\ (compat[c].session \in S => ~Live(compat[c].session))
    <3>1. compat[c] \in Compat
      BY <1>0 DEF TypeOK
    <3> QED BY <1>6, <2>1, <3>1 DEF CompatsRevoked, Compat
  <2> QED BY <1>0, <1>6, <2>1, EndSelectedQuiet
<1>7. ASSUME NEW p \in Profiles, MoveProfiles(p) PROVE Quiet
  <2> DEFINE S == {s \in Sessions : Exists(s) /\ session[s].profile = p}
  <2>1. S \in SUBSET Sessions /\ (\A s \in S : Exists(s)) /\ EndSelected(S) /\ compat' = CompatsRevoked(S)
    BY <1>7 DEF MoveProfiles
  <2> HIDE DEF S
  <2> QED BY <1>6, <2>1
<1>8. ASSUME NEW s \in Sessions, MoveDevices(s) PROVE Quiet
  <2> DEFINE S == {s}
  <2>1. S \in SUBSET Sessions /\ (\A t \in S : Exists(t)) /\ EndSelected(S) /\ compat' = CompatsRevoked(S)
    BY <1>8 DEF MoveDevices
  <2> HIDE DEF S
  <2> QED BY <1>6, <2>1
<1>9. ASSUME NEW s \in Sessions, DeviceMoves(s) PROVE Quiet
  <2>1. \A t \in Sessions : /\ session'[t].state = session[t].state
                            /\ session'[t].profile = session[t].profile
                            /\ session'[t].context = session[t].context
                            /\ session'[t].drawn = session[t].drawn
                            /\ session'[t].access = session[t].access
                            /\ session'[t].refresh = session[t].refresh
    BY <1>0, <1>9 DEF DeviceMoves, TypeOK, Session
  <2>2. UNCHANGED <<compat, request>>
    BY <1>9 DEF DeviceMoves
  <2>3. SessionsOnlyEnd
    BY <2>1 DEF SessionsOnlyEnd
  <2>4. CompatsFollow
    BY <2>1, <2>2 DEF CompatsFollow, Live
  <2> QED BY <1>0, <2>2, <2>3, <2>4, QuietIfSame DEF Quiet
<1>11. ASSUME NEW q \in Requests, UseSelection(q) \/ EndRequest(q) \/ FailFlight(q) \/ TouchCompat(q)
       PROVE  Quiet
  <2>1. UNCHANGED <<session, compat>> /\ request' = [request EXCEPT ![q] = Idle]
    BY <1>11 DEF UseSelection, EndRequest, FailFlight, TouchCompat
  <2> QED BY <1>0, <2>1, OverFollow, QuietIfSame DEF Quiet
<1>12. ASSUME NEW q \in Requests, AuthRevoke(q) PROVE Quiet
  <2> DEFINE s == request[q].session
             S == {s}
  <2>1. s \in Sessions /\ S \in SUBSET Sessions
    BY <1>0, <1>12 DEF AuthRevoke, RowsNamed
  <2>2. request' = [Disturbed(request, S) EXCEPT ![q] = Idle]
    BY <1>12 DEF AuthRevoke
  <2>3. \A r \in Requests : request'[r].stage = "idle" \/ request'[r] = Disturbed(request, S)[r]
    BY <2>2 DEF Disturbed, Idle
  <2>4. CASE Exists(s)
    <3>1. session' = Revoked(S) /\ compat' = CompatsRevoked(S)
          /\ \A t \in S : session[t].state # "unused"
      BY <1>12, <2>4 DEF AuthRevoke, Exists
    <3> HIDE DEF S
    <3> QED BY <1>0, <2>1, <2>3, <3>1, RevokedQuiet, DisturbedFollow DEF Quiet
  <2>5. CASE ~Exists(s)
    <3>1. UNCHANGED <<session, compat>> /\ \A t \in S : session'[t].state # "live"
      BY <1>12, <2>5 DEF AuthRevoke, Exists
    <3> HIDE DEF S
    <3> QED BY <1>0, <2>1, <2>3, <3>1, QuietIfSame, DisturbedFollow DEF Quiet
  <2> QED BY <2>4, <2>5
<1>13. ASSUME NEW q \in Requests, AuthClear(q) PROVE Quiet
  <2> DEFINE s == request[q].session
             S == {s}
  <2>1. s \in Sessions /\ S \in SUBSET Sessions
    BY <1>0, <1>13 DEF AuthClear, RowsNamed
  <2>2. CASE StillSelected(q)
    <3>1. /\ session' = [session EXCEPT ![s] = Cleared(@)]
          /\ request' = [Disturbed(request, S) EXCEPT ![q] = Idle]
          /\ compat' = [c \in Compats |->
               IF compat[c].session = s /\ compat[c].profile = request[q].profile /\ compat[c].state = "active"
               THEN [compat[c] EXCEPT !.state = "revoked"] ELSE compat[c]]
      BY <1>13, <2>2 DEF AuthClear
    <3>2. \A r \in Requests : request'[r].stage = "idle" \/ request'[r] = Disturbed(request, S)[r]
      BY <3>1 DEF Disturbed, Idle
    <3>3. \A t \in Sessions : session'[t] = IF t \in S THEN Cleared(session[t]) ELSE session[t]
      BY <1>0, <2>1, <3>1 DEF TypeOK
    <3>4. \A c \in Compats : compat'[c] = compat[c] \/ compat'[c].state # "active"
      BY <1>0, <3>1 DEF TypeOK, Compat
    <3> HIDE DEF S
    <3> QED BY <1>0, <2>1, <3>2, <3>3, <3>4, ClearedQuiet, DisturbedFollow DEF Quiet
  <2>3. CASE ~StillSelected(q)
    <3>1. UNCHANGED <<session, compat>> /\ request' = [request EXCEPT ![q] = Idle]
      BY <1>13, <2>3 DEF AuthClear
    <3> QED BY <1>0, <3>1, OverFollow, QuietIfSame DEF Quiet
  <2> QED BY <2>2, <2>3
<1>14. ASSUME NEW q \in Requests, ReloadLinked(q) \/ RejectLinked(q) PROVE Quiet
  <2>1. UNCHANGED <<session, compat>>
    BY <1>14 DEF ReloadLinked, RejectLinked
  <2>2. PICK stage \in {"linked", "expel"} : request' = [request EXCEPT ![q].stage = stage]
    BY <1>14 DEF ReloadLinked, RejectLinked
  <2>3. request[q].stage # "idle" /\ request[q] \in Request
    BY <1>0, <1>14 DEF ReloadLinked, RejectLinked, TypeOK
  <2>4. /\ [request[q] EXCEPT !.stage = stage].stage = stage
        /\ [request[q] EXCEPT !.stage = stage].session = request[q].session
    BY <2>3 DEF Request
  <2>5. RequestsFollow
    BY <1>0, <2>2, <2>3, <2>4 DEF TypeOK, RequestsFollow, FollowsSelection
  <2> QED BY <1>0, <2>1, <2>5, QuietIfSame DEF Quiet
<1>15. ASSUME NEW q \in Requests, UpdateLinked(q) PROVE Quiet
  <2> DEFINE s == request[q].session
             S == {s}
             D == IF Agree(q) THEN request ELSE Disturbed(request, S)
  <2>1. s \in Sessions /\ S \in SUBSET Sessions /\ request[q].stage = "linked"
    BY <1>0, <1>15 DEF UpdateLinked, RowsNamed
  <2>2. PICK stage \in {"touch", "expel"} : request' = [D EXCEPT ![q].stage = stage]
    BY <1>15 DEF UpdateLinked
  <2>3. D \in [Requests -> Request]
    BY <1>0, <2>1, DisturbedKept DEF TypeOK
  <2>4. \A r \in Requests : request'[r] = D[r] \/ GoesOn(r)
    <3>1. D[q].session = request[q].session
      BY <1>0, <2>1, DisturbedKept
    <3> HIDE DEF D
    <3>2. [D[q] EXCEPT !.stage = stage].stage = stage /\ [D[q] EXCEPT !.stage = stage].session = D[q].session
      BY <2>3 DEF Request
    <3> QED BY <2>1, <2>2, <2>3, <3>1, <3>2 DEF GoesOn
  <2>5. CASE Agree(q)
    <3>1. UNCHANGED <<session, compat>> /\ D = request
      BY <1>15, <2>5 DEF UpdateLinked
    <3> HIDE DEF D
    <3>2. RequestsFollow
      BY <2>4, <3>1 DEF RequestsFollow, FollowsSelection, GoesOn
    <3> QED BY <1>0, <3>1, <3>2, QuietIfSame DEF Quiet
  <2>6. CASE ~Agree(q)
    <3>1. session' = Revoked(S) /\ compat' = CompatsRevoked(S) /\ D = Disturbed(request, S)
      BY <1>15, <2>6 DEF UpdateLinked
    <3>2. \A t \in S : session[t].state # "unused"
      BY <2>1 DEF RequestsInUse
    <3> HIDE DEF D, S
    <3> QED BY <1>0, <2>1, <2>4, <3>1, <3>2, RevokedQuiet, DisturbedFollow DEF Quiet
  <2> QED BY <2>5, <2>6
<1>16. ASSUME NEW q \in Requests, ExpelCompat(q) PROVE Quiet
  <2>1. /\ UNCHANGED session /\ request' = [request EXCEPT ![q] = Idle]
        /\ \A c \in Compats : compat'[c] = compat[c] \/ compat'[c].state # "active"
    BY <1>0, <1>16 DEF ExpelCompat, TypeOK, Compat
  <2>2. CompatsFollow
    BY <2>1 DEF CompatsFollow, Live
  <2> QED BY <1>0, <2>1, <2>2, OverFollow, QuietIfSame DEF Quiet
<1>17. ASSUME NEW c \in Compats, RevokeCompat(c) PROVE Quiet
  <2>1. /\ UNCHANGED <<session, request>>
        /\ \A d \in Compats : compat'[d] = compat[d] \/ compat'[d].state # "active"
    BY <1>0, <1>17 DEF RevokeCompat, TypeOK, Compat
  <2>2. CompatsFollow
    BY <2>1 DEF CompatsFollow, Live
  <2> QED BY <1>0, <2>1, <2>2, QuietIfSame DEF Quiet
<1>10. ASSUME NEW q \in Requests, JoinFlight(q) \/ LeaveFlight(q) PROVE Quiet
  BY <1>0, <1>10, CallersMove, QuietIfSame DEF Quiet, RequestsFollow, FollowsSelection
<1>18. CASE Cleanup
  BY <1>0, <1>18, CleanupQuiet
<1>19. CASE UNCHANGED vars
  BY <1>0, <1>19, QuietIfSame DEF vars, Quiet
<1> QED
  BY <1>1, <1>2, <1>3, <1>4, <1>5, <1>7, <1>8, <1>9, <1>10, <1>11, <1>12, <1>13, <1>14,
     <1>15, <1>16, <1>17, <1>18, <1>19
  DEF QuietOperation, Continue

\* All other operations.
LEMMA OtherOperations ==
  [Next]_vars =>
    \/ QuietOperation
    \/ \E s \in Sessions : Login(s) \/ \E p \in Profiles : LoginJellyfinProfile(s, p)
    \/ \E s \in Sessions, n \in Serials : Rotate(s, n)
    \/ \E s \in Sessions, p \in Profiles, linked \in BOOLEAN : Select(s, p, linked)
    \/ \E q \in Requests, s \in Sessions : AuthRead(q, s)
    \/ \E q \in Requests, c \in Compats, key \in {"token", "id"} : CompatRead(q, c, key)
    \/ \E c \in Compats, s \in Sessions : Issue(c, s)
    \/ Tick
BY DEF Next, QuietOperation, Revocation

-----------------------------------------------------------------------------
(* Lifetimes, and the selection a request works under.  A selection is told *)
(* from the next one of the same profile by its number alone, so the proof  *)
(* is about numbers: they are drawn in order, and a captured one that was   *)
(* disturbed is no longer its session's.                                    *)

SelectionsNumbered ==
  \A s \in Sessions : /\ session[s].context <= session[s].drawn
                      /\ session[s].profile # NoProfile => session[s].context > 0

CapturedNumbered ==
  \A q \in Requests : request[q].stage = "captured" =>
    /\ request[q].context <= session[request[q].session].drawn
    /\ request[q].profile # NoProfile => request[q].context > 0

StaleIsOver ==
  \A q \in Requests :
    request[q].stage = "captured" /\ request[q].profile # NoProfile /\ request[q].stale =>
      \/ session[request[q].session].state # "live"
      \/ session[request[q].session].context # request[q].context

SelectionInv == SelectionsNumbered /\ CapturedNumbered /\ StaleIsOver

AuthInv == RequestsInUse /\ LifetimesNested /\ SelectionInv

LEMMA AuthInit == Init => AuthInv
BY DEF Init, AuthInv, RequestsInUse, LifetimesNested, SelectionInv, SelectionsNumbered,
       CapturedNumbered, StaleIsOver, Idle, Live, Active

\* The steps that make nothing new.
LEMMA AuthQuiet ==
  ASSUME TypeInv, TypeInv', AuthInv, Quiet
  PROVE  AuthInv'
<1> USE DEF AuthInv, SelectionInv
<1>0. /\ \A s \in Sessions : session[s] \in Session /\ session'[s] \in Session
      /\ \A q \in Requests : /\ request[q] \in Request /\ request'[q] \in Request
                             /\ request[q].stage # "idle" => request[q].session \in Sessions
      /\ \A c \in Compats : /\ compat[c] \in Compat /\ compat'[c] \in Compat
                            /\ compat[c].state # "unused" => compat[c].session \in Sessions
  BY DEF TypeInv, TypeOK, RowsNamed
<1>1. RequestsInUse'
  BY <1>0 DEF Quiet, SessionsOnlyEnd, RequestsFollow, RequestsInUse
<1>2. LifetimesNested'
  <2>1. ASSUME NEW s \in Sessions, session'[s].state = "live"
        PROVE  /\ session[s].state = "live" /\ session'[s].access = session[s].access
               /\ session'[s].refresh = session[s].refresh
    BY <2>1 DEF Quiet, SessionsOnlyEnd
  <2>2. \A s \in Sessions : session'[s].state = "live" => session'[s].access <= session'[s].refresh
    BY <2>1 DEF LifetimesNested, Live
  <2>3. ASSUME NEW c \in Compats, compat'[c].state = "active", compat'[c].left > 0
        PROVE  /\ session'[compat'[c].session].state = "live"
               /\ compat'[c].left <= session'[compat'[c].session].refresh
    <3>1. compat'[c] = compat[c] /\ compat[c].session \in Sessions
      BY <1>0, <2>3 DEF Quiet, CompatsFollow
    <3>2. Live(compat[c].session) /\ compat[c].left <= session[compat[c].session].refresh
      BY <2>3, <3>1 DEF LifetimesNested, Active
    <3>3. session'[compat[c].session].state = "live"
      BY <2>3, <3>1, <3>2 DEF Quiet, CompatsFollow
    <3> QED BY <2>1, <3>1, <3>2, <3>3
  <2> QED BY <2>2, <2>3 DEF LifetimesNested, Live, Active
<1>3. SelectionsNumbered'
  BY <1>0 DEF Quiet, SessionsOnlyEnd, SelectionsNumbered, Session
<1>4. ASSUME NEW q \in Requests, request'[q].stage = "captured"
      PROVE  /\ request[q].stage = "captured" /\ request[q].session \in Sessions
             /\ request'[q].session = request[q].session
             /\ request'[q].profile = request[q].profile /\ request'[q].context = request[q].context
             /\ request'[q].stale => \/ request[q].stale
                                     \/ session'[request[q].session].state # "live"
                                     \/ session'[request[q].session].context = 0
  BY <1>0, <1>4 DEF Quiet, RequestsFollow, FollowsSelection
<1>5. CapturedNumbered'
  BY <1>4 DEF Quiet, SessionsOnlyEnd, CapturedNumbered
<1>6. StaleIsOver'
  <2> SUFFICES ASSUME NEW q \in Requests, request'[q].stage = "captured",
                      request'[q].profile # NoProfile, request'[q].stale
               PROVE  \/ session'[request'[q].session].state # "live"
                      \/ session'[request'[q].session].context # request'[q].context
    BY DEF StaleIsOver
  <2> DEFINE s == request[q].session
  <2>1. s \in Sessions /\ request[q].context > 0
    BY <1>4 DEF CapturedNumbered
  <2>2. CASE session'[s].state # "live" \/ session'[s].context = 0
    BY <1>4, <2>1, <2>2
  <2>3. CASE session'[s].state = "live" /\ session'[s].context # 0
    <3>1. session[s].state = "live" /\ session'[s].context = session[s].context
      BY <2>1, <2>3 DEF Quiet, SessionsOnlyEnd
    <3> QED BY <1>4, <2>3, <3>1 DEF StaleIsOver
  <2> QED BY <2>2, <2>3
<1> QED BY <1>1, <1>2, <1>3, <1>5, <1>6

\* A session is made: nothing is about it yet.
LEMMA AuthCreated ==
  ASSUME TypeInv, AuthInv, NEW s \in Sessions, NEW row \in Session, Created(s, row),
         row.state = "live", row.access <= row.refresh, row.context <= row.drawn,
         row.profile # NoProfile => row.context > 0
  PROVE  AuthInv'
<1> USE DEF AuthInv, SelectionInv
<1>1. /\ session[s].state = "unused" /\ session' = [session EXCEPT ![s] = row]
      /\ UNCHANGED <<compat, request>> /\ session \in [Sessions -> Session]
  BY DEF Created, TypeInv, TypeOK
<1>2. \A t \in Sessions : session'[t] = IF t = s THEN row ELSE session[t]
  BY <1>1
<1>3. \A q \in Requests : request[q].stage # "idle" =>
        request[q].session \in Sessions /\ request[q].session # s
  BY <1>1 DEF RequestsInUse, TypeInv, RowsNamed
<1>4. \A c \in Compats : Active(c) => compat[c].session \in Sessions /\ compat[c].session # s
  BY <1>1 DEF LifetimesNested, Live, TypeInv, RowsNamed, Active
<1>5. RequestsInUse'
  BY <1>1, <1>2, <1>3 DEF RequestsInUse
<1>6. LifetimesNested'
  BY <1>1, <1>2, <1>4 DEF LifetimesNested, Live, Active
<1>7. SelectionsNumbered'
  BY <1>2 DEF SelectionsNumbered
<1>8. CapturedNumbered' /\ StaleIsOver'
  BY <1>1, <1>2, <1>3 DEF CapturedNumbered, StaleIsOver
<1> QED BY <1>5, <1>6, <1>7, <1>8

LEMMA AuthStep == TypeInv /\ AuthInv /\ [Next]_vars => AuthInv'
<1> SUFFICES ASSUME TypeInv, AuthInv, [Next]_vars PROVE AuthInv'
  OBVIOUS
<1>0. /\ TypeOK /\ RowsNamed /\ TypeInv' /\ RequestsInUse
      /\ session \in [Sessions -> Session] /\ compat \in [Compats -> Compat]
      /\ request \in [Requests -> Request] /\ \A s \in Sessions : session[s] \in Session
  BY TypeStep DEF TypeInv, TypeOK, AuthInv
<1>1. CASE QuietOperation
  BY <1>0, <1>1, QuietStep, AuthQuiet
<1>2. ASSUME NEW s \in Sessions, Login(s) PROVE AuthInv'
  <2>1. FreshSession \in Session
    BY Lifetimes DEF FreshSession, Session
  <2> QED BY <1>2, <2>1, AuthCreated, AuthSessionsAssumption DEF Login, FreshSession
<1>3. ASSUME NEW s \in Sessions, NEW p \in Profiles, LoginJellyfinProfile(s, p) PROVE AuthInv'
  <2> DEFINE row == [FreshSession EXCEPT !.profile = p, !.grant = RefreshTTL, !.context = 1,
                                         !.drawn = 1, !.app = p]
  <2>1. 1 \in 0..MaxSelections
    BY <1>3, AuthSessionsAssumption DEF LoginJellyfinProfile
  <2>2. /\ row \in Session /\ row.state = "live" /\ row.access = AccessTTL
        /\ row.refresh = RefreshTTL /\ row.context = 1 /\ row.drawn = 1
    BY <2>1, Lifetimes DEF FreshSession, Session
  <2>3. Created(s, row)
    BY <1>3 DEF LoginJellyfinProfile
  <2> HIDE DEF row
  <2>4. AccessTTL <= RefreshTTL
    BY AuthSessionsAssumption
  <2> QED BY <2>2, <2>3, <2>4, AuthCreated
<1>4. ASSUME NEW s \in Sessions, NEW n \in Serials, Rotate(s, n) PROVE AuthInv'
  <2> DEFINE life == AccessLife(s)
  <2>1. life <= session[s].refresh
    BY <1>0, AuthSessionsAssumption DEF AccessLife, Least, Session
  <2>2. \A t \in Sessions :
          /\ session'[t].state = session[t].state /\ session'[t].refresh = session[t].refresh
          /\ session'[t].context = session[t].context /\ session'[t].drawn = session[t].drawn
          /\ session'[t].profile = session[t].profile
          /\ session'[t].access = IF t = s THEN life ELSE session[t].access
    BY <1>0, <1>4 DEF Rotate, Session
  <2>3. UNCHANGED <<compat, request>>
    BY <1>4 DEF Rotate
  <2> HIDE DEF life
  <2>4. RequestsInUse' /\ SelectionsNumbered' /\ CapturedNumbered' /\ StaleIsOver'
    BY <1>0, <2>2, <2>3
    DEF AuthInv, SelectionInv, RequestsInUse, SelectionsNumbered, CapturedNumbered, StaleIsOver,
        RowsNamed
  <2>5. LifetimesNested'
    BY <1>0, <2>1, <2>2, <2>3 DEF AuthInv, LifetimesNested, Live, Active, RowsNamed
  <2> QED BY <2>4, <2>5 DEF AuthInv, SelectionInv
<1>5. ASSUME NEW s \in Sessions, NEW p \in Profiles, NEW linked \in BOOLEAN, Select(s, p, linked)
      PROVE  AuthInv'
  <2> DEFINE next == session[s].drawn + 1
  <2>1. \A t \in Sessions :
          /\ session'[t].state = session[t].state /\ session'[t].refresh = session[t].refresh
          /\ session'[t].access = session[t].access
          /\ session'[t].context = IF t = s THEN next ELSE session[t].context
          /\ session'[t].drawn = IF t = s THEN next ELSE session[t].drawn
          /\ session'[t].profile = IF t = s THEN p ELSE session[t].profile
    BY <1>0, <1>5 DEF Select, Session
  <2>2. compat' = compat /\ request' = Disturbed(request, {s}) /\ {s} \in SUBSET Sessions
    BY <1>5 DEF Select
  <2>3. \A q \in Requests :
          /\ request'[q].session = request[q].session /\ request'[q].stage = request[q].stage
          /\ request'[q].profile = request[q].profile /\ request'[q].context = request[q].context
          /\ request'[q].stale => request[q].stale \/ request[q].session = s
    BY <1>0, <2>2, DisturbedKept
  <2>4. session[s].drawn \in Nat
    BY <1>0, AuthSessionsAssumption DEF Session
  <2> HIDE DEF next
  <2>5. RequestsInUse'
    BY <1>0, <2>1, <2>3 DEF RequestsInUse, RowsNamed
  <2>6. LifetimesNested'
    BY <1>0, <2>1, <2>2 DEF AuthInv, LifetimesNested, Live, Active, RowsNamed
  <2>7. SelectionsNumbered'
    BY <2>1, <2>4 DEF AuthInv, SelectionInv, SelectionsNumbered, next
  <2>8. ASSUME NEW q \in Requests, request'[q].stage = "captured"
        PROVE  /\ request'[q].context <= session'[request'[q].session].drawn
               /\ request'[q].profile # NoProfile => request'[q].context > 0
               /\ request'[q].profile # NoProfile /\ request'[q].stale =>
                    \/ session'[request'[q].session].state # "live"
                    \/ session'[request'[q].session].context # request'[q].context
    <3> DEFINE t == request[q].session
    <3>1. /\ request[q].stage = "captured" /\ t \in Sessions /\ request'[q].session = t
          /\ request[q].context \in Nat /\ request[q].context <= session[t].drawn
          /\ request[q].profile # NoProfile => request[q].context > 0
      BY <1>0, <2>3, <2>8, AuthSessionsAssumption
      DEF AuthInv, SelectionInv, CapturedNumbered, RowsNamed, Request
    <3>2. CASE t = s
      <4>1. session'[t].context = next /\ session'[t].drawn = next
            /\ request[q].context <= next /\ request[q].context # next
        BY <2>1, <2>4, <3>1, <3>2 DEF next
      <4> QED BY <2>3, <3>1, <4>1
    <3>3. CASE t # s
      BY <2>1, <2>3, <3>1, <3>3 DEF AuthInv, SelectionInv, StaleIsOver
    <3> QED BY <3>2, <3>3
  <2> QED BY <2>5, <2>6, <2>7, <2>8 DEF AuthInv, SelectionInv, CapturedNumbered, StaleIsOver
<1>6. ASSUME NEW q \in Requests, NEW s \in Sessions, AuthRead(q, s) PROVE AuthInv'
  <2>1. PICK stage \in {"revoke", "clear", "captured"} :
          request' = [request EXCEPT ![q] =
            [Idle EXCEPT !.session = s, !.profile = session[s].profile,
                         !.context = session[s].context, !.stage = stage]]
    BY <1>6 DEF AuthRead
  <2> DEFINE row == [Idle EXCEPT !.session = s, !.profile = session[s].profile,
                                 !.context = session[s].context, !.stage = stage]
  <2>2. /\ row.session = s /\ row.profile = session[s].profile /\ row.context = session[s].context
        /\ row.stale = FALSE
    BY DEF Idle
  <2>3. \A r \in Requests : request'[r] = IF r = q THEN row ELSE request[r]
    BY <1>0, <2>1
  <2>4. UNCHANGED <<session, compat>> /\ session[s].state = "live"
    BY <1>6 DEF AuthRead, Live
  <2> HIDE DEF row
  <2>5. RequestsInUse' /\ SelectionsNumbered' /\ CapturedNumbered' /\ StaleIsOver'
    BY <2>2, <2>3, <2>4
    DEF AuthInv, SelectionInv, RequestsInUse, SelectionsNumbered, CapturedNumbered, StaleIsOver
  <2>6. LifetimesNested'
    BY <2>4 DEF AuthInv, LifetimesNested, Live, Active
  <2> QED BY <2>5, <2>6 DEF AuthInv, SelectionInv
<1>7. ASSUME NEW q \in Requests, NEW c \in Compats, NEW key \in {"token", "id"}, CompatRead(q, c, key)
      PROVE  AuthInv'
  <2> DEFINE row == [Idle EXCEPT !.stage = "reload", !.compat = c, !.session = compat[c].session,
                                 !.profile = compat[c].profile, !.key = key, !.waiters = 1]
  <2>1. row.session = compat[c].session /\ row.stage = "reload"
    BY DEF Idle
  <2>2. \A r \in Requests : request'[r] = IF r = q THEN row ELSE request[r]
    BY <1>0, <1>7 DEF CompatRead
  <2>3. UNCHANGED <<session, compat>> /\ session[compat[c].session].state = "live"
    BY <1>7 DEF CompatRead, AuthInv, LifetimesNested, Live
  <2> HIDE DEF row
  <2>4. RequestsInUse' /\ SelectionsNumbered' /\ CapturedNumbered' /\ StaleIsOver'
    BY <2>1, <2>2, <2>3
    DEF AuthInv, SelectionInv, RequestsInUse, SelectionsNumbered, CapturedNumbered, StaleIsOver
  <2>5. LifetimesNested'
    BY <2>3 DEF AuthInv, LifetimesNested, Live, Active
  <2> QED BY <2>4, <2>5 DEF AuthInv, SelectionInv
<1>8. ASSUME NEW c \in Compats, NEW s \in Sessions, Issue(c, s) PROVE AuthInv'
  <2>1. PICK life \in 1..RefreshTTL :
          /\ Covers(s, life)
          /\ compat' = [compat EXCEPT ![c] = [state |-> "active", session |-> s,
                                              profile |-> session[s].profile, left |-> life]]
    BY <1>8 DEF Issue
  <2>2. UNCHANGED <<session, request>> /\ Live(s) /\ life <= session[s].refresh
    BY <1>0, <1>8, <2>1, AuthSessionsAssumption DEF Issue, Covers, Session
  <2>3. RequestsInUse' /\ SelectionsNumbered' /\ CapturedNumbered' /\ StaleIsOver'
    BY <2>2
    DEF AuthInv, SelectionInv, RequestsInUse, SelectionsNumbered, CapturedNumbered, StaleIsOver
  <2>4. LifetimesNested'
    BY <1>0, <2>1, <2>2 DEF AuthInv, LifetimesNested, Live, Active
  <2> QED BY <2>3, <2>4 DEF AuthInv, SelectionInv
<1>9. CASE Tick
  <2>1. \A s \in Sessions :
          /\ session'[s].state = session[s].state /\ session'[s].context = session[s].context
          /\ session'[s].drawn = session[s].drawn /\ session'[s].profile = session[s].profile
          /\ session'[s].access = Max(session[s].access - 1, 0)
          /\ session'[s].refresh = Max(session[s].refresh - 1, 0)
    BY <1>0, <1>9 DEF Tick, Session
  <2>2. request' = request /\ \A c \in Compats : /\ compat'[c].state = compat[c].state
                                                 /\ compat'[c].session = compat[c].session
                                                 /\ compat'[c].left = Max(compat[c].left - 1, 0)
    BY <1>0, <1>9 DEF Tick, Compat
  <2>3. RequestsInUse' /\ SelectionsNumbered' /\ CapturedNumbered' /\ StaleIsOver'
    BY <1>0, <2>1, <2>2
    DEF AuthInv, SelectionInv, RequestsInUse, SelectionsNumbered, CapturedNumbered, StaleIsOver,
        RowsNamed
  <2>4. /\ \A s \in Sessions : session[s].access \in Nat /\ session[s].refresh \in Nat
        /\ \A c \in Compats : compat[c].left \in Nat
    BY <1>0, AuthSessionsAssumption DEF Session, Compat
  <2>5. \A m, n \in Nat : m <= n => Max(m - 1, 0) <= Max(n - 1, 0)
    BY DEF Max
  <2>6. \A m \in Nat : Max(m - 1, 0) > 0 => m > 0
    BY DEF Max
  <2>7. \A s \in Sessions : session'[s].state = "live" => session'[s].access <= session'[s].refresh
    BY <2>1, <2>4, <2>5 DEF AuthInv, LifetimesNested, Live
  <2>8. ASSUME NEW c \in Compats, compat'[c].state = "active", compat'[c].left > 0
        PROVE  /\ session'[compat'[c].session].state = "live"
               /\ compat'[c].left <= session'[compat'[c].session].refresh
    <3>1. compat[c].state = "active" /\ compat[c].left > 0 /\ compat[c].session \in Sessions
      BY <1>0, <2>2, <2>4, <2>6, <2>8 DEF RowsNamed
    <3>2. Live(compat[c].session) /\ compat[c].left <= session[compat[c].session].refresh
      BY <3>1 DEF AuthInv, LifetimesNested, Active
    <3> QED BY <2>1, <2>2, <2>4, <2>5, <3>1, <3>2 DEF Live
  <2>9. LifetimesNested'
    BY <2>7, <2>8 DEF LifetimesNested, Live, Active
  <2> QED BY <2>3, <2>9 DEF AuthInv, SelectionInv
<1> QED BY <1>1, <1>2, <1>3, <1>4, <1>5, <1>6, <1>7, <1>8, <1>9, OtherOperations

\* No credential outlives what it rests on, whichever sessions are refreshed, revoked, cleaned up
\* or moved meanwhile: access token, session and compatibility credential end in this order.
THEOREM AuthLifetimesNested == Spec => []LifetimesNested
<1>1. AuthInv => LifetimesNested
  BY DEF AuthInv
<1> QED BY <1>1, TypeInit, TypeStep, AuthInit, AuthStep, PTL DEF Spec

\* Protected work is done only under the very selection its request captured: had that been
\* cleared, replaced (be it by the same profile) or revoked since, LockActiveProfileSelection
\* finds another number or no live session.
THEOREM AuthWorkUnderItsSelection == Spec => WorkUnderItsSelection
<1>1. TypeInv /\ AuthInv /\ [Next]_vars => [\A q \in Requests : UseSelection(q) => ~request[q].stale]_vars
  <2> SUFFICES ASSUME AuthInv, NEW q \in Requests, UseSelection(q), request[q].stale PROVE FALSE
    OBVIOUS
  <2> QED BY DEF UseSelection, SelectionHolds, Live, AuthInv, SelectionInv, StaleIsOver
<1> QED BY <1>1, TypeInit, TypeStep, AuthInit, AuthStep, PTL DEF Spec, WorkUnderItsSelection

-----------------------------------------------------------------------------
(* One working refresh token.  A session that is yet to be made has none.   *)

Works(s, n) == \A m \in Serials : token[s][m].state = "current" <=> m = n

TokenInv ==
  \A s \in Sessions :
    /\ session[s].state = "unused" => \A n \in Serials : token[s][n].state = "none"
    /\ session[s].state = "live" => \E n \in Serials : Works(s, n)

LEMMA TokenInit == Init => TokenInv
BY DEF Init, TokenInv, NoToken

\* Only four operations write refresh tokens.
LEMMA TokensWritten ==
  ASSUME QuietOperation
  PROVE  Cleanup \/ UNCHANGED token
BY DEF QuietOperation, Revocation, RevokeSession, RevokeProfileSession,
       RevokeUnfinishedLinkedSession, RefreshRevokes, LogoutWeb, RotateCredential,
       LogoutLinkedSession, UpdateAccount, EndSessions, ClearSelection, MoveDevices, DeviceMoves,
       RevokeProfileAccess, GrantProfileAccess, ChangeProfileAccess, DisableProfile, ScheduleTurns,
       MoveProfiles, UseSelection, Continue, AuthRevoke, AuthClear, EndRequest, ReloadLinked,
       RejectLinked, UpdateLinked, FailFlight, TouchCompat, ExpelCompat, JoinFlight, LeaveFlight,
       RevokeCompat, vars

\* As long as the current tokens stay, and nothing is drawn for a session yet to be made.
LEMMA TokensStay ==
  ASSUME TokenInv,
         \A s \in Sessions :
           /\ session'[s].state = "unused" => session[s].state = "unused"
           /\ session'[s].state = "live" => session[s].state = "live"
           /\ \A n \in Serials : token[s][n].state = "none" => token'[s][n].state = "none"
           /\ session'[s].state = "live" =>
                \A n \in Serials : token'[s][n].state = "current" <=> token[s][n].state = "current"
  PROVE  TokenInv'
<1> SUFFICES ASSUME NEW s \in Sessions
             PROVE  /\ session'[s].state = "unused" => \A n \in Serials : token'[s][n].state = "none"
                    /\ session'[s].state = "live" =>
                         \E n \in Serials : \A m \in Serials : token'[s][m].state = "current" <=> m = n
  BY DEF TokenInv, Works
<1>1. ASSUME session'[s].state = "live"
      PROVE  \E n \in Serials : \A m \in Serials : token'[s][m].state = "current" <=> m = n
  <2>1. PICK n \in Serials : Works(s, n)
    BY <1>1 DEF TokenInv
  <2> QED BY <1>1, <2>1 DEF Works
<1> QED BY <1>1 DEF TokenInv

LEMMA TokenCreated ==
  ASSUME TypeInv, TokenInv, NEW s \in Sessions, NEW row \in Session, Created(s, row),
         row.state = "live"
  PROVE  TokenInv'
<1>1. /\ session' = [session EXCEPT ![s] = row] /\ session[s].state = "unused"
      /\ token' = [token EXCEPT ![s][1] = [state |-> "current", age |-> 0]]
      /\ session \in [Sessions -> Session] /\ token \in [Sessions -> [Serials -> Token]]
  BY DEF Created, TypeInv, TypeOK
<1>2. \A t \in Sessions, n \in Serials :
        token'[t][n].state = IF t = s /\ n = 1 THEN "current" ELSE token[t][n].state
  BY <1>1
<1>3. \A t \in Sessions : session'[t] = IF t = s THEN row ELSE session[t]
  BY <1>1
<1> SUFFICES ASSUME NEW t \in Sessions
             PROVE  /\ session'[t].state = "unused" => \A n \in Serials : token'[t][n].state = "none"
                    /\ session'[t].state = "live" =>
                         \E n \in Serials : \A m \in Serials : token'[t][m].state = "current" <=> m = n
  BY DEF TokenInv, Works
<1>4. CASE t = s
  <2>1. \A m \in Serials : token'[t][m].state = "current" <=> m = 1
    BY <1>1, <1>2, <1>4 DEF TokenInv
  <2> QED BY <1>3, <1>4, <2>1, Lifetimes
<1>5. CASE t # s
  BY <1>2, <1>3, <1>5 DEF TokenInv, Works
<1> QED BY <1>4, <1>5

LEMMA TokenStep == TypeInv /\ AuthInv /\ TokenInv /\ [Next]_vars => TokenInv'
<1> SUFFICES ASSUME TypeInv, AuthInv, TokenInv, [Next]_vars PROVE TokenInv'
  OBVIOUS
<1>0. /\ TypeOK /\ RequestsInUse /\ session \in [Sessions -> Session]
      /\ token \in [Sessions -> [Serials -> Token]]
  BY DEF TypeInv, TypeOK, AuthInv
<1>1. CASE QuietOperation
  <2>1. SessionsOnlyEnd
    BY <1>0, <1>1, QuietStep DEF Quiet
  <2>2. \A s \in Sessions : /\ session'[s].state = "unused" => session[s].state = "unused"
                            /\ session'[s].state = "live" => session[s].state = "live"
    BY <2>1 DEF SessionsOnlyEnd
  <2>3. CASE UNCHANGED token
    BY <2>2, <2>3, TokensStay
  <2>4. CASE Cleanup
    <3>1. ASSUME NEW s \in Sessions, session'[s].state = "live" PROVE ~Ended(s)
      <4>1. Ended(s) => session'[s] = [Cleared(session[s]) EXCEPT !.state = "gone", !.access = 0,
                                         !.refresh = 0, !.scoped = TRUE, !.app = NoProfile]
        BY <2>4 DEF Cleanup
      <4>2. [Cleared(session[s]) EXCEPT !.state = "gone", !.access = 0,
               !.refresh = 0, !.scoped = TRUE, !.app = NoProfile].state = "gone"
        BY <1>0 DEF Cleared, Session
      <4> QED BY <3>1, <4>1, <4>2
    <3>2. \A s \in Sessions, n \in Serials :
            token'[s][n] = IF n \in Drawn(s) /\ (Ended(s) \/ Outdated(s, n))
                           THEN [state |-> "deleted", age |-> 0] ELSE token[s][n]
      BY <2>4 DEF Cleanup
    <3>3. \A s \in Sessions, n \in Serials : token[s][n].state = "none" => token'[s][n].state = "none"
      BY <3>2 DEF Drawn
    <3>4. ASSUME NEW s \in Sessions, session'[s].state = "live", NEW n \in Serials
          PROVE  token'[s][n].state = "current" <=> token[s][n].state = "current"
      BY <3>1, <3>2, <3>4 DEF Outdated
    <3> QED BY <2>2, <3>3, <3>4, TokensStay
  <2> QED BY <1>1, <2>3, <2>4, TokensWritten
<1>2. ASSUME NEW s \in Sessions, Login(s) PROVE TokenInv'
  <2>1. FreshSession \in Session
    BY Lifetimes DEF FreshSession, Session
  <2> QED BY <1>2, <2>1, TokenCreated DEF Login, FreshSession
<1>3. ASSUME NEW s \in Sessions, NEW p \in Profiles, LoginJellyfinProfile(s, p) PROVE TokenInv'
  <2> DEFINE row == [FreshSession EXCEPT !.profile = p, !.grant = RefreshTTL, !.context = 1,
                                         !.drawn = 1, !.app = p]
  <2>1. 1 \in 0..MaxSelections
    BY <1>3, AuthSessionsAssumption DEF LoginJellyfinProfile
  <2>2. row \in Session /\ row.state = "live"
    BY <2>1, Lifetimes DEF FreshSession, Session
  <2>3. Created(s, row)
    BY <1>3 DEF LoginJellyfinProfile
  <2> HIDE DEF row
  <2> QED BY <2>2, <2>3, TokenCreated
<1>4. ASSUME NEW s \in Sessions, NEW n \in Serials, Rotate(s, n) PROVE TokenInv'
  <2>1. PICK new \in Serials \ Drawn(s) : token' = [token EXCEPT ![s] = TokensRotated(s, n, new)]
    BY <1>4 DEF Rotate
  <2>2. session[s].state = "live" /\ token[s][n].state = "current" /\ token[s][new].state = "none"
    BY <1>4, <2>1 DEF Rotate, Live, Drawn
  <2>3. \A t \in Sessions : session'[t].state = session[t].state
    BY <1>0, <1>4 DEF Rotate, Session
  <2>4. Works(s, n)
    BY <2>2 DEF TokenInv, Works
  <2>5. \A m \in Serials : token'[s][m].state = IF m = new THEN "current" ELSE
                             IF m = n THEN "consumed" ELSE token[s][m].state
    BY <1>0, <2>1 DEF TokensRotated
  <2>6. \A t \in Sessions : t # s => token'[t] = token[t]
    BY <1>0, <2>1
  <2>7. \A m \in Serials : token'[s][m].state = "current" <=> m = new
    BY <2>4, <2>5 DEF Works
  <2>8. \A t \in Sessions :
          /\ session'[t].state = "unused" => \A m \in Serials : token'[t][m].state = "none"
          /\ session'[t].state = "live" =>
               \E k \in Serials : \A m \in Serials : token'[t][m].state = "current" <=> m = k
    BY <2>2, <2>3, <2>6, <2>7 DEF TokenInv, Works
  <2> QED BY <2>8 DEF TokenInv, Works
<1>5. ASSUME NEW s \in Sessions, NEW p \in Profiles, NEW linked \in BOOLEAN, Select(s, p, linked)
      PROVE  TokenInv'
  <2>1. token' = token /\ \A t \in Sessions : session'[t].state = session[t].state
    BY <1>0, <1>5 DEF Select, Session
  <2> QED BY <2>1, TokensStay
<1>6. ASSUME UNCHANGED <<session, token>> PROVE TokenInv'
  BY <1>6, TokensStay
<1>7. CASE Tick
  <2>1. \A s \in Sessions : session'[s].state = session[s].state
    BY <1>0, <1>7 DEF Tick, Session
  <2>2. ASSUME NEW s \in Sessions, NEW n \in Serials
        PROVE  token'[s][n].state = token[s][n].state
    <3>1. token[s][n] \in Token
      BY <1>0
    <3>2. token'[s][n] = IF token[s][n].state = "consumed"
                         THEN [token[s][n] EXCEPT !.age = Least(@ + 1, Retention)] ELSE token[s][n]
      BY <1>7 DEF Tick
    <3> QED BY <3>1, <3>2 DEF Token
  <2> QED BY <2>1, <2>2, TokensStay
<1> QED BY <1>1, <1>2, <1>3, <1>4, <1>5, <1>6, <1>7, OtherOperations DEF AuthRead, CompatRead, Issue

\* A live session has exactly one refresh token that works, whatever tokens are presented, rotated,
\* reused, revoked and cleaned up: neither is a session cut off nor does a token multiply.
THEOREM AuthOneWorkingToken == Spec => []OneWorkingToken
<1>1. TokenInv => OneWorkingToken
  <2> SUFFICES ASSUME TokenInv, NEW s \in Sessions, Live(s)
               PROVE  Cardinality(Tokens(s, "current")) = 1
    BY DEF OneWorkingToken
  <2>1. PICK n \in Serials : Works(s, n)
    BY DEF TokenInv, Live
  <2>2. Tokens(s, "current") = {n}
    BY <2>1 DEF Tokens, Works
  <2> QED BY <2>2, FS_Singleton
<1> QED BY <1>1, TypeInit, TypeStep, AuthInit, AuthStep, TokenInit, TokenStep, PTL DEF Spec

-----------------------------------------------------------------------------
(* The shared authentications.  All but four operations leave the flights   *)
(* alone or end them.                                                       *)

SameFlight(new, old) ==
  /\ new.key = old.key /\ new.compat = old.compat
  /\ new.waiters = old.waiters /\ new.cancelled = old.cancelled

FlightsGoOn == \A q \in Requests : request'[q] = Idle \/ SameFlight(request'[q], request[q])

FlightInv ==
  /\ \A q \in Requests : request[q].waiters > 0 => ~request[q].cancelled
  /\ \A q, r \in Requests :
       Registered(request[q]) /\ Registered(request[r]) /\ request[q].compat = request[r].compat
       /\ request[q].key = request[r].key => q = r

LEMMA FlightInit == Init => FlightInv
BY DEF Init, FlightInv, Idle, Registered

LEMMA FlightsKept == FlightInv /\ FlightsGoOn => FlightInv'
BY DEF FlightInv, FlightsGoOn, SameFlight, Registered, Idle

LEMMA DisturbedFlights ==
  ASSUME TypeOK, NEW S, NEW D, D = Disturbed(request, S)
  PROVE  /\ D \in [Requests -> Request]
         /\ \A q \in Requests : SameFlight(D[q], request[q])
<1> DEFINE row(q) == IF request[q].stage = "captured" /\ request[q].session \in S
                     THEN [request[q] EXCEPT !.stale = TRUE] ELSE request[q]
<1>1. ASSUME NEW q \in Requests PROVE row(q) \in Request /\ SameFlight(row(q), request[q])
  <2>1. request[q] \in Request
    BY DEF TypeOK
  <2> QED BY <2>1 DEF Request, SameFlight
<1>2. D = [q \in Requests |-> row(q)]
  BY DEF Disturbed
<1> HIDE DEF row
<1> QED BY <1>1, <1>2

\* The forms in which an operation writes the requests.
LEMMA FlightsWritten ==
  ASSUME TypeOK, NEW S, NEW D, D = request \/ D = Disturbed(request, S), NEW q \in Requests,
         \/ request' = D \/ request' = [D EXCEPT ![q] = Idle]
         \/ \E stage \in LinkStages : request' = [D EXCEPT ![q].stage = stage]
  PROVE  FlightsGoOn
<1>1. D \in [Requests -> Request] /\ \A r \in Requests : SameFlight(D[r], request[r])
  BY DisturbedFlights DEF TypeOK, SameFlight
<1>2. \A stage : SameFlight([D[q] EXCEPT !.stage = stage], D[q])
  BY <1>1 DEF SameFlight, Request
<1>3. \A r \in Requests : \/ request'[r] = D[r] \/ request'[r] = Idle
                         \/ \E stage : r = q /\ request'[r] = [D[q] EXCEPT !.stage = stage]
  BY <1>1
<1> SUFFICES ASSUME NEW r \in Requests, request'[r] # Idle
             PROVE  SameFlight(request'[r], request[r])
  BY DEF FlightsGoOn
<1>4. CASE request'[r] = D[r]
  BY <1>1, <1>4
<1>5. ASSUME NEW stage, r = q, request'[r] = [D[q] EXCEPT !.stage = stage]
      PROVE  SameFlight(request'[r], request[r])
  BY <1>1, <1>2, <1>5 DEF SameFlight
<1> QED BY <1>3, <1>4, <1>5

LEMMA OthersKeepFlights ==
  ASSUME TypeInv, [Next]_vars
  PROVE  \/ FlightsGoOn
         \/ \E q \in Requests : JoinFlight(q) \/ LeaveFlight(q)
         \/ \E q \in Requests, s \in Sessions : AuthRead(q, s)
         \/ \E q \in Requests, c \in Compats, key \in {"token", "id"} : CompatRead(q, c, key)
<1>0. TypeOK
  BY DEF TypeInv
<1>1. ASSUME UNCHANGED request \/ \E S : request' = Disturbed(request, S) PROVE FlightsGoOn
  BY <1>0, <1>1, DisturbedFlights DEF FlightsGoOn, SameFlight
<1>2. CASE Revocation
  BY <1>1, <1>2 DEF Revocation, RevokeSession, RevokeProfileSession,
       RevokeUnfinishedLinkedSession, RefreshRevokes, LogoutWeb, RotateCredential,
       LogoutLinkedSession, UpdateAccount, EndSessions
<1>3. CASE \/ \E s \in Sessions : ClearSelection(s) \/ MoveDevices(s) \/ DeviceMoves(s)
           \/ \E p \in Profiles : \/ RevokeProfileAccess(p) \/ GrantProfileAccess(p)
                                  \/ ChangeProfileAccess(p) \/ DisableProfile(p)
                                  \/ ScheduleTurns(p) \/ MoveProfiles(p)
           \/ \E c \in Compats : RevokeCompat(c)
           \/ Cleanup
           \/ UNCHANGED vars
  BY <1>1, <1>3 DEF ClearSelection, MoveDevices, DeviceMoves, EndSelected, RevokeProfileAccess,
       GrantProfileAccess, ChangeProfileAccess, DisableProfile, ScheduleTurns, MoveProfiles,
       RevokeCompat, Cleanup, vars
<1>4. ASSUME NEW q \in Requests, UseSelection(q) \/ Continue(q) PROVE FlightsGoOn
  <2>1. CASE UseSelection(q) \/ EndRequest(q) \/ FailFlight(q) \/ TouchCompat(q) \/ ExpelCompat(q)
    BY <1>0, <2>1, FlightsWritten
    DEF UseSelection, EndRequest, FailFlight, TouchCompat, ExpelCompat
  <2>2. CASE AuthRevoke(q) \/ AuthClear(q)
    BY <1>0, <2>2, FlightsWritten DEF AuthRevoke, AuthClear
  <2>3. CASE ReloadLinked(q) \/ RejectLinked(q)
    BY <1>0, <2>3, FlightsWritten DEF ReloadLinked, RejectLinked, LinkStages
  <2>4. CASE UpdateLinked(q)
    BY <1>0, <2>4, FlightsWritten DEF UpdateLinked, LinkStages
  <2> QED BY <1>4, <2>1, <2>2, <2>3, <2>4 DEF Continue
<1>5. ASSUME \/ \E s \in Sessions : Login(s) \/ \E p \in Profiles : LoginJellyfinProfile(s, p)
             \/ \E s \in Sessions, n \in Serials : Rotate(s, n)
             \/ \E c \in Compats, s \in Sessions : Issue(c, s)
             \/ Tick
      PROVE  FlightsGoOn
  BY <1>1, <1>5 DEF Login, LoginJellyfinProfile, Created, Rotate, Issue, Tick
<1>6. ASSUME \E s \in Sessions, p \in Profiles, linked \in BOOLEAN : Select(s, p, linked)
      PROVE  FlightsGoOn
  BY <1>1, <1>6 DEF Select
<1> QED BY <1>2, <1>3, <1>4, <1>5, <1>6, OtherOperations DEF QuietOperation

LEMMA FlightStep == TypeInv /\ FlightInv /\ [Next]_vars => FlightInv'
<1> SUFFICES ASSUME TypeInv, FlightInv, [Next]_vars PROVE FlightInv'
  OBVIOUS
<1>0. request \in [Requests -> Request] /\ MaxWaiters \in Nat
  BY AuthSessionsAssumption DEF TypeInv, TypeOK
<1>1. ASSUME NEW q \in Requests, JoinFlight(q) PROVE FlightInv'
  BY <1>0, <1>1 DEF JoinFlight, FlightInv, Registered, Request
<1>2. ASSUME NEW q \in Requests, LeaveFlight(q) PROVE FlightInv'
  <2> DEFINE row == [request[q] EXCEPT !.waiters = request[q].waiters - 1,
                       !.cancelled = IF request[q].waiters = 1 THEN TRUE ELSE request[q].cancelled]
  <2>1. /\ row.key = request[q].key /\ row.compat = request[q].compat
        /\ row.waiters > 0 => ~row.cancelled /\ request[q].waiters > 0
        /\ ~row.cancelled => ~request[q].cancelled
    BY <1>0, <1>2 DEF LeaveFlight, FlightInv, Request
  <2>2. \A r \in Requests : request'[r] = IF r = q THEN row ELSE request[r]
    BY <1>0, <1>2 DEF LeaveFlight
  <2> HIDE DEF row
  <2> QED BY <2>1, <2>2 DEF FlightInv, Registered
<1>3. ASSUME NEW q \in Requests, NEW s \in Sessions, AuthRead(q, s) PROVE FlightInv'
  <2>1. PICK stage \in {"revoke", "clear", "captured"} :
          request' = [request EXCEPT ![q] =
            [Idle EXCEPT !.session = s, !.profile = session[s].profile,
                         !.context = session[s].context, !.stage = stage]]
    BY <1>3 DEF AuthRead
  <2>2. \A r \in Requests : \/ request'[r] = request[r]
                           \/ (request'[r].waiters = 0 /\ request'[r].key = "none")
    BY <1>0, <2>1 DEF Idle
  <2> QED BY <2>2 DEF FlightInv, Registered
<1>4. ASSUME NEW q \in Requests, NEW c \in Compats, NEW key \in {"token", "id"}, CompatRead(q, c, key)
      PROVE  FlightInv'
  <2> DEFINE row == [Idle EXCEPT !.stage = "reload", !.compat = c, !.session = compat[c].session,
                                 !.profile = compat[c].profile, !.key = key, !.waiters = 1]
  <2>1. row.compat = c /\ row.key = key /\ ~row.cancelled
    BY DEF Idle
  <2>2. \A r \in Requests : request'[r] = IF r = q THEN row ELSE request[r]
    BY <1>0, <1>4 DEF CompatRead
  <2>3. \A r \in Requests : request[r].compat = c /\ request[r].key = key => ~Registered(request[r])
    BY <1>4 DEF CompatRead, FlightOf
  <2> HIDE DEF row
  <2> QED BY <2>1, <2>2, <2>3 DEF FlightInv, Registered
<1> QED BY <1>1, <1>2, <1>3, <1>4, OthersKeepFlights, FlightsKept

\* However many callers come and go, nobody waits for an authentication that others cancelled by
\* leaving it, and a token has one authentication at a time that is found.
THEOREM AuthFlightsShared == Spec => []FlightsShared
<1>1. FlightInv => FlightsShared
  <2> SUFFICES ASSUME FlightInv, NEW c \in Compats, NEW key \in {"token", "id"}
               PROVE  Cardinality(FlightOf(c, key)) <= 1
    BY DEF FlightsShared, FlightInv
  <2>1. CASE FlightOf(c, key) = {}
    BY <2>1, FS_EmptySet
  <2>2. ASSUME NEW q \in FlightOf(c, key) PROVE Cardinality(FlightOf(c, key)) <= 1
    <3>1. FlightOf(c, key) = {q}
      BY <2>2 DEF FlightInv, FlightOf
    <3>2. Cardinality({q}) = 1
      BY FS_Singleton
    <3> QED BY <3>1, <3>2
  <2> QED BY <2>1, <2>2
<1> QED BY <1>1, TypeInit, TypeStep, FlightInit, FlightStep, PTL DEF Spec
=============================================================================
