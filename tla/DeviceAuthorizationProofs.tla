--------------------- MODULE DeviceAuthorizationProofs ---------------------
(***************************************************************************)
(* Theorems about DeviceAuthorization, for any number of codes, sources,   *)
(* users and concurrent calls, any household and any limits.               *)
(***************************************************************************)
EXTENDS DeviceAuthorization, FiniteSetTheorems, WellFoundedInduction, TLAPS

-----------------------------------------------------------------------------
(* Type correctness. *)

\* An approval that may be written names the category it is for.
CategoryChosen ==
  \A q \in Requests :
    request[q].op = "approve" /\ (request[q].purpose = "native" \/ request[q].stage = "authorised") =>
      request[q].category \in Categories

TypeInv == TypeOK /\ CategoryChosen

LEMMA UnusedTyped ==
  /\ UnusedRow \in Row /\ DeletedRow \in Row
  /\ Consistent(UnusedRow) /\ Consistent(DeletedRow)
<1> USE DeviceAuthorizationAssumption
<1>1. (CHOOSE s \in Sources : TRUE) \in Sources /\ (CHOOSE i \in Clients : TRUE) \in Clients
  OBVIOUS
<1>2. 0 \in 0..CodeTTL /\ 0 \in 0..Interval
  OBVIOUS
<1>3. UnusedRow \in Row
  BY <1>1, <1>2 DEF UnusedRow, Row
<1>4. Consistent(UnusedRow)
  BY DEF UnusedRow, Consistent
<1>5. /\ UnusedRow.approver = NoUser /\ UnusedRow.category = NoCategory
      /\ UnusedRow.profile = NoProfile
  BY DEF UnusedRow
<1>6. DeletedRow \in Row
  BY <1>3 DEF DeletedRow, Row
<1>7. /\ DeletedRow.approver = NoUser /\ DeletedRow.category = NoCategory
      /\ DeletedRow.profile = NoProfile
  BY <1>3, <1>5 DEF DeletedRow, Row
<1> QED BY <1>3, <1>4, <1>6, <1>7 DEF Consistent

LEMMA HouseholdTyped ==
  ASSUME TypeOK
  PROVE  /\ household.users \subseteq Users /\ household.categories \subseteq Categories
         /\ household.sources \subseteq Sources /\ household.draws \in 0..Cardinality(Codes)
BY DeviceAuthorizationAssumption DEF TypeOK

\* The row of an inserted code.
LEMMA OpenRow ==
  ASSUME NEW purpose \in {"native", "quick"}, NEW source \in Sources, NEW client \in Clients
  PROVE  LET r == [UnusedRow EXCEPT !.state = "open", !.purpose = purpose, !.source = source,
                                    !.client = client, !.life = CodeTTL]
         IN  /\ r \in Row /\ Consistent(r)
             /\ r.state = "open" /\ r.purpose = purpose /\ r.source = source /\ r.client = client
             /\ r.approver = NoUser /\ r.profile = NoProfile /\ r.category = NoCategory
             /\ r.life = CodeTTL
<1> DEFINE r == [UnusedRow EXCEPT !.state = "open", !.purpose = purpose, !.source = source,
                                  !.client = client, !.life = CodeTTL]
<1>1. UnusedRow \in Row /\ UnusedRow.approver = NoUser /\ UnusedRow.category = NoCategory
        /\ UnusedRow.profile = NoProfile
  BY UnusedTyped DEF UnusedRow
<1>2. CodeTTL \in 0..CodeTTL
  BY DeviceAuthorizationAssumption
<1>3. /\ r \in Row
      /\ r.state = "open" /\ r.purpose = purpose /\ r.source = source /\ r.client = client
      /\ r.approver = NoUser /\ r.profile = NoProfile /\ r.category = NoCategory
      /\ r.life = CodeTTL
  BY <1>1, <1>2 DEF Row
<1> QED BY <1>3, DeviceAuthorizationAssumption DEF Consistent

\* What a row keeps when one of its fields is written.
LEMMA RowWritten ==
  ASSUME NEW r \in Row, Consistent(r)
  PROVE  /\ LET s == [r EXCEPT !.state = "consumed"] IN
              /\ s \in Row /\ Consistent(s) /\ s.state = "consumed"
              /\ s.approver = r.approver /\ s.profile = r.profile /\ s.category = r.category
              /\ s.purpose = r.purpose /\ s.source = r.source
         /\ LET s == [r EXCEPT !.wait = Interval] IN
              /\ s \in Row /\ Consistent(s) /\ s.state = r.state /\ s.life = r.life
              /\ s.approver = r.approver /\ s.profile = r.profile /\ s.category = r.category
              /\ s.purpose = r.purpose /\ s.source = r.source /\ s.client = r.client
         /\ LET s == [r EXCEPT !.life = Lower(@), !.wait = Lower(@)] IN
              /\ s \in Row /\ Consistent(s) /\ s.state = r.state /\ s.life = Lower(r.life)
              /\ s.approver = r.approver /\ s.profile = r.profile /\ s.category = r.category
              /\ s.purpose = r.purpose /\ s.source = r.source /\ s.client = r.client
<1> USE DeviceAuthorizationAssumption
<1>1. Interval \in 0..Interval /\ Lower(r.life) \in 0..CodeTTL /\ Lower(r.wait) \in 0..Interval
  BY DEF Row, Lower
<1> DEFINE consumed == [r EXCEPT !.state = "consumed"]
           polled == [r EXCEPT !.wait = Interval]
           older == [r EXCEPT !.life = Lower(r.life), !.wait = Lower(r.wait)]
<1>2. consumed \in Row /\ polled \in Row /\ older \in Row
  BY <1>1 DEF Row
<1>3. /\ consumed.state = "consumed"
      /\ consumed.approver = r.approver /\ consumed.profile = r.profile
      /\ consumed.category = r.category /\ consumed.purpose = r.purpose
      /\ consumed.source = r.source
  BY DEF Row
<1>4. /\ polled.state = r.state /\ polled.life = r.life
      /\ polled.approver = r.approver /\ polled.profile = r.profile
      /\ polled.category = r.category /\ polled.purpose = r.purpose
      /\ polled.source = r.source /\ polled.client = r.client
  BY DEF Row
<1>5. /\ older.state = r.state /\ older.life = Lower(r.life)
      /\ older.approver = r.approver /\ older.profile = r.profile
      /\ older.category = r.category /\ older.purpose = r.purpose
      /\ older.source = r.source /\ older.client = r.client
  BY DEF Row
<1>6. Consistent(consumed) /\ Consistent(polled) /\ Consistent(older)
  <2> HIDE DEF consumed, polled, older
  <2> QED BY <1>3, <1>4, <1>5 DEF Consistent
<1> QED BY <1>2, <1>3, <1>4, <1>5, <1>6

\* The row of an approved code.
LEMMA ApprovedRow ==
  ASSUME NEW r \in Row, NEW a \in ApproveCall, r.purpose = a.purpose, a.category \in Categories
  PROVE  LET s == [r EXCEPT !.approver = a.user, !.category = a.category,
                            !.profile = ApprovedProfile(a)]
         IN  /\ s \in Row /\ Consistent(s)
             /\ s.state = r.state /\ s.life = r.life /\ s.purpose = r.purpose
             /\ s.source = r.source /\ s.client = r.client
             /\ s.approver = a.user /\ s.category = a.category /\ s.profile = ApprovedProfile(a)
<1> USE DeviceAuthorizationAssumption
<1> DEFINE profile == ApprovedProfile(a)
<1>1. /\ a.user \in Users /\ profile \in Profiles \cup {NoProfile}
      /\ profile # NoProfile <=> r.purpose = "quick"
  BY DEF ApproveCall, ApprovedProfile
<1> HIDE DEF profile
<1> DEFINE s == [r EXCEPT !.approver = a.user, !.category = a.category, !.profile = profile]
<1>2. /\ s \in Row
      /\ s.state = r.state /\ s.life = r.life /\ s.purpose = r.purpose
      /\ s.source = r.source /\ s.client = r.client
      /\ s.approver = a.user /\ s.category = a.category /\ s.profile = profile
  BY <1>1 DEF Row
<1> HIDE DEF s
<1>3. Consistent(s)
  BY <1>1, <1>2 DEF Consistent
<1> QED BY <1>2, <1>3 DEF s, profile

\* There is a code left to draw.
LEMMA DrawnCode ==
  ASSUME TypeOK, Cardinality(Codes \ Undrawn) < household.draws
  PROVE  (CHOOSE c \in Undrawn : TRUE) \in Undrawn /\ Undrawn \subseteq Codes
<1>1. /\ Cardinality(Codes) \in Nat /\ IsFiniteSet(Codes)
      /\ household.draws \in 0..Cardinality(Codes)
  BY DeviceAuthorizationAssumption, FS_CardinalityType, HouseholdTyped
<1>2. CASE Undrawn = {}
  <2>1. Codes \ Undrawn = Codes
    BY <1>2
  <2> QED BY <1>1, <2>1
<1>3. CASE Undrawn # {}
  BY <1>3 DEF Undrawn
<1> QED BY <1>2, <1>3

\* The calls in progress by their operation.
LEMMA CallsByOperation ==
  ASSUME TypeOK, NEW q \in Requests
  PROVE  /\ request[q].op = "begin" => request[q] \in BeginCall
         /\ request[q].op = "approve" => request[q] \in ApproveCall
         /\ request[q].op = "exchange" => request[q] \in ExchangeCall
         /\ request[q].op = "quick" => request[q] \in QuickCall
         /\ request[q].op = "idle" => request[q] = Idle
BY DEF TypeOK, Idle, BeginCall, ApproveCall, ExchangeCall, QuickCall

\* The calls that an exchange goes through.
LEMMA StagesTyped ==
  /\ \A r \in ExchangeCall, stage \in {"discovered", "owned", "checked"} :
       LET s == [r EXCEPT !.stage = stage] IN
         /\ s \in ExchangeCall /\ s.op = "exchange" /\ s.stage = stage
         /\ s.code = r.code /\ s.user = r.user
  /\ \A r \in QuickCall, stage \in {"read", "owned", "checked"} :
       LET s == [r EXCEPT !.stage = stage] IN
         /\ s \in QuickCall /\ s.op = "quick" /\ s.stage = stage
         /\ s.code = r.code /\ s.user = r.user /\ s.profile = r.profile /\ s.category = r.category
BY DEF ExchangeCall, QuickCall

Call == {Idle} \cup BeginCall \cup ApproveCall \cup ExchangeCall \cup QuickCall

\* A call that is no authorised approval, or one for a category, may take its place.
LEMMA CallTyped ==
  ASSUME TypeInv, NEW q \in Requests, NEW r \in Call, Goes(q, r),
         r.op = "approve" /\ (r.purpose = "native" \/ r.stage = "authorised") => r.category \in Categories
  PROVE  request' \in [Requests -> Call] /\ CategoryChosen'
<1>1. \A p \in Requests : request'[p] = IF p = q THEN r ELSE request[p]
  BY DEF TypeInv, TypeOK, Goes
<1>2. request' \in [Requests -> Call]
  BY DEF TypeInv, TypeOK, Goes, Call
<1>3. CategoryChosen'
  BY <1>1 DEF TypeInv, CategoryChosen
<1> QED BY <1>2, <1>3

LEMMA TypeInit == Init => TypeInv
<1> SUFFICES ASSUME Init PROVE TypeInv
  OBVIOUS
<1>1. household.users \subseteq Users /\ household.categories \subseteq Categories
  BY DeviceAuthorizationAssumption DEF Init
<1>2. row \in [Codes -> Row] /\ \A c \in Codes : Consistent(row[c])
  BY UnusedTyped DEF Init
<1>3. CategoryChosen
  BY DEF Init, CategoryChosen, Idle
<1> QED BY <1>1, <1>2, <1>3 DEF Init, TypeInv, TypeOK

\* A call that only moves on, or ends.
LEMMA TypeIfOnlyCalls ==
  ASSUME TypeInv, NEW q \in Requests, NEW r \in Call, Goes(q, r),
         r.op = "approve" /\ (r.purpose = "native" \/ r.stage = "authorised") => r.category \in Categories,
         UNCHANGED <<row, account, device, issued>>
  PROVE  TypeInv'
BY CallTyped DEF TypeInv, TypeOK, account, device, Call, Consistent

LEMMA IdleTyped == Idle \in Call /\ Idle.op = "idle"
BY DEF Call, Idle

\* A call ends, and only rows have been written.
LEMMA TypeIfRowWritten ==
  ASSUME TypeInv, NEW q \in Requests, Ends(q),
         row' \in [Codes -> Row], \A c \in Codes : Consistent(row'[c]),
         UNCHANGED account, devices' \in [Users -> Nat], linked' \subseteq Users \X Profiles \X Clients,
         issued' \in [Codes -> Nat]
  PROVE  TypeInv'
<1>1. request' \in [Requests -> Call] /\ CategoryChosen'
  BY CallTyped, IdleTyped DEF Ends
<1> QED BY <1>1 DEF TypeInv, TypeOK, account, Call

LEMMA TypeBegin == ASSUME TypeInv, NEW q \in Requests, Begin(q) PROVE TypeInv'
<1>1. ASSUME NEW purpose \in Purposes, NEW source \in household.sources, NEW client \in Clients,
             AdmitCode(q, purpose, source, client)
      PROVE  TypeInv'
  <2> DEFINE r == [op |-> "begin", stage |-> "admitted", code |-> CHOOSE c \in Undrawn : TRUE,
                   purpose |-> purpose, source |-> source, client |-> client,
                   doomed |-> Stale \cup Replaced(purpose, client)]
  <2>1. (CHOOSE c \in Undrawn : TRUE) \in Codes
    BY <1>1, DrawnCode DEF AdmitCode, TypeInv
  <2>2. /\ purpose \in {"native", "quick"} /\ source \in Sources
        /\ Stale \cup Replaced(purpose, client) \subseteq Codes
    BY HouseholdTyped, DeviceAuthorizationAssumption DEF Stale, Replaced, TypeInv
  <2>3. r \in BeginCall
    BY <2>1, <2>2 DEF BeginCall
  <2>4. r.op = "begin" /\ Goes(q, r) /\ UNCHANGED <<row, account, device, issued>>
    BY <1>1 DEF AdmitCode
  <2> HIDE DEF r
  <2> QED BY <2>3, <2>4, TypeIfOnlyCalls DEF Call
<1>2. ASSUME InsertCode(q) PROVE TypeInv'
  <2> DEFINE r == request[q]
             open == [UnusedRow EXCEPT !.state = "open", !.purpose = r.purpose,
                                       !.source = r.source, !.client = r.client, !.life = CodeTTL]
  <2>1. r \in BeginCall
    BY <1>2, CallsByOperation DEF InsertCode, TypeInv
  <2>2. open \in Row /\ Consistent(open)
    <3>1. r.purpose \in {"native", "quick"} /\ r.source \in Sources /\ r.client \in Clients
      BY <2>1 DEF BeginCall
    <3> HIDE DEF r
    <3> QED BY <3>1, OpenRow
  <2>3. row' = [c \in Codes |-> IF c = r.code THEN open
                                ELSE IF c \in r.doomed THEN DeletedRow ELSE row[c]]
    BY <1>2 DEF InsertCode
  <2> HIDE DEF open
  <2>4. row' \in [Codes -> Row] /\ \A c \in Codes : Consistent(row'[c])
    BY <2>2, <2>3, UnusedTyped DEF TypeInv, TypeOK
  <2> QED BY <1>2, <2>4, TypeIfRowWritten DEF InsertCode, device, TypeInv, TypeOK
<1> QED BY <1>1, <1>2 DEF Begin

\* The rows of an authorised approval.
LEMMA AuthorisedTyped ==
  ASSUME NEW r \in ApproveCall, NEW locked \in SUBSET Profiles
  PROVE  /\ LET s == [r EXCEPT !.stage = "authorised", !.locked = locked] IN
              /\ s \in ApproveCall /\ s.op = "approve" /\ s.stage = "authorised"
              /\ s.code = r.code /\ s.user = r.user /\ s.profile = r.profile
              /\ s.purpose = r.purpose /\ s.category = r.category /\ s.locked = locked
         /\ \A k \in Categories :
              LET s == [r EXCEPT !.stage = "authorised", !.locked = locked, !.category = k] IN
                /\ s \in ApproveCall /\ s.op = "approve" /\ s.stage = "authorised"
                /\ s.code = r.code /\ s.user = r.user /\ s.profile = r.profile
                /\ s.purpose = r.purpose /\ s.category = k /\ s.locked = locked
BY DEF ApproveCall

\* The profile whose management justifies a native approval.
LEMMA ManagedProfile ==
  ASSUME NEW u, NEW k, Managed(u, k) # {}
  PROVE  (CHOOSE p \in Managed(u, k) : TRUE) \in Managed(u, k) /\ Managed(u, k) \subseteq Profiles
BY DEF Managed

\* How an approval is authorised, by protocol.
LEMMA AuthorisedApproval ==
  ASSUME TypeInv, NEW q \in Requests, AuthorizeApprover(q)
  PROVE  \/ Ends(q)
         \/ \E s \in ApproveCall :
              /\ Goes(q, s) /\ s.stage = "authorised" /\ request[q].user \in users
              /\ s.code = request[q].code /\ s.user = request[q].user
              /\ s.profile = request[q].profile /\ s.purpose = request[q].purpose
              /\ s.category \in Categories /\ s.profile \in s.locked
              /\ s.purpose = "quick" => /\ MayApproveQuick(s.user, s.profile)
                                        /\ s.category = category[s.profile]
              /\ s.purpose = "native" /\ s.user \notin admins =>
                   \E p \in s.locked : p \in Managed(s.user, s.category)
<1> DEFINE r == request[q]
           others == IF r.user \in admins THEN {} ELSE {CHOOSE p \in Managed(r.user, r.category) : TRUE}
           quick == [r EXCEPT !.stage = "authorised", !.locked = {r.profile},
                              !.category = category[r.profile]]
           native == [r EXCEPT !.stage = "authorised", !.locked = {r.profile} \cup others]
<1>1. r \in ApproveCall /\ r.profile \in Profiles /\ category[r.profile] \in Categories
        /\ r.purpose \in {"native", "quick"} /\ r.op = "approve"
  BY CallsByOperation DEF AuthorizeApprover, At, TypeInv, TypeOK, ApproveCall
<1>2. \/ Ends(q)
      \/ /\ r.user \in users /\ r.purpose = "quick" /\ MayApproveQuick(r.user, r.profile)
         /\ Goes(q, quick)
      \/ /\ r.user \in users /\ r.purpose # "quick"
         /\ MayApproveNative(r.user, r.profile, r.category)
         /\ Goes(q, native)
  BY DEF AuthorizeApprover
<1>3. CASE r.user \in users /\ r.purpose = "quick" /\ MayApproveQuick(r.user, r.profile)
             /\ Goes(q, quick)
  <2>1. /\ quick \in ApproveCall /\ quick.op = "approve" /\ quick.stage = "authorised"
        /\ quick.code = r.code /\ quick.user = r.user /\ quick.profile = r.profile
        /\ quick.purpose = r.purpose /\ quick.category = category[r.profile]
        /\ quick.locked = {r.profile}
    BY <1>1 DEF ApproveCall
  <2> HIDE DEF quick
  <2> QED BY <1>1, <1>3, <2>1
<1>4. CASE r.user \in users /\ r.purpose # "quick"
             /\ MayApproveNative(r.user, r.profile, r.category) /\ Goes(q, native)
  <2>1. /\ others \subseteq Profiles
        /\ r.user \notin admins => \E p \in others : p \in Managed(r.user, r.category)
    BY <1>4, ManagedProfile DEF MayApproveNative
  <2>2. r.category \in Categories
    BY <1>1, <1>4 DEF TypeInv, CategoryChosen
  <2> HIDE DEF others
  <2>3. /\ native \in ApproveCall /\ native.op = "approve" /\ native.stage = "authorised"
        /\ native.code = r.code /\ native.user = r.user /\ native.profile = r.profile
        /\ native.purpose = r.purpose /\ native.category = r.category
        /\ native.locked = {r.profile} \cup others
    BY <1>1, <2>1 DEF ApproveCall
  <2> HIDE DEF native
  <2> QED BY <1>1, <1>4, <2>1, <2>2, <2>3
<1> QED BY <1>2, <1>3, <1>4

LEMMA TypeApprove == ASSUME TypeInv, NEW q \in Requests, Approve(q) PROVE TypeInv'
<1>1. ASSUME NEW c \in Codes, NEW u \in Users, NEW p \in Profiles, NEW k \in household.categories,
             FindCode(q, c, u, p, k)
      PROVE  TypeInv'
  <2> DEFINE r == [op |-> "approve", stage |-> "found", code |-> c, purpose |-> row[c].purpose,
                   user |-> u, profile |-> p, locked |-> {},
                   category |-> IF row[c].purpose = "quick" THEN NoCategory ELSE k]
  <2>1. row[c].purpose \in {"native", "quick"} /\ k \in Categories
    BY HouseholdTyped DEF TypeInv, TypeOK, Row
  <2>2. /\ r \in ApproveCall /\ r.op = "approve" /\ r.stage = "found"
        /\ r.purpose = "native" => r.category \in Categories
    BY <2>1 DEF ApproveCall
  <2>3. Goes(q, r) /\ UNCHANGED <<row, account, device, issued>>
    BY <1>1 DEF FindCode
  <2> HIDE DEF r
  <2> QED BY <2>2, <2>3, TypeIfOnlyCalls DEF Call
<1>2. ASSUME AuthorizeApprover(q) PROVE TypeInv'
  <2>1. UNCHANGED <<row, account, device, issued>>
    BY <1>2 DEF AuthorizeApprover
  <2>2. CASE Ends(q)
    BY <2>1, <2>2, TypeIfOnlyCalls, IdleTyped DEF Ends
  <2>3. ASSUME NEW s \in ApproveCall, Goes(q, s), s.category \in Categories PROVE TypeInv'
    BY <2>1, <2>3, TypeIfOnlyCalls DEF Call
  <2> QED BY <1>2, <2>2, <2>3, AuthorisedApproval
<1>3. ASSUME ApproveCode(q) PROVE TypeInv'
  <2> DEFINE r == request[q]
             approved == [row[r.code] EXCEPT !.approver = r.user, !.category = r.category,
                                             !.profile = ApprovedProfile(r)]
  <2>1. r \in ApproveCall /\ r.code \in Codes /\ r.category \in Categories
    BY <1>3, CallsByOperation DEF ApproveCode, At, TypeInv, CategoryChosen, ApproveCall
  <2>2. row[r.code] \in Row
    BY <2>1 DEF TypeInv, TypeOK
  <2>3. \/ UNCHANGED row
        \/ row[r.code].purpose = r.purpose /\ row' = [row EXCEPT ![r.code] = approved]
    BY <1>3 DEF ApproveCode, Approvable
  <2>4. row[r.code].purpose = r.purpose => approved \in Row /\ Consistent(approved)
    BY <2>1, <2>2, ApprovedRow
  <2> HIDE DEF approved
  <2>5. row' \in [Codes -> Row] /\ \A c \in Codes : Consistent(row'[c])
    BY <2>3, <2>4 DEF TypeInv, TypeOK
  <2> QED BY <1>3, <2>5, TypeIfRowWritten DEF ApproveCode, device, TypeInv, TypeOK
<1> QED BY <1>1, <1>2, <1>3 DEF Approve

LEMMA TypeExchange == ASSUME TypeInv, NEW q \in Requests, Exchange(q) PROVE TypeInv'
<1> USE DeviceAuthorizationAssumption
<1>1. ASSUME NEW c \in Codes, Discover(q, c) PROVE TypeInv'
  <2> DEFINE r == [op |-> "exchange", code |-> c, user |-> row[c].approver,
                   stage |-> IF row[c].approver = NoUser THEN "owned" ELSE "discovered"]
  <2>1. row[c].approver \in Users \cup {NoUser}
    BY DEF TypeInv, TypeOK, Row
  <2>2. r \in ExchangeCall /\ r.op = "exchange"
    BY <2>1 DEF ExchangeCall
  <2>3. Goes(q, r) /\ UNCHANGED <<row, account, device, issued>>
    BY <1>1 DEF Discover
  <2> HIDE DEF r
  <2> QED BY <2>2, <2>3, TypeIfOnlyCalls DEF Call
<1>2. ASSUME NEW c \in Codes, ReadApproval(q, c) PROVE TypeInv'
  <2> DEFINE r == [op |-> "quick", stage |-> "read", code |-> c, user |-> row[c].approver,
                   profile |-> row[c].profile, category |-> row[c].category]
  <2>1. /\ row[c] \in Row /\ Consistent(row[c])
        /\ row[c].approver # NoUser /\ row[c].purpose = "quick"
    BY <1>2 DEF ReadApproval, TypeInv, TypeOK
  <2>2. row[c].approver \in Users /\ row[c].profile \in Profiles /\ row[c].category \in Categories
    BY <2>1 DEF Consistent, Row
  <2>3. r \in QuickCall /\ r.op = "quick"
    BY <2>2 DEF QuickCall
  <2>4. Goes(q, r) /\ UNCHANGED <<row, account, device, issued>>
    BY <1>2 DEF ReadApproval
  <2> HIDE DEF r
  <2> QED BY <2>3, <2>4, TypeIfOnlyCalls DEF Call
<1>3. ASSUME UNCHANGED <<row, account, device, issued>>, request[q] \in ExchangeCall,
             \/ Ends(q) \/ GoesTo(q, "owned") \/ GoesTo(q, "checked")
      PROVE  TypeInv'
  <2>1. CASE Ends(q)
    BY <1>3, <2>1, TypeIfOnlyCalls, IdleTyped DEF Ends
  <2>2. ASSUME NEW stage \in {"discovered", "owned", "checked"}, GoesTo(q, stage) PROVE TypeInv'
    <3> DEFINE s == [request[q] EXCEPT !.stage = stage]
    <3>1. s \in ExchangeCall /\ s.op = "exchange"
      BY <1>3 DEF ExchangeCall
    <3>2. Goes(q, s)
      BY <2>2 DEF GoesTo
    <3> HIDE DEF s
    <3> QED BY <1>3, <3>1, <3>2, TypeIfOnlyCalls DEF Call
  <2> QED BY <1>3, <2>1, <2>2
<1>4. ASSUME UNCHANGED <<row, account, device, issued>>, request[q] \in QuickCall,
             \/ Ends(q) \/ GoesTo(q, "owned") \/ GoesTo(q, "checked")
      PROVE  TypeInv'
  <2>1. CASE Ends(q)
    BY <1>4, <2>1, TypeIfOnlyCalls, IdleTyped DEF Ends
  <2>2. ASSUME NEW stage \in {"read", "owned", "checked"}, GoesTo(q, stage) PROVE TypeInv'
    <3> DEFINE s == [request[q] EXCEPT !.stage = stage]
    <3>1. s \in QuickCall /\ s.op = "quick"
      BY <1>4 DEF QuickCall
    <3>2. Goes(q, s)
      BY <2>2 DEF GoesTo
    <3> HIDE DEF s
    <3> QED BY <1>4, <3>1, <3>2, TypeIfOnlyCalls DEF Call
  <2> QED BY <1>4, <2>1, <2>2
<1>5. ASSUME LockOwner(q) PROVE TypeInv'
  <2>1. request[q] \in ExchangeCall
    BY <1>5, CallsByOperation DEF LockOwner, At, TypeInv
  <2> QED BY <1>3, <1>5, <2>1 DEF LockOwner
<1>6. ASSUME CheckCode(q) PROVE TypeInv'
  <2> DEFINE c == request[q].code
             polled == [row[c] EXCEPT !.wait = Interval]
  <2>1. request[q] \in ExchangeCall /\ c \in Codes
    BY <1>6, CallsByOperation DEF CheckCode, At, TypeInv, ExchangeCall
  <2>2. CASE UNCHANGED row
    BY <1>3, <1>6, <2>1, <2>2 DEF CheckCode
  <2>3. CASE row' # row
    <3>1. Ends(q) /\ row' = [row EXCEPT ![c].wait = Interval]
      BY <1>6, <2>3 DEF CheckCode
    <3>2. polled \in Row /\ Consistent(polled)
      BY <2>1, RowWritten DEF TypeInv, TypeOK
    <3>3. row' = [row EXCEPT ![c] = polled]
      BY <3>1
    <3> HIDE DEF polled
    <3>4. row' \in [Codes -> Row] /\ \A d \in Codes : Consistent(row'[d])
      BY <3>2, <3>3 DEF TypeInv, TypeOK
    <3> QED BY <1>6, <3>1, <3>4, TypeIfRowWritten DEF CheckCode, device, TypeInv, TypeOK
  <2> QED BY <2>2, <2>3
<1>7. ASSUME NEW c \in Codes, row' = [row EXCEPT ![c].state = "consumed"]
      PROVE  row' \in [Codes -> Row] /\ \A d \in Codes : Consistent(row'[d])
  <2> DEFINE consumed == [row[c] EXCEPT !.state = "consumed"]
  <2>1. row[c] \in Row /\ Consistent(row[c])
    BY DEF TypeInv, TypeOK
  <2>2. consumed \in Row /\ Consistent(consumed)
    BY <2>1, RowWritten
  <2>3. row' = [row EXCEPT ![c] = consumed]
    BY <1>7
  <2> HIDE DEF consumed
  <2> QED BY <2>2, <2>3 DEF TypeInv, TypeOK
<1>8. ASSUME IssueNative(q) PROVE TypeInv'
  <2>1. request[q] \in ExchangeCall /\ request[q].code \in Codes
    BY <1>8, CallsByOperation DEF IssueNative, At, TypeInv, ExchangeCall
  <2>2. devices' \in [Users -> Nat] /\ issued' \in [Codes -> Nat]
    <3>1. devices \in [Users -> Nat] /\ issued \in [Codes -> Nat]
      BY DEF TypeInv, TypeOK
    <3>2. devices' \in [Users -> Nat]
      <4>1. devices' = [u \in Users |-> IF u = request[q].user THEN devices[u] + 1 ELSE devices[u]]
        BY <1>8, <3>1 DEF IssueNative
      <4>2. \A u \in Users : devices[u] + 1 \in Nat
        BY <3>1
      <4> QED BY <3>1, <4>1, <4>2
    <3>3. issued' \in [Codes -> Nat]
      BY <1>8, <2>1, <3>1 DEF IssueNative
    <3> QED BY <3>2, <3>3
  <2> QED BY <1>7, <1>8, <2>1, <2>2, TypeIfRowWritten DEF IssueNative, TypeInv, TypeOK
<1>9. ASSUME LockApproval(q) PROVE TypeInv'
  <2>1. request[q] \in QuickCall
    BY <1>9, CallsByOperation DEF LockApproval, At, TypeInv
  <2> QED BY <1>4, <1>9, <2>1 DEF LockApproval
<1>10. ASSUME CheckApproval(q) PROVE TypeInv'
  <2>1. request[q] \in QuickCall
    BY <1>10, CallsByOperation DEF CheckApproval, At, TypeInv
  <2> QED BY <1>4, <1>10, <2>1 DEF CheckApproval
<1>11. ASSUME IssueQuick(q) PROVE TypeInv'
  <2>1. request[q] \in QuickCall /\ request[q].code \in Codes
          /\ request[q].user \in Users /\ request[q].profile \in Profiles
    BY <1>11, CallsByOperation DEF IssueQuick, At, TypeInv, QuickCall
  <2>2. row[request[q].code].client \in Clients
    BY <2>1 DEF TypeInv, TypeOK, Row
  <2>3. linked' \subseteq Users \X Profiles \X Clients /\ issued' \in [Codes -> Nat]
    BY <1>11, <2>1, <2>2 DEF IssueQuick, TypeInv, TypeOK
  <2>4. row' \in [Codes -> Row] /\ \A d \in Codes : Consistent(row'[d])
    BY <1>7, <1>11, <2>1 DEF IssueQuick, TypeInv, TypeOK
  <2> QED BY <1>11, <2>3, <2>4, TypeIfRowWritten DEF IssueQuick, TypeInv, TypeOK
<1> QED BY <1>1, <1>2, <1>5, <1>6, <1>8, <1>9, <1>10, <1>11 DEF Exchange

\* Rows that are gone.
LEMMA RowsDeleted ==
  ASSUME TypeInv, NEW D, row' = [c \in Codes |-> IF c \in D THEN DeletedRow ELSE row[c]]
  PROVE  row' \in [Codes -> Row] /\ \A c \in Codes : Consistent(row'[c])
BY UnusedTyped DEF TypeInv, TypeOK

LEMMA TypeStep == TypeInv /\ [Next]_vars => TypeInv'
<1> SUFFICES ASSUME TypeInv, [Next]_vars PROVE TypeInv'
  OBVIOUS
<1> USE DeviceAuthorizationAssumption
<1>1. ASSUME NEW q \in Requests, Abandon(q) PROVE TypeInv'
  BY <1>1, TypeIfOnlyCalls, IdleTyped DEF Abandon, Ends
<1>2. CASE Cleanup
  <2>1. row' \in [Codes -> Row] /\ \A c \in Codes : Consistent(row'[c])
    BY <1>2, RowsDeleted DEF Cleanup
  <2> QED BY <1>2, <2>1 DEF Cleanup, TypeInv, TypeOK, account, device, CategoryChosen
<1>3. ASSUME NEW u \in Users, NEW p \in Profiles, NEW g \in {"none", "use", "manage"},
             SetGrant(u, p, g)
      PROVE  TypeInv'
  <2> DEFINE mine == [grant[u] EXCEPT ![p] = g]
  <2>1. mine \in [Profiles -> {"none", "use", "manage"}]
    BY DEF TypeInv, TypeOK
  <2>2. grant' = [grant EXCEPT ![u] = mine]
    BY <1>3 DEF SetGrant
  <2> HIDE DEF mine
  <2>3. grant' \in [Users -> [Profiles -> {"none", "use", "manage"}]]
    BY <2>1, <2>2 DEF TypeInv, TypeOK
  <2> QED BY <1>3, <2>3 DEF SetGrant, TypeInv, TypeOK, device, CategoryChosen, Consistent
<1>9. ASSUME NEW u \in Users, SetRole(u) PROVE TypeInv'
  BY <1>9 DEF SetRole, TypeInv, TypeOK, device, CategoryChosen, Consistent
<1>4. ASSUME NEW p \in Profiles, NEW k \in household.categories, MoveProfile(p, k) PROVE TypeInv'
  <2>1. k \in Categories
    BY HouseholdTyped DEF TypeInv
  <2> QED BY <1>4, <2>1 DEF MoveProfile, TypeInv, TypeOK, device, CategoryChosen, Consistent
<1>5. ASSUME NEW u \in Users, DeleteUser(u) PROVE TypeInv'
  <2>1. row' = [c \in Codes |-> IF c \in {d \in Codes : row[d].approver = u}
                                THEN DeletedRow ELSE row[c]]
    BY <1>5 DEF DeleteUser
  <2>2. row' \in [Codes -> Row] /\ \A c \in Codes : Consistent(row'[c])
    BY <2>1, RowsDeleted
  <2>3. grant' \in [Users -> [Profiles -> {"none", "use", "manage"}]]
    BY <1>5 DEF DeleteUser, TypeInv, TypeOK
  <2> QED BY <1>5, <2>2, <2>3 DEF DeleteUser, TypeInv, TypeOK, CategoryChosen
<1>6. ASSUME NEW u \in Users, RemoveDevice(u) PROVE TypeInv'
  <2>1. devices' \in [Users -> Nat] /\ linked' \subseteq linked
    BY <1>6 DEF RemoveDevice, TypeInv, TypeOK
  <2> QED BY <1>6, <2>1 DEF RemoveDevice, TypeInv, TypeOK, account, CategoryChosen, Consistent
<1>7. CASE Tick
  <2> DEFINE older(c) == [row[c] EXCEPT !.life = Lower(@), !.wait = Lower(@)]
  <2>1. ASSUME NEW c \in Codes PROVE older(c) \in Row /\ Consistent(older(c))
    <3>1. row[c] \in Row /\ Consistent(row[c])
      BY DEF TypeInv, TypeOK
    <3> QED BY <3>1, RowWritten
  <2>2. row' = [c \in Codes |-> older(c)]
    BY <1>7 DEF Tick
  <2> HIDE DEF older
  <2>3. row' \in [Codes -> Row] /\ \A c \in Codes : Consistent(row'[c])
    BY <2>1, <2>2
  <2> QED BY <1>7, <2>3 DEF Tick, TypeInv, TypeOK, account, device, CategoryChosen
<1>8. CASE UNCHANGED vars
  BY <1>8 DEF vars, TypeInv, TypeOK, CategoryChosen, Consistent
<1> QED BY <1>1, <1>2, <1>3, <1>4, <1>5, <1>6, <1>7, <1>8, <1>9, TypeBegin, TypeApprove, TypeExchange
     DEF Next

\* Every row, request and count has its type, and every stored code obeys the table's constraints:
\* the approver and the category are there together, and the profile with a Quick Connect approval only.
THEOREM DeviceTypeCorrect == Spec => []TypeOK
<1>1. Spec => []TypeInv
  BY TypeInit, TypeStep, PTL DEF Spec
<1> QED BY <1>1, PTL DEF TypeInv

-----------------------------------------------------------------------------
(* One session per code. *)

\* The exchanges that have locked their code and are about to consume it.
Checked(q) == At(q, "exchange", "checked") \/ At(q, "quick", "checked")

\* A code that has not been consumed has issued nothing.
Unissued == \A c \in Codes : row[c].state \in {"unused", "open"} => issued[c] = 0

\* Codes that are drawn are nobody's yet.
DrawnUnused ==
  /\ \A q, r \in Requests : request[q].op = "begin" /\ request[r].op = "begin" => q = r
  /\ \A q \in Requests : request[q].op = "begin" => row[request[q].code].state = "unused"
  /\ \A c \in Codes : row[c].state = "unused" => row[c].approver = NoUser

\* What the lock of a code protects: it stays open, for one exchange, and no begin deletes it.
CheckedOpen == \A q \in Requests : Checked(q) => row[request[q].code].state = "open"
CheckedOnce ==
  \A q, r \in Requests : Checked(q) /\ Checked(r) /\ request[q].code = request[r].code => q = r
DoomedUnchecked ==
  \A q, r \in Requests : request[q].op = "begin" /\ Checked(r) => request[r].code \notin request[q].doomed

CodeInv ==
  /\ \A c \in Codes : issued[c] <= 1
  /\ Unissued /\ DrawnUnused /\ CheckedOpen /\ CheckedOnce /\ DoomedUnchecked

LEMMA CodeInit == Init => CodeInv
<1> SUFFICES ASSUME Init PROVE CodeInv
  OBVIOUS
<1>1. \A q \in Requests : request[q].op = "idle"
  BY DEF Init, Idle
<1>2. \A c \in Codes : issued[c] = 0 /\ row[c].approver = NoUser
  BY DEF Init, UnusedRow
<1> QED BY <1>1, <1>2
     DEF CodeInv, Unissued, DrawnUnused, CheckedOpen, CheckedOnce, DoomedUnchecked, Checked, At

\* Steps that lock no code and begin nothing, and leave every code in its state.
LEMMA CodeIfStatesSame ==
  ASSUME TypeInv, CodeInv, UNCHANGED issued,
         \A c \in Codes : /\ row'[c].state = row[c].state
                          /\ row[c].state = "unused" => row'[c].approver = row[c].approver,
         \A q \in Requests : request'[q] = request[q] \/ (request'[q].op # "begin" /\ ~Checked(q)')
  PROVE  CodeInv'
<1>1. \A q \in Requests : request[q].op = "begin" \/ Checked(q) => request[q].code \in Codes
  BY CallsByOperation DEF TypeInv, Checked, At, BeginCall, ExchangeCall, QuickCall
<1>2. \A q \in Requests : (request'[q].op = "begin" \/ Checked(q)') =>
        request'[q] = request[q] /\ (Checked(q)' => Checked(q))
  BY DEF Checked, At
<1>3. Unissued' /\ \A c \in Codes : issued'[c] <= 1
  BY DEF CodeInv, Unissued
<1>4. DrawnUnused'
  BY <1>1, <1>2 DEF CodeInv, DrawnUnused
<1>5. CheckedOpen'
  BY <1>1, <1>2 DEF CodeInv, CheckedOpen
<1>6. CheckedOnce' /\ DoomedUnchecked'
  BY <1>2 DEF CodeInv, CheckedOnce, DoomedUnchecked
<1> QED BY <1>3, <1>4, <1>5, <1>6 DEF CodeInv

\* Deleting stored codes nobody has locked.
LEMMA CodeIfDeleted ==
  ASSUME TypeInv, CodeInv, NEW D, UNCHANGED <<request, issued>>,
         row' = [c \in Codes |-> IF c \in D THEN DeletedRow ELSE row[c]],
         \A c \in D : row[c].state # "unused" /\ ~RowLocked(c)
  PROVE  CodeInv'
<1>1. \A q \in Requests : request[q].op = "begin" \/ Checked(q) => request[q].code \in Codes
  BY CallsByOperation DEF TypeInv, Checked, At, BeginCall, ExchangeCall, QuickCall
<1>2. \A q \in Requests : Checked(q) => request[q].code \notin D
  BY DEF Checked, RowLocked
<1>3. DeletedRow.state = "deleted"
  BY UnusedTyped DEF DeletedRow, UnusedRow
<1>4. \A q \in Requests : Checked(q)' <=> Checked(q)
  BY DEF Checked, At
<1>5. Unissued' /\ \A c \in Codes : issued'[c] <= 1
  BY <1>3 DEF CodeInv, Unissued
<1>6. DrawnUnused'
  BY <1>1, <1>3 DEF CodeInv, DrawnUnused
<1>7. CheckedOpen'
  BY <1>1, <1>2, <1>4 DEF CodeInv, CheckedOpen
<1>8. CheckedOnce' /\ DoomedUnchecked'
  BY <1>4 DEF CodeInv, CheckedOnce, DoomedUnchecked
<1> QED BY <1>5, <1>6, <1>7, <1>8 DEF CodeInv

\* One call changes.
LEMMA OneCall ==
  ASSUME TypeOK, NEW q \in Requests, NEW r, Goes(q, r)
  PROVE  /\ request'[q] = r
         /\ \A p \in Requests : p # q => /\ request'[p] = request[p]
                                         /\ Checked(p)' <=> Checked(p)
BY DEF TypeOK, Goes, Checked, At

\* An exchange locks an open code.
LEMMA CodeIfChecked ==
  ASSUME TypeInv, CodeInv, NEW q \in Requests, GoesTo(q, "checked"), UNCHANGED <<row, issued>>,
         request[q].op \in {"exchange", "quick"},
         row[request[q].code].state = "open", ~RowLocked(request[q].code)
  PROVE  CodeInv'
<1> DEFINE s == [request[q] EXCEPT !.stage = "checked"]
<1>1. request[q] \in ExchangeCall \/ request[q] \in QuickCall
  BY CallsByOperation DEF TypeInv
<1>2. s.code = request[q].code /\ s.op = request[q].op
  BY <1>1 DEF ExchangeCall, QuickCall
<1> HIDE DEF s
<1>3. /\ request'[q] = s
      /\ \A p \in Requests : p # q => /\ request'[p] = request[p]
                                      /\ Checked(p)' <=> Checked(p)
  BY OneCall DEF GoesTo, TypeInv, s
<1>4. DrawnUnused'
  BY <1>2, <1>3 DEF CodeInv, DrawnUnused
<1>5. CheckedOpen'
  BY <1>2, <1>3 DEF CodeInv, CheckedOpen
<1>6. \A p \in Requests : Checked(p) => request[p].code # request[q].code
  BY DEF RowLocked, Checked
<1>7. \A p \in Requests : request[p].op = "begin" => request[q].code \notin request[p].doomed
  BY DEF RowLocked
<1>8. CheckedOnce' /\ DoomedUnchecked'
  BY <1>2, <1>3, <1>6, <1>7 DEF CodeInv, CheckedOnce, DoomedUnchecked
<1> QED BY <1>4, <1>5, <1>8 DEF CodeInv, Unissued

\* A code is consumed.
LEMMA CodeIfConsumed ==
  ASSUME TypeInv, CodeInv, NEW q \in Requests, Checked(q), Ends(q),
         issued' = [issued EXCEPT ![request[q].code] = @ + 1],
         row' = [row EXCEPT ![request[q].code].state = "consumed"]
  PROVE  CodeInv'
<1> DEFINE c == request[q].code
<1>1. c \in Codes
  BY CallsByOperation DEF TypeInv, Checked, At, ExchangeCall, QuickCall
<1>2. row[c].state = "open" /\ issued[c] = 0
  BY <1>1 DEF CodeInv, CheckedOpen, Unissued
<1>3. row[c] \in Row /\ issued \in [Codes -> Nat] /\ row \in [Codes -> Row]
  BY <1>1 DEF TypeInv, TypeOK
<1>4. /\ row'[c].state = "consumed"
      /\ \A d \in Codes : d # c => row'[d] = row[d]
  BY <1>1, <1>3 DEF Row
<1>5. issued'[c] = 1 /\ \A d \in Codes : d # c => issued'[d] = issued[d]
  BY <1>1, <1>2, <1>3
<1>6. /\ request'[q].op = "idle" /\ ~Checked(q)'
      /\ \A p \in Requests : p # q => /\ request'[p] = request[p]
                                      /\ Checked(p)' <=> Checked(p)
  BY OneCall DEF Ends, Idle, TypeInv, Checked, At
<1>7. \A p \in Requests : request[p].op = "begin" \/ Checked(p) => request[p].code \in Codes
  BY CallsByOperation DEF TypeInv, Checked, At, BeginCall, ExchangeCall, QuickCall
<1>8. \A p \in Requests : p # q /\ Checked(p) => request[p].code # c
  BY DEF CodeInv, CheckedOnce
<1>9. \A p \in Requests : request[p].op = "begin" => request[p].code # c
  BY <1>2 DEF CodeInv, DrawnUnused
<1> HIDE DEF c
<1>10. Unissued' /\ \A d \in Codes : issued'[d] <= 1
  BY <1>4, <1>5 DEF CodeInv, Unissued
<1>11. DrawnUnused'
  <2>1. ASSUME NEW p \in Requests, request'[p].op = "begin"
        PROVE  request'[p] = request[p] /\ row'[request[p].code] = row[request[p].code]
    <3>1. request'[p] = request[p]
      BY <1>6, <2>1
    <3>2. request[p].code \in Codes /\ request[p].code # c
      BY <1>7, <1>9, <2>1, <3>1
    <3> QED BY <1>4, <3>1, <3>2
  <2>2. ASSUME NEW p \in Requests, request'[p].op = "begin"
        PROVE  row'[request'[p].code].state = "unused"
    <3>1. request'[p] = request[p] /\ row'[request[p].code] = row[request[p].code]
      BY <2>1, <2>2
    <3>2. row[request[p].code].state = "unused"
      BY <2>2, <3>1 DEF CodeInv, DrawnUnused
    <3> QED BY <3>1, <3>2
  <2>3. \A p, r \in Requests : request'[p].op = "begin" /\ request'[r].op = "begin" => p = r
    BY <2>1 DEF CodeInv, DrawnUnused
  <2>4. ASSUME NEW d \in Codes, row'[d].state = "unused" PROVE row'[d].approver = NoUser
    <3>1. row'[d] = row[d]
      BY <1>4, <2>4
    <3> QED BY <2>4, <3>1 DEF CodeInv, DrawnUnused
  <2> QED BY <2>2, <2>3, <2>4 DEF DrawnUnused
<1>12. CheckedOpen'
  <2>1. ASSUME NEW p \in Requests, Checked(p)' PROVE row'[request'[p].code].state = "open"
    <3>1. p # q /\ Checked(p) /\ request'[p] = request[p]
      BY <1>6, <2>1
    <3>2. request[p].code \in Codes /\ request[p].code # c
      BY <1>7, <1>8, <3>1
    <3>3. row'[request'[p].code] = row[request[p].code]
      BY <1>4, <3>1, <3>2
    <3> QED BY <3>1, <3>3 DEF CodeInv, CheckedOpen
  <2> QED BY <2>1 DEF CheckedOpen
<1>13. CheckedOnce' /\ DoomedUnchecked'
  BY <1>6 DEF CodeInv, CheckedOnce, DoomedUnchecked
<1> QED BY <1>10, <1>11, <1>12, <1>13 DEF CodeInv

\* What an admitted begin is about to do.
LEMMA Admission ==
  ASSUME TypeInv, NEW q \in Requests, NEW purpose, NEW source, NEW client,
         AdmitCode(q, purpose, source, client)
  PROVE  /\ request'[q].op = "begin" /\ request'[q].source = source
         /\ request'[q].code \in Codes /\ row[request'[q].code].state = "unused"
         /\ request'[q].doomed = Stale \cup Replaced(purpose, client)
         /\ \A p \in Requests : request[p].op # "begin"
         /\ \A p \in Requests : p # q => request'[p] = request[p]
<1> DEFINE r == [op |-> "begin", stage |-> "admitted", code |-> CHOOSE c \in Undrawn : TRUE,
                 purpose |-> purpose, source |-> source, client |-> client,
                 doomed |-> Stale \cup Replaced(purpose, client)]
<1>1. r.code \in Undrawn /\ Undrawn \subseteq Codes
  BY DrawnCode DEF AdmitCode, TypeInv
<1>2. row[r.code].state = "unused"
  BY <1>1 DEF Undrawn
<1>3. r.op = "begin" /\ r.source = source /\ r.doomed = Stale \cup Replaced(purpose, client)
  OBVIOUS
<1>4. Goes(q, r)
  BY DEF AdmitCode
<1> HIDE DEF r
<1>5. request'[q] = r /\ \A p \in Requests : p # q => request'[p] = request[p]
  BY <1>4, OneCall DEF TypeInv
<1> QED BY <1>1, <1>2, <1>3, <1>5 DEF AdmitCode, AdmissionLock

\* What the insert of a code writes.
LEMMA Insertion ==
  ASSUME TypeInv, NEW q \in Requests, InsertCode(q)
  PROVE  /\ request[q] \in BeginCall /\ request[q].op = "begin" /\ request[q].code \in Codes
         /\ row'[request[q].code].state = "open" /\ row'[request[q].code].approver = NoUser
         /\ row'[request[q].code].source = request[q].source
         /\ row'[request[q].code].life = CodeTTL
         /\ \A c \in Codes : c # request[q].code =>
              IF c \in request[q].doomed THEN row'[c] = DeletedRow ELSE row'[c] = row[c]
         /\ request'[q] = Idle
         /\ \A p \in Requests : p # q => request'[p] = request[p]
<1> DEFINE r == request[q]
           open == [UnusedRow EXCEPT !.state = "open", !.purpose = r.purpose,
                                     !.source = r.source, !.client = r.client, !.life = CodeTTL]
<1>1. r \in BeginCall /\ r.op = "begin" /\ r.code \in Codes
  BY CallsByOperation DEF InsertCode, TypeInv, BeginCall
<1>2. /\ open.state = "open" /\ open.approver = NoUser /\ open.source = r.source
      /\ open.life = CodeTTL
  BY UnusedTyped DEF UnusedRow, Row
<1>3. row' = [c \in Codes |-> IF c = r.code THEN open
                              ELSE IF c \in r.doomed THEN DeletedRow ELSE row[c]]
  BY DEF InsertCode
<1> HIDE DEF open
<1>4. row'[r.code] = open
  BY <1>1, <1>3
<1>5. \A c \in Codes : c # r.code => IF c \in r.doomed THEN row'[c] = DeletedRow ELSE row'[c] = row[c]
  BY <1>3
<1>6. request'[q] = Idle /\ \A p \in Requests : p # q => request'[p] = request[p]
  BY OneCall DEF InsertCode, Ends, TypeInv
<1> QED BY <1>1, <1>2, <1>4, <1>5, <1>6

LEMMA CodeBegin == ASSUME TypeInv, CodeInv, NEW q \in Requests, Begin(q) PROVE CodeInv'
<1>1. \A p \in Requests : request[p].op = "begin" \/ Checked(p) => request[p].code \in Codes
  BY CallsByOperation DEF TypeInv, Checked, At, BeginCall, ExchangeCall, QuickCall
<1>2. ASSUME NEW purpose \in Purposes, NEW source \in household.sources, NEW client \in Clients,
             AdmitCode(q, purpose, source, client)
      PROVE  CodeInv'
  <2>1. /\ request'[q].op = "begin"
        /\ row[request'[q].code].state = "unused"
        /\ request'[q].doomed = Stale \cup Replaced(purpose, client)
        /\ \A p \in Requests : request[p].op # "begin"
        /\ \A p \in Requests : p # q => request'[p] = request[p]
    BY <1>2, Admission
  <2>2. UNCHANGED <<row, issued>>
    BY <1>2 DEF AdmitCode
  <2>3. \A p \in Requests : Checked(p)' => Checked(p) /\ request'[p] = request[p]
    BY <2>1 DEF Checked, At
  <2>4. \A p \in Requests : Checked(p) => request[p].code \notin Stale \cup Replaced(purpose, client)
    BY <1>2 DEF AdmitCode, RowLocked, Checked
  <2>5. DrawnUnused'
    BY <2>1, <2>2 DEF CodeInv, DrawnUnused
  <2>6. CheckedOpen' /\ CheckedOnce'
    BY <2>2, <2>3 DEF CodeInv, CheckedOpen, CheckedOnce
  <2>7. DoomedUnchecked'
    BY <2>1, <2>3, <2>4 DEF DoomedUnchecked
  <2> QED BY <2>2, <2>5, <2>6, <2>7 DEF CodeInv, Unissued
<1>3. ASSUME InsertCode(q) PROVE CodeInv'
  <2> DEFINE r == request[q]
  <2>1. /\ r.op = "begin" /\ r.code \in Codes
        /\ row'[r.code].state = "open" /\ row'[r.code].approver = NoUser
        /\ \A c \in Codes : c # r.code =>
             IF c \in r.doomed THEN row'[c] = DeletedRow ELSE row'[c] = row[c]
        /\ request'[q] = Idle
        /\ \A p \in Requests : p # q => request'[p] = request[p]
    BY <1>3, Insertion
  <2>2. UNCHANGED issued
    BY <1>3 DEF InsertCode
  <2>3. row[r.code].state = "unused" /\ DeletedRow.state = "deleted"
    BY <2>1, UnusedTyped DEF CodeInv, DrawnUnused, DeletedRow, UnusedRow
  <2>4. \A p \in Requests : request'[p].op # "begin"
    BY <2>1 DEF CodeInv, DrawnUnused, Idle
  <2>5. \A p \in Requests : Checked(p)' => Checked(p) /\ request'[p] = request[p]
    BY <2>1 DEF Checked, At, Idle
  <2> HIDE DEF r
  <2>6. Unissued'
    <3>1. ASSUME NEW c \in Codes, row'[c].state \in {"unused", "open"} PROVE issued'[c] = 0
      <4>1. c = r.code \/ row'[c] = row[c]
        BY <2>1, <2>3, <3>1
      <4> QED BY <2>2, <2>3, <3>1, <4>1 DEF CodeInv, Unissued
    <3> QED BY <3>1 DEF Unissued
  <2>7. DrawnUnused'
    <3>1. ASSUME NEW c \in Codes, row'[c].state = "unused" PROVE row'[c].approver = NoUser
      <4>1. row'[c] = row[c]
        BY <2>1, <2>3, <3>1
      <4> QED BY <3>1, <4>1 DEF CodeInv, DrawnUnused
    <3> QED BY <2>4, <3>1 DEF DrawnUnused
  <2>8. CheckedOpen'
    <3>1. ASSUME NEW p \in Requests, Checked(p)' PROVE row'[request'[p].code].state = "open"
      <4>1. Checked(p) /\ request'[p] = request[p]
        BY <2>5, <3>1
      <4>2. request[p].code \in Codes /\ row[request[p].code].state = "open"
        BY <1>1, <4>1 DEF CodeInv, CheckedOpen
      <4>3. request[p].code \notin r.doomed /\ request[p].code # r.code
        BY <2>1, <2>3, <4>1, <4>2 DEF CodeInv, DoomedUnchecked, r
      <4>4. row'[request[p].code] = row[request[p].code]
        BY <2>1, <4>2, <4>3
      <4> QED BY <4>1, <4>2, <4>4
    <3> QED BY <3>1 DEF CheckedOpen
  <2>9. CheckedOnce' /\ DoomedUnchecked'
    BY <2>4, <2>5 DEF CodeInv, CheckedOnce, DoomedUnchecked
  <2> QED BY <2>2, <2>6, <2>7, <2>8, <2>9 DEF CodeInv
<1> QED BY <1>2, <1>3 DEF Begin

\* A step of a call that is no begin and locks no code.
LEMMA CodeIfRowsSame ==
  ASSUME TypeInv, CodeInv, NEW q \in Requests, NEW r, Goes(q, r), r.op # "begin",
         ~((r.op = "exchange" \/ r.op = "quick") /\ r.stage = "checked"),
         UNCHANGED issued,
         \A c \in Codes : /\ row'[c].state = row[c].state
                          /\ row[c].state = "unused" => row'[c].approver = row[c].approver
  PROVE  CodeInv'
<1>1. request'[q] = r /\ \A p \in Requests : p # q => request'[p] = request[p]
  BY OneCall DEF TypeInv
<1>2. ~Checked(q)'
  BY <1>1 DEF Checked, At
<1> QED BY <1>1, <1>2, CodeIfStatesSame

\* What an approval writes.
LEMMA Approval ==
  ASSUME TypeInv, NEW q \in Requests, ApproveCode(q)
  PROVE  LET r == request[q] IN
         /\ r \in ApproveCall /\ r.code \in Codes /\ r.stage = "authorised"
         /\ \A c \in Codes : c # r.code => row'[c] = row[c]
         /\ \/ row'[r.code] = row[r.code]
            \/ LET s == row[r.code]
                   t == row'[r.code]
               IN  /\ Approvable(s, r.purpose)
                   /\ t.state = s.state /\ t.life = s.life /\ t.purpose = s.purpose
                   /\ t.source = s.source /\ t.client = s.client
                   /\ t.approver = r.user /\ t.category = r.category
                   /\ t.profile = ApprovedProfile(r)
<1> DEFINE r == request[q]
           approved == [row[r.code] EXCEPT !.approver = r.user, !.category = r.category,
                                           !.profile = ApprovedProfile(r)]
<1>1. r \in ApproveCall /\ r.code \in Codes /\ r.category \in Categories /\ r.stage = "authorised"
  BY CallsByOperation DEF ApproveCode, At, TypeInv, CategoryChosen, ApproveCall
<1>2. row[r.code] \in Row /\ row \in [Codes -> Row]
  BY <1>1 DEF TypeInv, TypeOK
<1>3. \/ UNCHANGED row
      \/ Approvable(row[r.code], r.purpose) /\ row' = [row EXCEPT ![r.code] = approved]
  BY DEF ApproveCode
<1>4. CASE UNCHANGED row
  BY <1>1, <1>4
<1>5. CASE Approvable(row[r.code], r.purpose) /\ row' = [row EXCEPT ![r.code] = approved]
  <2>1. row[r.code].purpose = r.purpose
    BY <1>5 DEF Approvable
  <2>2. /\ approved.state = row[r.code].state /\ approved.life = row[r.code].life
        /\ approved.purpose = row[r.code].purpose
        /\ approved.source = row[r.code].source /\ approved.client = row[r.code].client
        /\ approved.approver = r.user /\ approved.category = r.category
        /\ approved.profile = ApprovedProfile(r)
    BY <1>1, <1>2, <2>1, ApprovedRow
  <2> HIDE DEF approved
  <2>3. row'[r.code] = approved /\ \A c \in Codes : c # r.code => row'[c] = row[c]
    BY <1>1, <1>2, <1>5
  <2> QED BY <1>1, <1>5, <2>2, <2>3
<1> QED BY <1>3, <1>4, <1>5

\* What a poll writes.
LEMMA Poll ==
  ASSUME TypeInv, NEW q \in Requests, CheckCode(q)
  PROVE  /\ request[q] \in ExchangeCall /\ request[q].code \in Codes
         /\ \A c \in Codes :
              /\ row'[c].state = row[c].state /\ row'[c].life = row[c].life
              /\ row'[c].approver = row[c].approver /\ row'[c].profile = row[c].profile
              /\ row'[c].category = row[c].category /\ row'[c].purpose = row[c].purpose
              /\ row'[c].source = row[c].source /\ row'[c].client = row[c].client
<1> DEFINE c == request[q].code
           polled == [row[c] EXCEPT !.wait = Interval]
<1>1. request[q] \in ExchangeCall /\ c \in Codes
  BY CallsByOperation DEF CheckCode, At, TypeInv, ExchangeCall
<1>2. row[c] \in Row /\ Consistent(row[c]) /\ row \in [Codes -> Row]
  BY <1>1 DEF TypeInv, TypeOK
<1>3. row' = row \/ row' = [row EXCEPT ![c].wait = Interval]
  BY DEF CheckCode
<1>4. row' = row \/ row' = [row EXCEPT ![c] = polled]
  BY <1>3
<1>5. /\ polled.state = row[c].state /\ polled.life = row[c].life
      /\ polled.approver = row[c].approver /\ polled.profile = row[c].profile
      /\ polled.category = row[c].category /\ polled.purpose = row[c].purpose
      /\ polled.source = row[c].source /\ polled.client = row[c].client
  BY <1>2, RowWritten
<1> HIDE DEF polled
<1>6. \A d \in Codes : row'[d] = row[d] \/ (d = c /\ row'[d] = polled)
  BY <1>2, <1>4
<1> QED BY <1>1, <1>5, <1>6

LEMMA CodeApprove == ASSUME TypeInv, CodeInv, NEW q \in Requests, Approve(q) PROVE CodeInv'
<1>1. ASSUME NEW c \in Codes, NEW u \in Users, NEW p \in Profiles, NEW k \in household.categories,
             FindCode(q, c, u, p, k)
      PROVE  CodeInv'
  <2> DEFINE r == [op |-> "approve", stage |-> "found", code |-> c, purpose |-> row[c].purpose,
                   user |-> u, profile |-> p, locked |-> {},
                   category |-> IF row[c].purpose = "quick" THEN NoCategory ELSE k]
  <2>1. r.op = "approve" /\ Goes(q, r) /\ UNCHANGED <<row, issued>>
    BY <1>1 DEF FindCode
  <2> HIDE DEF r
  <2> QED BY <2>1, CodeIfRowsSame
<1>2. ASSUME AuthorizeApprover(q) PROVE CodeInv'
  <2>1. UNCHANGED <<row, issued>>
    BY <1>2 DEF AuthorizeApprover
  <2>2. CASE Ends(q)
    BY <2>1, <2>2, CodeIfRowsSame, IdleTyped DEF Ends
  <2>3. ASSUME NEW s \in ApproveCall, Goes(q, s) PROVE CodeInv'
    <3>1. s.op = "approve"
      BY DEF ApproveCall
    <3> QED BY <2>1, <2>3, <3>1, CodeIfRowsSame
  <2> QED BY <1>2, <2>2, <2>3, AuthorisedApproval
<1>3. ASSUME ApproveCode(q) PROVE CodeInv'
  <2>1. \A c \in Codes : /\ row'[c].state = row[c].state
                         /\ row[c].state = "unused" => row'[c].approver = row[c].approver
    BY <1>3, Approval DEF Approvable
  <2>2. Goes(q, Idle) /\ UNCHANGED issued
    BY <1>3 DEF ApproveCode, Ends
  <2> QED BY <2>1, <2>2, CodeIfRowsSame, IdleTyped
<1> QED BY <1>1, <1>2, <1>3 DEF Approve

\* The calls that an exchange becomes.
LEMMA ExchangeMoves ==
  ASSUME TypeInv, NEW q \in Requests, NEW stage, GoesTo(q, stage),
         request[q] \in ExchangeCall \/ request[q] \in QuickCall
  PROVE  LET s == request'[q] IN
         /\ Goes(q, s)
         /\ s.op = request[q].op /\ s.stage = stage
         /\ s.code = request[q].code /\ s.user = request[q].user
         /\ request[q] \in QuickCall =>
              s.profile = request[q].profile /\ s.category = request[q].category
<1> DEFINE s == [request[q] EXCEPT !.stage = stage]
<1>1. /\ s.op = request[q].op /\ s.stage = stage
      /\ s.code = request[q].code /\ s.user = request[q].user
      /\ request[q] \in QuickCall =>
           s.profile = request[q].profile /\ s.category = request[q].category
  BY DEF ExchangeCall, QuickCall
<1>2. Goes(q, s) /\ request'[q] = s
  BY OneCall DEF GoesTo, Goes, TypeInv, TypeOK
<1> HIDE DEF s
<1> QED BY <1>1, <1>2

LEMMA CodeExchange == ASSUME TypeInv, CodeInv, NEW q \in Requests, Exchange(q) PROVE CodeInv'
<1>1. ASSUME UNCHANGED <<row, issued>>, Ends(q) PROVE CodeInv'
  BY <1>1, CodeIfRowsSame, IdleTyped DEF Ends
<1>2. ASSUME UNCHANGED <<row, issued>>, GoesTo(q, "owned"),
             request[q] \in ExchangeCall \/ request[q] \in QuickCall
      PROVE  CodeInv'
  <2>1. Goes(q, request'[q]) /\ request'[q].op # "begin" /\ request'[q].stage = "owned"
    BY <1>2, ExchangeMoves DEF ExchangeCall, QuickCall
  <2> QED BY <1>2, <2>1, CodeIfRowsSame
<1>3. ASSUME NEW c \in Codes, Discover(q, c) PROVE CodeInv'
  <2> DEFINE r == [op |-> "exchange", code |-> c, user |-> row[c].approver,
                   stage |-> IF row[c].approver = NoUser THEN "owned" ELSE "discovered"]
  <2>1. r.op # "begin" /\ r.stage # "checked" /\ Goes(q, r) /\ UNCHANGED <<row, issued>>
    BY <1>3 DEF Discover
  <2> HIDE DEF r
  <2> QED BY <2>1, CodeIfRowsSame
<1>4. ASSUME NEW c \in Codes, ReadApproval(q, c) PROVE CodeInv'
  <2> DEFINE r == [op |-> "quick", stage |-> "read", code |-> c, user |-> row[c].approver,
                   profile |-> row[c].profile, category |-> row[c].category]
  <2>1. r.op # "begin" /\ r.stage # "checked" /\ Goes(q, r) /\ UNCHANGED <<row, issued>>
    BY <1>4 DEF ReadApproval
  <2> HIDE DEF r
  <2> QED BY <2>1, CodeIfRowsSame
<1>5. ASSUME LockOwner(q) PROVE CodeInv'
  <2>1. request[q] \in ExchangeCall
    BY <1>5, CallsByOperation DEF LockOwner, At, TypeInv
  <2> QED BY <1>1, <1>2, <1>5, <2>1 DEF LockOwner
<1>6. ASSUME CheckCode(q) PROVE CodeInv'
  <2>1. request[q].op = "exchange" /\ ~RowLocked(request[q].code) /\ UNCHANGED issued
    BY <1>6 DEF CheckCode, At
  <2>2. CASE GoesTo(q, "checked") /\ UNCHANGED row /\ Usable(row[request[q].code])
    BY <2>1, <2>2, CodeIfChecked DEF Usable
  <2>3. CASE Ends(q)
    <3>1. \A c \in Codes : row'[c].state = row[c].state /\ row'[c].approver = row[c].approver
      BY <1>6, Poll
    <3> QED BY <2>1, <2>3, <3>1, CodeIfRowsSame, IdleTyped DEF Ends
  <2> QED BY <1>6, <2>2, <2>3 DEF CheckCode
<1>7. ASSUME IssueNative(q) PROVE CodeInv'
  BY <1>7, CodeIfConsumed DEF IssueNative, Checked
<1>8. ASSUME LockApproval(q) PROVE CodeInv'
  <2>1. request[q] \in QuickCall
    BY <1>8, CallsByOperation DEF LockApproval, At, TypeInv
  <2> QED BY <1>1, <1>2, <1>8, <2>1 DEF LockApproval
<1>9. ASSUME CheckApproval(q) PROVE CodeInv'
  <2>1. request[q].op = "quick" /\ ~RowLocked(request[q].code) /\ UNCHANGED <<row, issued>>
    BY <1>9 DEF CheckApproval, At
  <2>2. CASE GoesTo(q, "checked") /\ Usable(row[request[q].code])
    BY <2>1, <2>2, CodeIfChecked DEF Usable
  <2> QED BY <1>1, <1>9, <2>1, <2>2 DEF CheckApproval
<1>10. ASSUME IssueQuick(q) PROVE CodeInv'
  <2>1. CASE UNCHANGED <<row, issued>>
    BY <1>1, <1>10, <2>1 DEF IssueQuick
  <2>2. CASE issued' = [issued EXCEPT ![request[q].code] = @ + 1]
             /\ row' = [row EXCEPT ![request[q].code].state = "consumed"]
    BY <1>10, <2>2, CodeIfConsumed DEF IssueQuick, Checked
  <2> QED BY <1>10, <2>1, <2>2 DEF IssueQuick
<1> QED BY <1>3, <1>4, <1>5, <1>6, <1>7, <1>8, <1>9, <1>10 DEF Exchange

LEMMA CodeStep == TypeInv /\ CodeInv /\ [Next]_vars => CodeInv'
<1> SUFFICES ASSUME TypeInv, CodeInv, [Next]_vars PROVE CodeInv'
  OBVIOUS
<1>1. ASSUME UNCHANGED <<row, request, issued>> PROVE CodeInv'
  BY <1>1, CodeIfStatesSame
<1>2. ASSUME NEW q \in Requests, Abandon(q) PROVE CodeInv'
  BY <1>2, CodeIfRowsSame, IdleTyped DEF Abandon, Ends
<1>3. CASE Cleanup
  BY <1>3, CodeIfDeleted DEF Cleanup, Collectable, Stale
<1>4. ASSUME NEW u \in Users, DeleteUser(u) PROVE CodeInv'
  <2> DEFINE D == {c \in Codes : row[c].approver = u}
  <2>1. row' = [c \in Codes |-> IF c \in D THEN DeletedRow ELSE row[c]]
    BY <1>4 DEF DeleteUser
  <2>2. \A c \in D : row[c].state # "unused" /\ ~RowLocked(c)
    BY <1>4, DeviceAuthorizationAssumption DEF DeleteUser, CodeInv, DrawnUnused
  <2>3. UNCHANGED <<request, issued>>
    BY <1>4 DEF DeleteUser
  <2> HIDE DEF D
  <2> QED BY <2>1, <2>2, <2>3, CodeIfDeleted
<1>5. CASE Tick
  <2>1. \A c \in Codes : row'[c].state = row[c].state /\ row'[c].approver = row[c].approver
    <3>1. ASSUME NEW c \in Codes PROVE row'[c].state = row[c].state /\ row'[c].approver = row[c].approver
      <4>1. row[c] \in Row /\ Consistent(row[c])
        BY DEF TypeInv, TypeOK
      <4>2. row'[c] = [row[c] EXCEPT !.life = Lower(@), !.wait = Lower(@)]
        BY <1>5 DEF Tick
      <4> QED BY <4>1, <4>2, RowWritten
    <3> QED BY <3>1
  <2> QED BY <1>5, <2>1, CodeIfStatesSame DEF Tick
<1>6. ASSUME NEW u \in Users, NEW p \in Profiles, NEW g \in {"none", "use", "manage"},
             SetGrant(u, p, g)
      PROVE  CodeInv'
  BY <1>1, <1>6 DEF SetGrant
<1>7. ASSUME NEW p \in Profiles, NEW k \in household.categories, MoveProfile(p, k) PROVE CodeInv'
  BY <1>1, <1>7 DEF MoveProfile
<1>8. ASSUME NEW u \in Users, SetRole(u) \/ RemoveDevice(u) PROVE CodeInv'
  BY <1>1, <1>8 DEF SetRole, RemoveDevice
<1>9. CASE UNCHANGED vars
  BY <1>1, <1>9 DEF vars
<1> QED BY <1>2, <1>3, <1>4, <1>5, <1>6, <1>7, <1>8, <1>9, CodeBegin, CodeApprove, CodeExchange
     DEF Next

-----------------------------------------------------------------------------
(* The devices of a user. *)

\* The row of a code keeps what an exchange has checked while the exchange holds its lock.
LEMMA CheckedRowKept ==
  ASSUME TypeInv, CodeInv, [Next]_vars, NEW q \in Requests, Checked(q), request'[q] = request[q]
  PROVE  LET s == row[request[q].code]
             t == row'[request[q].code]
         IN  /\ t.state = s.state /\ t.purpose = s.purpose /\ t.source = s.source
             /\ t.client = s.client /\ t.approver = s.approver /\ t.profile = s.profile
             /\ t.category = s.category
<1> DEFINE c == request[q].code
           Kept == /\ row'[c].state = row[c].state /\ row'[c].purpose = row[c].purpose
                   /\ row'[c].source = row[c].source /\ row'[c].client = row[c].client
                   /\ row'[c].approver = row[c].approver /\ row'[c].profile = row[c].profile
                   /\ row'[c].category = row[c].category
<1> SUFFICES Kept
  OBVIOUS
<1>1. c \in Codes /\ request[q] # Idle /\ RowLocked(c) /\ row[c].state = "open"
  BY CallsByOperation
  DEF TypeInv, Checked, At, ExchangeCall, QuickCall, Idle, RowLocked, CodeInv, CheckedOpen
<1>2. ASSUME NEW p \in Requests, Begin(p) PROVE Kept
  <2>1. ASSUME InsertCode(p) PROVE row'[c] = row[c]
    <3>1. request[p].op = "begin" /\ row[request[p].code].state = "unused"
      BY <2>1 DEF InsertCode, CodeInv, DrawnUnused
    <3>2. c # request[p].code /\ c \notin request[p].doomed
      BY <1>1, <3>1 DEF CodeInv, DoomedUnchecked
    <3> QED BY <1>1, <2>1, <3>2, Insertion
  <2> QED BY <1>2, <2>1 DEF Begin, AdmitCode
<1>3. ASSUME NEW p \in Requests, Approve(p) PROVE Kept
  <2>1. ASSUME ApproveCode(p) PROVE row'[c] = row[c]
    <3>1. request[p].code # c
      BY <1>1, <2>1 DEF ApproveCode
    <3> QED BY <1>1, <2>1, <3>1, Approval
  <2> QED BY <1>3, <2>1 DEF Approve, FindCode, AuthorizeApprover
<1>4. ASSUME NEW p \in Requests, Exchange(p) PROVE Kept
  <2>1. ASSUME Checked(p), Ends(p), row' = [row EXCEPT ![request[p].code].state = "consumed"]
        PROVE  row'[c] = row[c]
    <3>1. request'[p] = Idle
      BY <2>1, OneCall DEF TypeInv, Ends
    <3>2. request[p].code # c
      BY <1>1, <2>1, <3>1 DEF CodeInv, CheckedOnce
    <3> QED BY <1>1, <2>1, <3>2 DEF TypeInv, TypeOK
  <2>2. ASSUME IssueNative(p) PROVE row'[c] = row[c]
    BY <2>1, <2>2 DEF IssueNative, Checked
  <2>3. ASSUME IssueQuick(p) PROVE row'[c] = row[c]
    BY <2>1, <2>3 DEF IssueQuick, Checked
  <2>4. ASSUME CheckCode(p) PROVE Kept
    BY <1>1, <2>4, Poll
  <2> QED BY <1>4, <2>2, <2>3, <2>4 DEF Exchange, Discover, ReadApproval, LockOwner, LockApproval, CheckApproval
<1>5. ASSUME NEW p \in Requests, Abandon(p) PROVE Kept
  BY <1>5 DEF Abandon
<1>6. CASE Cleanup
  BY <1>1, <1>6 DEF Cleanup
<1>7. ASSUME NEW u \in Users, DeleteUser(u) PROVE Kept
  BY <1>1, <1>7 DEF DeleteUser
<1>8. CASE Tick
  <2>1. row[c] \in Row /\ Consistent(row[c])
    BY <1>1 DEF TypeInv, TypeOK
  <2> DEFINE s == row[c]
             older == [s EXCEPT !.life = Lower(@), !.wait = Lower(@)]
  <2>2. row'[c] = older
    BY <1>1, <1>8 DEF Tick
  <2>3. /\ older.state = s.state /\ older.purpose = s.purpose /\ older.source = s.source
        /\ older.client = s.client /\ older.approver = s.approver
        /\ older.profile = s.profile /\ older.category = s.category
    <3> HIDE DEF s
    <3> QED BY <2>1, RowWritten DEF s
  <2> HIDE DEF older
  <2> QED BY <2>2, <2>3
<1>9. ASSUME UNCHANGED row PROVE Kept
  BY <1>9
<1> QED BY <1>2, <1>3, <1>4, <1>5, <1>6, <1>7, <1>8, <1>9
     DEF Next, vars, SetGrant, SetRole, MoveProfile, RemoveDevice

\* The exchanges that have locked the account of their approver.
Holds(q) ==
  \/ At(q, "exchange", "owned") \/ At(q, "exchange", "checked")
  \/ At(q, "quick", "owned") \/ At(q, "quick", "checked")

OwnerExclusive ==
  \A q, r \in Requests :
    Holds(q) /\ Holds(r) /\ request[q].user = request[r].user /\ request[q].user \in Users => q = r

\* An exchange about to sign a device in still has the place it counted.
PlaceKept ==
  \A q \in Requests :
    /\ At(q, "exchange", "checked") =>
         request[q].user \in Users /\ \A u \in Users : request[q].user = u => SlotAvailable(u)
    /\ At(q, "quick", "checked") =>
         \A u \in Users, p \in Profiles, i \in Clients :
           request[q].user = u /\ request[q].profile = p /\ row[request[q].code].client = i =>
             HasDevice(u, p, i)

SlotInv ==
  /\ IsFiniteSet(linked)
  /\ \A u \in Users : DeviceCount(u) <= MaxDevices
  /\ OwnerExclusive /\ PlaceKept

LEMMA SlotInit == Init => SlotInv
<1> SUFFICES ASSUME Init PROVE SlotInv
  OBVIOUS
<1>1. \A q \in Requests : request[q].op = "idle"
  BY DEF Init, Idle
<1>2. linked = {} /\ IsFiniteSet(linked)
  BY FS_EmptySet DEF Init
<1>3. ASSUME NEW u \in Users PROVE DeviceCount(u) <= MaxDevices
  <2>1. {l \in linked : l[1] = u} = {} /\ devices[u] = 0
    BY <1>2 DEF Init
  <2>2. DeviceCount(u) = 0 + Cardinality({})
    BY <2>1 DEF DeviceCount
  <2> QED BY <2>2, FS_EmptySet, DeviceAuthorizationAssumption
<1> QED BY <1>1, <1>2, <1>3 DEF SlotInv, OwnerExclusive, PlaceKept, Holds, At

LEMMA DeviceCountTyped ==
  ASSUME TypeInv, IsFiniteSet(linked), NEW u \in Users
  PROVE  /\ DeviceCount(u) \in Nat
         /\ IsFiniteSet({l \in linked : l[1] = u}) /\ Cardinality({l \in linked : l[1] = u}) \in Nat
<1>1. IsFiniteSet({l \in linked : l[1] = u})
  BY FS_Subset
<1>2. Cardinality({l \in linked : l[1] = u}) \in Nat
  BY <1>1, FS_CardinalityType
<1>3. devices[u] \in Nat
  BY DEF TypeInv, TypeOK
<1> QED BY <1>1, <1>2, <1>3 DEF DeviceCount

\* Devices that are removed are no longer counted.
LEMMA FewerDevices ==
  ASSUME TypeInv, SlotInv, TypeInv', linked' \subseteq linked, NEW u \in Users, devices'[u] <= devices[u]
  PROVE  /\ IsFiniteSet(linked') /\ DeviceCount(u)' \in Nat
         /\ DeviceCount(u)' <= DeviceCount(u)
         /\ \A l \in linked \ linked' : l[1] = u => DeviceCount(u)' < DeviceCount(u)
<1> DEFINE L == {l \in linked : l[1] = u}
           M == {l \in linked' : l[1] = u}
<1>1. M \subseteq L /\ IsFiniteSet(linked)
  BY DEF SlotInv
<1>2. IsFiniteSet(L) /\ Cardinality(L) \in Nat /\ IsFiniteSet(linked')
  BY <1>1, FS_Subset, DeviceCountTyped
<1>3. devices[u] \in Nat /\ devices'[u] \in Nat
  BY DEF TypeInv, TypeOK
<1>4. /\ IsFiniteSet(M) /\ Cardinality(M) \in Nat /\ Cardinality(M) <= Cardinality(L)
      /\ Cardinality(M) = Cardinality(L) => M = L
  BY <1>1, <1>2, FS_Subset, FS_CardinalityType
<1>5. ASSUME NEW l \in linked \ linked', l[1] = u PROVE Cardinality(M) < Cardinality(L)
  <2>1. l \in L /\ l \notin M
    BY <1>5
  <2> QED BY <1>2, <1>4, <2>1
<1>6. DeviceCount(u) = devices[u] + Cardinality(L) /\ DeviceCount(u)' = devices'[u] + Cardinality(M)
  BY DEF DeviceCount
<1> HIDE DEF L, M
<1> QED BY <1>2, <1>3, <1>4, <1>5, <1>6

\* Steps after which no other exchange holds an account, and no user has more devices.
LEMMA SlotIfNoneHolds ==
  ASSUME TypeInv, TypeInv', CodeInv, SlotInv, [Next]_vars,
         linked' \subseteq linked, \A u \in Users : devices'[u] <= devices[u],
         \A p \in Requests : Holds(p)' => request'[p] = request[p]
  PROVE  SlotInv'
<1>1. ASSUME NEW u \in Users PROVE DeviceCount(u)' <= DeviceCount(u) /\ DeviceCount(u)' <= MaxDevices
  <2>1. /\ DeviceCount(u) \in Nat /\ DeviceCount(u)' \in Nat
        /\ DeviceCount(u)' <= DeviceCount(u) /\ DeviceCount(u) <= MaxDevices
    BY FewerDevices, DeviceCountTyped DEF SlotInv
  <2> QED BY <2>1, DeviceAuthorizationAssumption
<1>2. ASSUME NEW u \in Users, SlotAvailable(u) PROVE SlotAvailable(u)'
  <2>1. /\ DeviceCount(u) \in Nat /\ DeviceCount(u)' \in Nat
        /\ DeviceCount(u)' <= DeviceCount(u) /\ DeviceCount(u) < MaxDevices
    BY <1>2, FewerDevices, DeviceCountTyped DEF SlotInv, SlotAvailable
  <2> QED BY <2>1, DeviceAuthorizationAssumption DEF SlotAvailable
<1>3. ASSUME NEW l \in linked \ linked', NEW u \in Users, l[1] = u PROVE SlotAvailable(u)'
  <2>1. /\ DeviceCount(u) \in Nat /\ DeviceCount(u)' \in Nat
        /\ DeviceCount(u)' < DeviceCount(u) /\ DeviceCount(u) <= MaxDevices
    BY <1>3, FewerDevices, DeviceCountTyped DEF SlotInv
  <2> QED BY <2>1, DeviceAuthorizationAssumption DEF SlotAvailable
<1>4. OwnerExclusive'
  BY DEF SlotInv, OwnerExclusive, Holds, At
<1>5. ASSUME NEW p \in Requests, At(p, "exchange", "checked")'
      PROVE  /\ request'[p].user \in Users
             /\ \A u \in Users : request'[p].user = u => SlotAvailable(u)'
  <2>1. request'[p] = request[p] /\ At(p, "exchange", "checked")
    BY <1>5 DEF Holds, At
  <2> QED BY <1>2, <2>1 DEF SlotInv, PlaceKept
<1>6. ASSUME NEW q \in Requests, At(q, "quick", "checked")', NEW u \in Users, NEW p \in Profiles,
             NEW i \in Clients, request'[q].user = u, request'[q].profile = p,
             row'[request'[q].code].client = i
      PROVE  HasDevice(u, p, i)'
  <2>1. request'[q] = request[q] /\ At(q, "quick", "checked")
    BY <1>6 DEF Holds, At
  <2>2. row[request[q].code].client = i
    BY <1>6, <2>1, CheckedRowKept DEF Checked
  <2> DEFINE l == <<u, p, i>>
  <2>3. l \in linked \/ SlotAvailable(u)
    BY <1>6, <2>1, <2>2 DEF SlotInv, PlaceKept, HasDevice
  <2>4. l[1] = u
    OBVIOUS
  <2>5. l \in linked' \/ SlotAvailable(u)'
    BY <1>2, <1>3, <2>3, <2>4
  <2> QED BY <2>5 DEF HasDevice
<1>7. PlaceKept'
  BY <1>5, <1>6 DEF PlaceKept
<1>8. IsFiniteSet(linked')
  BY FS_Subset DEF SlotInv
<1> QED BY <1>1, <1>4, <1>7, <1>8 DEF SlotInv

\* An exchange locks an account nobody has locked, or has checked that there is a place.
LEMMA SlotIfMoved ==
  ASSUME TypeInv, SlotInv, NEW q \in Requests, UNCHANGED <<row, device>>,
         \A p \in Requests : p # q => request'[p] = request[p],
         Holds(q)' /\ request'[q].user \in Users =>
           \/ \A p \in Requests : Holds(p) => request[p].user # request'[q].user
           \/ Holds(q) /\ request'[q].user = request[q].user,
         At(q, "exchange", "checked")' =>
           request'[q].user \in Users /\ SlotAvailable(request'[q].user),
         At(q, "quick", "checked")' =>
           HasDevice(request'[q].user, request'[q].profile, row[request'[q].code].client)
  PROVE  SlotInv'
<1>1. \A u \in Users :
        /\ DeviceCount(u)' = DeviceCount(u)
        /\ SlotAvailable(u)' <=> SlotAvailable(u)
        /\ \A p \in Profiles, i \in Clients : HasDevice(u, p, i)' <=> HasDevice(u, p, i)
  BY DEF device, SlotAvailable, HasDevice, DeviceCount
<1>2. \A p \in Requests : p # q =>
        /\ Holds(p)' <=> Holds(p)
        /\ At(p, "exchange", "checked")' <=> At(p, "exchange", "checked")
        /\ At(p, "quick", "checked")' <=> At(p, "quick", "checked")
  BY DEF Holds, At
<1>3. OwnerExclusive'
  BY <1>2 DEF SlotInv, OwnerExclusive
<1>4. PlaceKept'
  <2>1. ASSUME NEW p \in Requests, At(p, "exchange", "checked")'
        PROVE  /\ request'[p].user \in Users
               /\ \A u \in Users : request'[p].user = u => SlotAvailable(u)'
    <3>1. CASE p = q
      BY <1>1, <2>1, <3>1
    <3>2. CASE p # q
      BY <1>1, <1>2, <2>1, <3>2 DEF SlotInv, PlaceKept
    <3> QED BY <3>1, <3>2
  <2>2. ASSUME NEW p \in Requests, At(p, "quick", "checked")', NEW u \in Users, NEW o \in Profiles,
               NEW i \in Clients, request'[p].user = u, request'[p].profile = o,
               row'[request'[p].code].client = i
        PROVE  HasDevice(u, o, i)'
    BY <1>1, <1>2, <2>2 DEF SlotInv, PlaceKept
  <2> QED BY <2>1, <2>2 DEF PlaceKept
<1>5. \A u \in Users : DeviceCount(u)' <= MaxDevices
  BY <1>1 DEF SlotInv
<1> QED BY <1>3, <1>4, <1>5 DEF SlotInv, device

\* An exchange has signed a device of its approver in.
LEMMA SlotIfIssued ==
  ASSUME TypeInv, TypeInv', CodeInv, SlotInv, [Next]_vars, NEW q \in Requests, Checked(q), Ends(q),
         linked \subseteq linked', IsFiniteSet(linked'),
         \A u \in Users : /\ DeviceCount(u)' <= MaxDevices
                          /\ u # request[q].user => DeviceCount(u)' = DeviceCount(u)
  PROVE  SlotInv'
<1>1. /\ request'[q] = Idle
      /\ \A p \in Requests : p # q => request'[p] = request[p]
  BY OneCall DEF TypeInv, Ends
<1>2. \A p \in Requests : Holds(p)' => p # q /\ request'[p] = request[p] /\ Holds(p)
  BY <1>1 DEF Holds, At, Idle
<1>3. \A p \in Requests : Holds(p)' /\ request[p].user \in Users => request[p].user # request[q].user
  BY <1>2 DEF SlotInv, OwnerExclusive, Holds, Checked
<1>4. \A u \in Users : u # request[q].user =>
        /\ SlotAvailable(u) => SlotAvailable(u)'
        /\ \A p \in Profiles, i \in Clients : HasDevice(u, p, i) => HasDevice(u, p, i)'
  BY DEF SlotAvailable, HasDevice
<1>5. OwnerExclusive'
  BY <1>2 DEF SlotInv, OwnerExclusive
<1>6. ASSUME NEW p \in Requests, At(p, "exchange", "checked")'
      PROVE  /\ request'[p].user \in Users
             /\ \A u \in Users : request'[p].user = u => SlotAvailable(u)'
  <2>1. Holds(p)' /\ request'[p] = request[p] /\ At(p, "exchange", "checked")
    BY <1>2, <1>6 DEF Holds, At
  <2> QED BY <1>3, <1>4, <2>1 DEF SlotInv, PlaceKept
<1>7. ASSUME NEW p \in Requests, At(p, "quick", "checked")', NEW u \in Users, NEW o \in Profiles,
             NEW i \in Clients, request'[p].user = u, request'[p].profile = o,
             row'[request'[p].code].client = i
      PROVE  HasDevice(u, o, i)'
  <2>1. Holds(p)' /\ request'[p] = request[p] /\ At(p, "quick", "checked")
    BY <1>2, <1>7 DEF Holds, At
  <2>2. row[request[p].code].client = i
    BY <1>7, <2>1, CheckedRowKept DEF Checked
  <2> QED BY <1>3, <1>4, <1>7, <2>1, <2>2 DEF SlotInv, PlaceKept
<1> QED BY <1>5, <1>6, <1>7 DEF SlotInv, PlaceKept

LEMMA SlotExchange ==
  ASSUME TypeInv, TypeInv', CodeInv, SlotInv, [Next]_vars, NEW q \in Requests, Exchange(q)
  PROVE  SlotInv'
<1>1. ASSUME Ends(q), UNCHANGED device PROVE SlotInv'
  <2>1. \A p \in Requests : Holds(p)' => request'[p] = request[p]
    BY <1>1, OneCall DEF TypeInv, Ends, Holds, At, Idle
  <2> QED BY <1>1, <2>1, SlotIfNoneHolds DEF device, TypeInv, TypeOK
<1>2. ASSUME NEW c \in Codes, Discover(q, c) PROVE SlotInv'
  <2> DEFINE r == [op |-> "exchange", code |-> c, user |-> row[c].approver,
                   stage |-> IF row[c].approver = NoUser THEN "owned" ELSE "discovered"]
  <2>1. /\ r.op = "exchange" /\ r.stage # "checked" /\ (r.stage = "owned" => r.user \notin Users)
        /\ Goes(q, r) /\ UNCHANGED <<row, device>>
    BY <1>2, DeviceAuthorizationAssumption DEF Discover
  <2> HIDE DEF r
  <2>2. request'[q] = r /\ \A p \in Requests : p # q => request'[p] = request[p]
    BY <2>1, OneCall DEF TypeInv
  <2> QED BY <2>1, <2>2, SlotIfMoved DEF Holds, At
<1>3. ASSUME NEW c \in Codes, ReadApproval(q, c) PROVE SlotInv'
  <2> DEFINE r == [op |-> "quick", stage |-> "read", code |-> c, user |-> row[c].approver,
                   profile |-> row[c].profile, category |-> row[c].category]
  <2>1. r.op = "quick" /\ r.stage = "read" /\ Goes(q, r) /\ UNCHANGED <<row, device>>
    BY <1>3 DEF ReadApproval
  <2> HIDE DEF r
  <2>2. request'[q] = r /\ \A p \in Requests : p # q => request'[p] = request[p]
    BY <2>1, OneCall DEF TypeInv
  <2> QED BY <2>1, <2>2, SlotIfMoved DEF Holds, At
<1>4. ASSUME GoesTo(q, "owned"), UNCHANGED <<row, device>>, ~UserLocked(request[q].user),
             request[q] \in ExchangeCall \/ request[q] \in QuickCall
      PROVE  SlotInv'
  <2>1. request'[q].stage = "owned" /\ request'[q].user = request[q].user
    BY <1>4, ExchangeMoves
  <2>2. \A p \in Requests : p # q => request'[p] = request[p]
    BY <1>4, OneCall DEF TypeInv, GoesTo
  <2>3. \A p \in Requests : Holds(p) => request[p].user # request[q].user
    BY <1>4 DEF UserLocked, UserExclusive, Holds
  <2> QED BY <1>4, <2>1, <2>2, <2>3, SlotIfMoved DEF At
<1>5. ASSUME LockOwner(q) PROVE SlotInv'
  <2>1. request[q] \in ExchangeCall
    BY <1>5, CallsByOperation DEF LockOwner, At, TypeInv
  <2> QED BY <1>1, <1>4, <1>5, <2>1 DEF LockOwner, OwnerLock
<1>6. ASSUME CheckCode(q) PROVE SlotInv'
  <2>1. request[q] \in ExchangeCall /\ At(q, "exchange", "owned") /\ UNCHANGED device
    BY <1>6, CallsByOperation DEF CheckCode, At, TypeInv
  <2>2. CASE GoesTo(q, "checked") /\ UNCHANGED row /\ request[q].user # NoUser
             /\ SlotAvailable(request[q].user)
    <3>1. request'[q].op = "exchange" /\ request'[q].user = request[q].user
      BY <2>1, <2>2, ExchangeMoves DEF At
    <3>2. \A p \in Requests : p # q => request'[p] = request[p]
      BY <2>2, OneCall DEF TypeInv, GoesTo
    <3>3. request[q].user \in Users
      BY <2>1, <2>2 DEF ExchangeCall
    <3> QED BY <2>1, <2>2, <3>1, <3>2, <3>3, SlotIfMoved DEF At, Holds
  <2> QED BY <1>1, <1>6, <2>1, <2>2 DEF CheckCode
<1>7. ASSUME LockApproval(q) PROVE SlotInv'
  <2>1. request[q] \in QuickCall
    BY <1>7, CallsByOperation DEF LockApproval, At, TypeInv
  <2> QED BY <1>1, <1>4, <1>7, <2>1 DEF LockApproval
<1>8. ASSUME CheckApproval(q) PROVE SlotInv'
  <2>1. request[q] \in QuickCall /\ At(q, "quick", "owned") /\ UNCHANGED <<row, device>>
    BY <1>8, CallsByOperation DEF CheckApproval, At, TypeInv
  <2>2. CASE GoesTo(q, "checked")
             /\ HasDevice(request[q].user, request[q].profile, row[request[q].code].client)
    <3>1. /\ request'[q].op = "quick" /\ request'[q].user = request[q].user
          /\ request'[q].profile = request[q].profile /\ request'[q].code = request[q].code
      BY <2>1, <2>2, ExchangeMoves DEF At
    <3>2. \A p \in Requests : p # q => request'[p] = request[p]
      BY <2>2, OneCall DEF TypeInv, GoesTo
    <3> QED BY <2>1, <2>2, <3>1, <3>2, SlotIfMoved DEF At, Holds
  <2> QED BY <1>1, <1>8, <2>1, <2>2 DEF CheckApproval
<1>9. ASSUME IssueNative(q) PROVE SlotInv'
  <2>1. At(q, "exchange", "checked") /\ Ends(q) /\ UNCHANGED linked
    BY <1>9 DEF IssueNative
  <2>2. PICK u \in Users : u = request[q].user /\ DeviceCount(u) < MaxDevices
    BY <2>1 DEF SlotInv, PlaceKept, SlotAvailable
  <2>3. devices'[u] = devices[u] + 1 /\ \A v \in Users : v # u => devices'[v] = devices[v]
    BY <1>9, <2>2 DEF IssueNative, TypeInv, TypeOK
  <2>4. DeviceCount(u)' = DeviceCount(u) + 1
    <3>1. /\ Cardinality({l \in linked : l[1] = u}) \in Nat /\ devices[u] \in Nat
      BY DeviceCountTyped DEF SlotInv, TypeInv, TypeOK
    <3>2. DeviceCount(u)' = devices'[u] + Cardinality({l \in linked : l[1] = u})
      BY <2>1 DEF DeviceCount
    <3> QED BY <2>3, <3>1, <3>2 DEF DeviceCount
  <2>5. \A v \in Users : v # u => DeviceCount(v)' = DeviceCount(v)
    BY <2>1, <2>3 DEF DeviceCount
  <2>6. DeviceCount(u)' <= MaxDevices
    <3>1. DeviceCount(u) \in Nat
      BY DeviceCountTyped DEF SlotInv
    <3> QED BY <2>2, <2>4, <3>1, DeviceAuthorizationAssumption
  <2>7. \A v \in Users : DeviceCount(v)' <= MaxDevices
    BY <2>5, <2>6 DEF SlotInv
  <2> QED BY <2>1, <2>2, <2>5, <2>7, SlotIfIssued DEF Checked, SlotInv
<1>10. ASSUME IssueQuick(q) PROVE SlotInv'
  <2>0. At(q, "quick", "checked") /\ Ends(q) /\ UNCHANGED devices
    BY <1>10 DEF IssueQuick
  <2>2. PICK u \in Users, p \in Profiles, i \in Clients :
          u = request[q].user /\ p = request[q].profile /\ i = row[request[q].code].client
    <3>1. request[q] \in QuickCall /\ request[q].code \in Codes
      BY <2>0, CallsByOperation DEF At, TypeInv, QuickCall
    <3>2. row[request[q].code].client \in Clients
      BY <3>1 DEF TypeInv, TypeOK, Row
    <3> QED BY <3>1, <3>2 DEF QuickCall
  <2> DEFINE l == <<u, p, i>>
  <2>1. /\ At(q, "quick", "checked") /\ Ends(q) /\ UNCHANGED devices
        /\ linked' = linked \/ linked' = linked \cup {l}
    BY <1>10, <2>2 DEF IssueQuick
  <2>3. l[1] = u /\ (l \in linked \/ DeviceCount(u) < MaxDevices)
    BY <2>1, <2>2 DEF SlotInv, PlaceKept, HasDevice, SlotAvailable
  <2> HIDE DEF l
  <2>4. IsFiniteSet(linked') /\ linked \subseteq linked'
    BY <2>1, FS_AddElement DEF SlotInv
  <2>5. \A v \in Users : v # u => DeviceCount(v)' = DeviceCount(v)
    <3>1. ASSUME NEW v \in Users, v # u PROVE {m \in linked' : m[1] = v} = {m \in linked : m[1] = v}
      BY <2>1, <2>3, <3>1
    <3> QED BY <2>1, <3>1 DEF DeviceCount
  <2>6. DeviceCount(u)' <= MaxDevices
    <3> DEFINE L == {m \in linked : m[1] = u}
               M == {m \in linked' : m[1] = u}
    <3>1. IsFiniteSet(L) /\ Cardinality(L) \in Nat /\ devices[u] \in Nat
      BY DeviceCountTyped DEF SlotInv, TypeInv, TypeOK
    <3>2. DeviceCount(u) = devices[u] + Cardinality(L) /\ DeviceCount(u)' = devices[u] + Cardinality(M)
      BY <2>1 DEF DeviceCount
    <3>3. DeviceCount(u) <= MaxDevices
      BY DEF SlotInv
    <3>4. M = L \/ (M = L \cup {l} /\ l \notin linked)
      BY <2>1, <2>3
    <3> HIDE DEF L, M
    <3>5. Cardinality(L \cup {l}) <= Cardinality(L) + 1 /\ Cardinality(L \cup {l}) \in Nat
      <4>1. Cardinality(L \cup {l}) = IF l \in L THEN Cardinality(L) ELSE Cardinality(L) + 1
        BY <3>1, FS_AddElement
      <4> QED BY <3>1, <4>1
    <3>6. CASE M = L
      BY <3>2, <3>3, <3>6
    <3>7. CASE M = L \cup {l} /\ l \notin linked
      BY <2>3, <3>1, <3>2, <3>5, <3>7, DeviceAuthorizationAssumption
    <3> QED BY <3>4, <3>6, <3>7
  <2>7. \A v \in Users : DeviceCount(v)' <= MaxDevices
    BY <2>5, <2>6 DEF SlotInv
  <2> QED BY <2>1, <2>2, <2>4, <2>5, <2>7, SlotIfIssued DEF Checked
<1> QED BY <1>2, <1>3, <1>5, <1>6, <1>7, <1>8, <1>9, <1>10 DEF Exchange

LEMMA SlotStep == TypeInv /\ CodeInv /\ SlotInv /\ [Next]_vars => SlotInv'
<1> SUFFICES ASSUME TypeInv, CodeInv, SlotInv, [Next]_vars PROVE SlotInv'
  OBVIOUS
<1>0. TypeInv' /\ devices \in [Users -> Nat]
  BY TypeStep DEF TypeInv, TypeOK
<1>1. ASSUME UNCHANGED device, \A p \in Requests : Holds(p)' => request'[p] = request[p]
      PROVE  SlotInv'
  BY <1>0, <1>1, SlotIfNoneHolds DEF device
<1>2. ASSUME NEW q \in Requests, NEW r, Goes(q, r), r.op # "exchange", r.op # "quick", UNCHANGED device
      PROVE  SlotInv'
  <2>1. request'[q] = r /\ \A p \in Requests : p # q => request'[p] = request[p]
    BY <1>2, OneCall DEF TypeInv
  <2>2. \A p \in Requests : Holds(p)' => request'[p] = request[p]
    BY <1>2, <2>1 DEF Holds, At
  <2> QED BY <1>1, <1>2, <2>2
<1>3. ASSUME NEW q \in Requests, Ends(q), UNCHANGED device PROVE SlotInv'
  BY <1>2, <1>3, IdleTyped DEF Ends
<1>4. ASSUME NEW q \in Requests, Begin(q) PROVE SlotInv'
  <2>1. ASSUME NEW purpose \in Purposes, NEW source \in household.sources, NEW client \in Clients,
               AdmitCode(q, purpose, source, client)
        PROVE  SlotInv'
    <3>1. request'[q].op = "begin" /\ \A p \in Requests : p # q => request'[p] = request[p]
      BY <2>1, Admission
    <3>2. \A p \in Requests : Holds(p)' => request'[p] = request[p]
      BY <3>1 DEF Holds, At
    <3> QED BY <1>1, <2>1, <3>2 DEF AdmitCode
  <2>2. ASSUME InsertCode(q) PROVE SlotInv'
    BY <1>3, <2>2 DEF InsertCode
  <2> QED BY <1>4, <2>1, <2>2 DEF Begin
<1>5. ASSUME NEW q \in Requests, Approve(q) PROVE SlotInv'
  <2>1. ASSUME NEW c \in Codes, NEW u \in Users, NEW p \in Profiles, NEW k \in household.categories,
               FindCode(q, c, u, p, k)
        PROVE  SlotInv'
    <3> DEFINE r == [op |-> "approve", stage |-> "found", code |-> c, purpose |-> row[c].purpose,
                     user |-> u, profile |-> p, locked |-> {},
                     category |-> IF row[c].purpose = "quick" THEN NoCategory ELSE k]
    <3>1. r.op = "approve" /\ Goes(q, r) /\ UNCHANGED device
      BY <2>1 DEF FindCode
    <3> HIDE DEF r
    <3> QED BY <1>2, <3>1
  <2>2. ASSUME AuthorizeApprover(q) PROVE SlotInv'
    <3>1. ASSUME NEW s \in ApproveCall, Goes(q, s) PROVE SlotInv'
      <4>1. s.op = "approve"
        BY DEF ApproveCall
      <4> QED BY <1>2, <2>2, <3>1, <4>1 DEF AuthorizeApprover
    <3> QED BY <1>3, <2>2, <3>1, AuthorisedApproval DEF AuthorizeApprover
  <2>3. ASSUME ApproveCode(q) PROVE SlotInv'
    BY <1>3, <2>3 DEF ApproveCode
  <2> QED BY <1>5, <2>1, <2>2, <2>3 DEF Approve
<1>6. ASSUME NEW q \in Requests, Abandon(q) PROVE SlotInv'
  BY <1>3, <1>6 DEF Abandon
<1>7. ASSUME UNCHANGED <<device, request>> PROVE SlotInv'
  BY <1>1, <1>7
<1>8. ASSUME NEW u \in Users, DeleteUser(u) PROVE SlotInv'
  <2>1. \A v \in Users : devices'[v] <= devices[v]
    BY <1>0, <1>8 DEF DeleteUser
  <2> QED BY <1>0, <1>8, <2>1, SlotIfNoneHolds DEF DeleteUser
<1>9. ASSUME NEW u \in Users, RemoveDevice(u) PROVE SlotInv'
  <2>1. \A v \in Users : devices'[v] <= devices[v]
    BY <1>0, <1>9 DEF RemoveDevice
  <2>2. linked' \subseteq linked /\ UNCHANGED request
    BY <1>9 DEF RemoveDevice
  <2> QED BY <1>0, <2>1, <2>2, SlotIfNoneHolds
<1>10. CASE Cleanup
  BY <1>7, <1>10 DEF Cleanup
<1>11. ASSUME NEW u \in Users, NEW p \in Profiles, NEW g \in {"none", "use", "manage"},
              SetGrant(u, p, g)
       PROVE  SlotInv'
  BY <1>7, <1>11 DEF SetGrant
<1>12. ASSUME NEW p \in Profiles, NEW k \in household.categories, MoveProfile(p, k) PROVE SlotInv'
  BY <1>7, <1>12 DEF MoveProfile
<1>16. ASSUME NEW u \in Users, SetRole(u) PROVE SlotInv'
  BY <1>7, <1>16 DEF SetRole
<1>13. CASE Tick
  BY <1>7, <1>13 DEF Tick
<1>14. CASE UNCHANGED vars
  BY <1>7, <1>14 DEF vars, device
<1>15. ASSUME NEW q \in Requests, Exchange(q) PROVE SlotInv'
  BY <1>0, <1>15, SlotExchange
<1> QED BY <1>4, <1>5, <1>6, <1>8, <1>9, <1>10, <1>11, <1>12, <1>13, <1>14, <1>15, <1>16 DEF Next

-----------------------------------------------------------------------------
(* The limits on outstanding codes. *)

\* The codes O of a source, and the sources that have exactly one of them.
OfSource(O, from, s) == {c \in O : from[c] = s}
Singles(O, from) == {s \in Sources : Cardinality(OfSource(O, from, s)) = 1}

\* Losing codes loses no more sources with a single code.
LEMMA FewerCodes ==
  ASSUME NEW O, IsFiniteSet(O), NEW P \in SUBSET O, NEW from
  PROVE  /\ Cardinality(O) \in Nat /\ Cardinality(P) \in Nat
         /\ Cardinality(Singles(O, from)) \in Nat /\ Cardinality(Singles(P, from)) \in Nat
         /\ Cardinality(P) <= Cardinality(O)
         /\ \A s \in Sources : Cardinality(OfSource(P, from, s)) <= Cardinality(OfSource(O, from, s))
         /\ Cardinality(Singles(O, from)) - Cardinality(Singles(P, from)) <=
              Cardinality(O) - Cardinality(P)
<1> DEFINE A == Singles(O, from)
           B == Singles(P, from)
<1>1. IsFiniteSet(Sources) /\ A \subseteq Sources /\ B \subseteq Sources
  BY DeviceAuthorizationAssumption DEF Singles
<1>2. /\ IsFiniteSet(A) /\ IsFiniteSet(B) /\ IsFiniteSet(A \ B)
      /\ Cardinality(A) \in Nat /\ Cardinality(B) \in Nat /\ Cardinality(A \ B) \in Nat
  <2>1. A \ B \subseteq Sources
    BY <1>1
  <2> QED BY <1>1, <2>1, FS_Subset, FS_CardinalityType
<1>3. Cardinality(A) <= Cardinality(B) + Cardinality(A \ B)
  <2>1. A \subseteq B \cup (A \ B) /\ B \cap (A \ B) = {}
    OBVIOUS
  <2> HIDE DEF A, B
  <2>2. /\ IsFiniteSet(B \cup (A \ B))
        /\ Cardinality(B \cup (A \ B)) =
             Cardinality(B) + Cardinality(A \ B) - Cardinality(B \cap (A \ B))
    BY <1>2, FS_Union
  <2>3. Cardinality(B \cup (A \ B)) = Cardinality(B) + Cardinality(A \ B)
    BY <1>2, <2>1, <2>2, FS_EmptySet
  <2>4. Cardinality(A) <= Cardinality(B \cup (A \ B))
    BY <2>1, <2>2, FS_Subset
  <2> QED BY <2>3, <2>4
<1>4. IsFiniteSet(P) /\ Cardinality(P) <= Cardinality(O)
        /\ Cardinality(O) \in Nat /\ Cardinality(P) \in Nat
  BY FS_Subset, FS_CardinalityType
<1>5. IsFiniteSet(O \ P) /\ Cardinality(O \ P) = Cardinality(O) - Cardinality(P)
  <2>1. O \cap P = P
    OBVIOUS
  <2> QED BY <2>1, FS_Difference
<1>6. ASSUME NEW s \in Sources
      PROVE  /\ IsFiniteSet(OfSource(O, from, s)) /\ IsFiniteSet(OfSource(P, from, s))
             /\ OfSource(P, from, s) \subseteq OfSource(O, from, s)
             /\ Cardinality(OfSource(P, from, s)) <= Cardinality(OfSource(O, from, s))
  <2>1. /\ OfSource(P, from, s) \subseteq OfSource(O, from, s)
        /\ OfSource(O, from, s) \subseteq O
    BY DEF OfSource
  <2> QED BY <2>1, FS_Subset
<1>7. Cardinality(A \ B) <= Cardinality(O \ P)
  <2> DEFINE f == [s \in A \ B |-> CHOOSE c \in O \ P : from[c] = s]
  <2>1. ASSUME NEW s \in A \ B PROVE \E c \in O \ P : from[c] = s
    <3>1. PICK c : OfSource(O, from, s) = {c}
      BY <1>1, <1>6, FS_Singleton DEF Singles
    <3>2. CASE c \in P
      <4>1. OfSource(P, from, s) = {c}
        BY <1>1, <1>6, <3>1, <3>2 DEF OfSource
      <4>2. s \in B
        BY <1>1, <4>1, FS_Singleton DEF Singles
      <4> QED BY <4>2
    <3>3. c \in O /\ from[c] = s
      BY <3>1 DEF OfSource
    <3> QED BY <3>2, <3>3
  <2>2. \A s \in A \ B : f[s] \in O \ P /\ from[f[s]] = s
    BY <2>1
  <2> HIDE DEF A, B, f
  <2>3. f \in Injection(A \ B, O \ P)
    <3>1. f \in [A \ B -> O \ P]
      BY <2>2 DEF f
    <3>2. \A s, t \in A \ B : f[s] = f[t] => s = t
      BY <2>2
    <3> QED BY <3>1, <3>2 DEF Injection, IsInjective
  <2> QED BY <1>5, <2>3, FS_Injection
<1> HIDE DEF A, B
<1>8. Cardinality(A) - Cardinality(B) <= Cardinality(O) - Cardinality(P)
  BY <1>2, <1>3, <1>4, <1>5, <1>7
<1> QED BY <1>2, <1>4, <1>6, <1>8 DEF A, B

SourceOf == [c \in Codes |-> row[c].source]

\* A begin that was admitted still finds room, for the codes it does not delete.
RoomKept ==
  \A q \in Requests : request[q].op = "begin" =>
    LET rest == Outstanding \ request[q].doomed IN
      Admitted(Cardinality(rest), Cardinality(OfSource(rest, SourceOf, request[q].source)))

\* CodeLimits, in terms of the lemma on fewer codes.
Limits ==
  /\ Cardinality(Outstanding) <= Capacity
  /\ \A s \in Sources : Cardinality(OfSource(Outstanding, SourceOf, s)) <= SourceCapacity
  /\ Cardinality(Outstanding) - GeneralCapacity <= Cardinality(Singles(Outstanding, SourceOf))

RoomInv == Limits /\ RoomKept

LEMMA GeneralCapacityTyped == GeneralCapacity \in Int
<1>1. Capacity * ReservePercent \in Int /\ Capacity \in Int
  BY DeviceAuthorizationAssumption
<1>2. (Capacity * ReservePercent + 99) \div 100 \in Int
  BY <1>1
<1> QED BY <1>1, <1>2 DEF GeneralCapacity

LEMMA OutstandingFinite == IsFiniteSet(Outstanding) /\ Outstanding \subseteq Codes
BY FS_Subset, DeviceAuthorizationAssumption DEF Outstanding

LEMMA LimitsAreCodeLimits == TypeInv /\ Limits => CodeLimits
<1> SUFFICES ASSUME TypeInv, Limits PROVE CodeLimits
  OBVIOUS
<1>1. \A s \in Sources : OfSource(Outstanding, SourceOf, s) = {c \in Outstanding : row[c].source = s}
  BY OutstandingFinite DEF OfSource, SourceOf
<1>2. {s \in Sources : Cardinality({c \in Outstanding : row[c].source = s}) = 1}
        = Singles(Outstanding, SourceOf)
  BY <1>1 DEF Singles
<1> QED BY <1>1, <1>2 DEF Limits, CodeLimits

\* The codes O of the present and P of the next state are of the same sources.
LEMMA SameSources ==
  ASSUME NEW P \in SUBSET Codes, \A c \in P : row'[c].source = row[c].source
  PROVE  /\ \A s : OfSource(P, SourceOf', s) = OfSource(P, SourceOf, s)
         /\ Singles(P, SourceOf') = Singles(P, SourceOf)
<1>1. \A s : OfSource(P, SourceOf', s) = OfSource(P, SourceOf, s)
  BY DEF OfSource, SourceOf
<1> QED BY <1>1 DEF Singles

\* Codes go, and nothing is admitted.
LEMMA RoomIfFewer ==
  ASSUME TypeInv, RoomInv, Outstanding' \subseteq Outstanding,
         \A c \in Outstanding' : row'[c].source = row[c].source,
         \A q \in Requests : request'[q].op = "begin" => request'[q] = request[q]
  PROVE  RoomInv'
<1> DEFINE O == Outstanding
           P == Outstanding'
<1>1. IsFiniteSet(O) /\ O \subseteq Codes /\ P \subseteq O /\ GeneralCapacity \in Int
  BY OutstandingFinite, GeneralCapacityTyped
<1>2. \A Q \in SUBSET P : /\ \A s : OfSource(Q, SourceOf', s) = OfSource(Q, SourceOf, s)
                          /\ Singles(Q, SourceOf') = Singles(Q, SourceOf)
  BY <1>1, SameSources
<1> HIDE DEF P
<1>3. Limits'
  <2>1. /\ Cardinality(O) \in Nat /\ Cardinality(P) \in Nat
        /\ Cardinality(Singles(O, SourceOf)) \in Nat /\ Cardinality(Singles(P, SourceOf)) \in Nat
        /\ Cardinality(P) <= Cardinality(O)
        /\ Cardinality(Singles(O, SourceOf)) - Cardinality(Singles(P, SourceOf)) <=
             Cardinality(O) - Cardinality(P)
    BY <1>1, FewerCodes
  <2>2. /\ Cardinality(O) <= Capacity
        /\ Cardinality(O) - GeneralCapacity <= Cardinality(Singles(O, SourceOf))
    BY DEF RoomInv, Limits
  <2>3. /\ Cardinality(P) <= Capacity
        /\ Cardinality(P) - GeneralCapacity <= Cardinality(Singles(P, SourceOf))
    BY <1>1, <2>1, <2>2, DeviceAuthorizationAssumption
  <2>4. ASSUME NEW s \in Sources PROVE Cardinality(OfSource(P, SourceOf', s)) <= SourceCapacity
    <3>1. /\ Cardinality(OfSource(P, SourceOf, s)) <= Cardinality(OfSource(O, SourceOf, s))
          /\ IsFiniteSet(OfSource(O, SourceOf, s)) /\ IsFiniteSet(OfSource(P, SourceOf, s))
      <4>1. /\ OfSource(P, SourceOf, s) \subseteq OfSource(O, SourceOf, s)
            /\ OfSource(O, SourceOf, s) \subseteq O
        BY <1>1 DEF OfSource
      <4> QED BY <1>1, <4>1, FS_Subset
    <3>2. Cardinality(OfSource(O, SourceOf, s)) <= SourceCapacity
      BY DEF RoomInv, Limits
    <3>3. /\ Cardinality(OfSource(O, SourceOf, s)) \in Nat
          /\ Cardinality(OfSource(P, SourceOf, s)) \in Nat
      BY <3>1, FS_CardinalityType
    <3> QED BY <1>2, <3>1, <3>2, <3>3, DeviceAuthorizationAssumption
  <2> QED BY <1>2, <2>3, <2>4 DEF Limits, P
<1>4. RoomKept'
  <2>1. ASSUME NEW q \in Requests, request'[q].op = "begin"
        PROVE  LET rest == P \ request'[q].doomed IN
                 Admitted(Cardinality(rest), Cardinality(OfSource(rest, SourceOf', request'[q].source)))
    <3> DEFINE r == request[q]
               old == O \ r.doomed
               new == P \ r.doomed
               s == r.source
    <3>1. request'[q] = r /\ r.op = "begin"
      BY <2>1
    <3>2. Admitted(Cardinality(old), Cardinality(OfSource(old, SourceOf, s)))
      BY <3>1 DEF RoomInv, RoomKept
    <3>3. new \subseteq old /\ old \subseteq O /\ new \subseteq P
      BY <1>1
    <3>4. s \in Sources
      BY <3>1, CallsByOperation DEF TypeInv, BeginCall
    <3> HIDE DEF old, new, s
    <3>5. IsFiniteSet(old)
      BY <1>1, <3>3, FS_Subset
    <3>6. /\ Cardinality(old) \in Nat /\ Cardinality(new) \in Nat /\ Cardinality(new) <= Cardinality(old)
          /\ Cardinality(OfSource(new, SourceOf, s)) <= Cardinality(OfSource(old, SourceOf, s))
      BY <3>3, <3>4, <3>5, FewerCodes
    <3>7. /\ Cardinality(OfSource(new, SourceOf, s)) \in Nat
          /\ Cardinality(OfSource(old, SourceOf, s)) \in Nat
      <4>1. OfSource(new, SourceOf, s) \subseteq old /\ OfSource(old, SourceOf, s) \subseteq old
        BY <3>3 DEF OfSource
      <4> QED BY <3>5, <4>1, FS_Subset, FS_CardinalityType
    <3>8. OfSource(new, SourceOf', s) = OfSource(new, SourceOf, s)
      BY <1>2, <3>3
    <3>9. Admitted(Cardinality(new), Cardinality(OfSource(new, SourceOf, s)))
      BY <1>1, <3>2, <3>6, <3>7, DeviceAuthorizationAssumption DEF Admitted
    <3> QED BY <3>1, <3>8, <3>9 DEF new, s
  <2> QED BY <2>1 DEF RoomKept, P
<1> QED BY <1>3, <1>4 DEF RoomInv

\* One more code, where there is room for it.
LEMMA OneMoreCode ==
  ASSUME NEW O, IsFiniteSet(O), NEW c, c \notin O, NEW from, from[c] \in Sources,
         Admitted(Cardinality(O), Cardinality(OfSource(O, from, from[c]))),
         \A s \in Sources : Cardinality(OfSource(O, from, s)) <= SourceCapacity,
         Cardinality(O) - GeneralCapacity <= Cardinality(Singles(O, from))
  PROVE  LET P == O \cup {c} IN
         /\ Cardinality(P) <= Capacity
         /\ \A s \in Sources : Cardinality(OfSource(P, from, s)) <= SourceCapacity
         /\ Cardinality(P) - GeneralCapacity <= Cardinality(Singles(P, from))
<1> DEFINE P == O \cup {c}
           s == from[c]
<1>1. /\ IsFiniteSet(P) /\ Cardinality(O) \in Nat /\ Cardinality(P) = Cardinality(O) + 1
  BY FS_AddElement, FS_CardinalityType
<1>2. ASSUME NEW t \in Sources
      PROVE  /\ IsFiniteSet(OfSource(O, from, t)) /\ Cardinality(OfSource(O, from, t)) \in Nat
             /\ OfSource(P, from, t) = IF t = s THEN OfSource(O, from, t) \cup {c} ELSE OfSource(O, from, t)
             /\ c \notin OfSource(O, from, t)
  <2>1. OfSource(O, from, t) \subseteq O
    BY DEF OfSource
  <2>2. IsFiniteSet(OfSource(O, from, t)) /\ Cardinality(OfSource(O, from, t)) \in Nat
    BY <2>1, FS_Subset, FS_CardinalityType
  <2>3. OfSource(P, from, t) = IF t = s THEN OfSource(O, from, t) \cup {c} ELSE OfSource(O, from, t)
    BY DEF OfSource
  <2> QED BY <2>1, <2>2, <2>3
<1>3. Cardinality(OfSource(P, from, s)) = Cardinality(OfSource(O, from, s)) + 1
  BY <1>2, FS_AddElement
<1> HIDE DEF P, s
<1>4. /\ Cardinality(O) < Capacity /\ Cardinality(OfSource(O, from, s)) < SourceCapacity
      /\ Cardinality(O) < GeneralCapacity \/ Cardinality(OfSource(O, from, s)) = 0
  BY DEF Admitted, s
<1>5. s \in Sources
  BY DEF s
<1>6. Cardinality(P) <= Capacity
  BY <1>1, <1>4, DeviceAuthorizationAssumption
<1>7. ASSUME NEW t \in Sources PROVE Cardinality(OfSource(P, from, t)) <= SourceCapacity
  <2>1. CASE t = s
    BY <1>2, <1>3, <1>4, <2>1, DeviceAuthorizationAssumption
  <2>2. CASE t # s
    BY <1>2, <2>2
  <2> QED BY <2>1, <2>2
<1>8. /\ IsFiniteSet(Singles(O, from)) /\ Cardinality(Singles(O, from)) \in Nat
      /\ IsFiniteSet(Singles(P, from)) /\ Cardinality(Singles(P, from)) \in Nat
  <2>1. Singles(O, from) \subseteq Sources /\ Singles(P, from) \subseteq Sources
    BY DEF Singles
  <2> QED BY <2>1, FS_Subset, FS_CardinalityType, DeviceAuthorizationAssumption
<1>9. Cardinality(P) - GeneralCapacity <= Cardinality(Singles(P, from))
  <2>1. CASE Cardinality(O) < GeneralCapacity
    BY <1>1, <1>8, <2>1, GeneralCapacityTyped
  <2>2. CASE Cardinality(OfSource(O, from, s)) = 0
    <3>1. s \notin Singles(O, from)
      BY <2>2 DEF Singles
    <3>2. Singles(P, from) = Singles(O, from) \cup {s}
      BY <1>2, <1>3, <1>5, <2>2 DEF Singles
    <3>3. Cardinality(Singles(P, from)) = Cardinality(Singles(O, from)) + 1
      BY <1>8, <3>1, <3>2, FS_AddElement
    <3> QED BY <1>1, <1>8, <3>3, GeneralCapacityTyped
  <2> QED BY <1>4, <2>1, <2>2
<1> QED BY <1>6, <1>7, <1>9 DEF P

LEMMA RoomInit == Init => RoomInv
<1> SUFFICES ASSUME Init PROVE RoomInv
  OBVIOUS
<1>1. \A q \in Requests : request[q].op = "idle"
  BY DEF Init, Idle
<1>2. Outstanding = {}
  BY DEF Init, Outstanding, UnusedRow
<1>3. \A s : OfSource({}, SourceOf, s) = {}
  BY DEF OfSource
<1>4. Singles({}, SourceOf) = {}
  BY <1>3, FS_EmptySet DEF Singles
<1>5. GeneralCapacity >= 0
  <2>1. Capacity \in Nat \ {0} /\ ReservePercent \in 0..100
    BY DeviceAuthorizationAssumption
  <2> DEFINE share == Capacity * ReservePercent
  <2>2. share \in Nat /\ share <= Capacity * 100
    BY <2>1
  <2> HIDE DEF share
  <2>3. (share + 99) \div 100 <= Capacity /\ (share + 99) \div 100 \in Int
    BY <2>1, <2>2
  <2> QED BY <2>1, <2>3 DEF GeneralCapacity, share
<1>6. Limits
  <2>1. /\ Cardinality(Outstanding) = 0 /\ Cardinality(Singles(Outstanding, SourceOf)) = 0
        /\ \A s : Cardinality(OfSource(Outstanding, SourceOf, s)) = 0
    BY <1>2, <1>3, <1>4, FS_EmptySet
  <2>2. 0 <= Capacity /\ 0 <= SourceCapacity /\ 0 - GeneralCapacity <= 0
    BY <1>5, GeneralCapacityTyped, DeviceAuthorizationAssumption
  <2> QED BY <2>1, <2>2 DEF Limits
<1> QED BY <1>1, <1>6 DEF RoomInv, RoomKept

LEMMA RoomBegin == ASSUME TypeInv, CodeInv, RoomInv, NEW q \in Requests, Begin(q) PROVE RoomInv'
<1>1. ASSUME NEW purpose \in Purposes, NEW source \in household.sources, NEW client \in Clients,
             AdmitCode(q, purpose, source, client)
      PROVE  RoomInv'
  <2> DEFINE rest == Outstanding \ Replaced(purpose, client)
  <2>1. /\ request'[q].source = source
        /\ request'[q].doomed = Stale \cup Replaced(purpose, client)
        /\ \A p \in Requests : request[p].op # "begin"
        /\ \A p \in Requests : p # q => request'[p] = request[p]
    BY <1>1, Admission
  <2>2. UNCHANGED row
    BY <1>1 DEF AdmitCode
  <2>3. Outstanding' = Outstanding /\ SourceOf' = SourceOf /\ Limits'
    BY <2>2 DEF RoomInv, Limits, Outstanding, SourceOf
  <2>4. Outstanding \ request'[q].doomed = rest
    BY <2>1 DEF Outstanding, Stale
  <2>5. OfSource(rest, SourceOf, source) = {c \in rest : row[c].source = source}
    BY OutstandingFinite DEF OfSource, SourceOf
  <2>6. Admitted(Cardinality(rest), Cardinality(OfSource(rest, SourceOf, source)))
    BY <1>1, <2>5 DEF AdmitCode
  <2> HIDE DEF rest
  <2>7. RoomKept'
    BY <2>1, <2>3, <2>4, <2>6 DEF RoomKept
  <2> QED BY <2>3, <2>7 DEF RoomInv
<1>2. ASSUME InsertCode(q) PROVE RoomInv'
  <2> DEFINE r == request[q]
             rest == Outstanding \ r.doomed
             from == SourceOf'
  <2>1. /\ r \in BeginCall /\ r.op = "begin" /\ r.code \in Codes
        /\ row'[r.code].state = "open" /\ row'[r.code].source = r.source /\ row'[r.code].life = CodeTTL
        /\ \A c \in Codes : c # r.code =>
             IF c \in r.doomed THEN row'[c] = DeletedRow ELSE row'[c] = row[c]
        /\ request'[q] = Idle
        /\ \A p \in Requests : p # q => request'[p] = request[p]
    BY <1>2, Insertion
  <2>2. row[r.code].state = "unused" /\ DeletedRow.state = "deleted"
    BY <2>1, UnusedTyped DEF CodeInv, DrawnUnused, DeletedRow, UnusedRow
  <2>3. RoomKept'
    BY <2>1 DEF CodeInv, DrawnUnused, RoomKept, Idle
  <2>4. r.code \notin rest /\ r.source \in Sources /\ from[r.code] = r.source
    BY <2>1, <2>2 DEF Outstanding, SourceOf, BeginCall
  <2> HIDE DEF r
  <2>5. Outstanding' = rest \cup {r.code}
    <3>1. ASSUME NEW c \in Codes PROVE c \in Outstanding' <=> c \in rest \cup {r.code}
      <4>1. CASE c = r.code
        BY <2>1, <4>1, DeviceAuthorizationAssumption DEF Outstanding
      <4>2. CASE c # r.code
        BY <2>1, <2>2, <4>2 DEF Outstanding
      <4> QED BY <4>1, <4>2
    <3>2. rest \cup {r.code} \subseteq Codes /\ Outstanding' \subseteq Codes
      BY <2>1, OutstandingFinite DEF Outstanding
    <3> HIDE DEF rest
    <3> QED BY <3>1, <3>2
  <2>6. /\ rest \subseteq Codes /\ rest \subseteq Outstanding /\ IsFiniteSet(rest)
        /\ \A c \in rest : row'[c].source = row[c].source
    BY <2>1, <2>4, OutstandingFinite, FS_Subset
  <2>7. /\ \A s : OfSource(rest, from, s) = OfSource(rest, SourceOf, s)
        /\ Singles(rest, from) = Singles(rest, SourceOf)
    BY <2>6, SameSources
  <2>8. Admitted(Cardinality(rest), Cardinality(OfSource(rest, SourceOf, r.source)))
    BY <2>1 DEF RoomInv, RoomKept, r
  <2> HIDE DEF rest, from
  <2>9. Limits'
    <3>1. /\ Cardinality(Outstanding) \in Nat /\ Cardinality(rest) \in Nat
          /\ Cardinality(Singles(Outstanding, SourceOf)) \in Nat /\ Cardinality(Singles(rest, SourceOf)) \in Nat
          /\ \A s \in Sources :
               Cardinality(OfSource(rest, SourceOf, s)) <= Cardinality(OfSource(Outstanding, SourceOf, s))
          /\ Cardinality(Singles(Outstanding, SourceOf)) - Cardinality(Singles(rest, SourceOf)) <=
               Cardinality(Outstanding) - Cardinality(rest)
      BY <2>6, OutstandingFinite, FewerCodes
    <3>2. Cardinality(rest) - GeneralCapacity <= Cardinality(Singles(rest, SourceOf))
      BY <3>1, GeneralCapacityTyped DEF RoomInv, Limits
    <3>3. ASSUME NEW s \in Sources PROVE Cardinality(OfSource(rest, SourceOf, s)) <= SourceCapacity
      <4>1. /\ OfSource(rest, SourceOf, s) \subseteq Outstanding
            /\ OfSource(Outstanding, SourceOf, s) \subseteq Outstanding
        BY <2>6 DEF OfSource
      <4>2. /\ Cardinality(OfSource(rest, SourceOf, s)) \in Nat
            /\ Cardinality(OfSource(Outstanding, SourceOf, s)) \in Nat
        BY <4>1, OutstandingFinite, FS_Subset, FS_CardinalityType
      <4>3. Cardinality(OfSource(Outstanding, SourceOf, s)) <= SourceCapacity
        BY DEF RoomInv, Limits
      <4> QED BY <3>1, <4>2, <4>3, DeviceAuthorizationAssumption
    <3>4. /\ Cardinality(rest \cup {r.code}) <= Capacity
          /\ \A s \in Sources : Cardinality(OfSource(rest \cup {r.code}, from, s)) <= SourceCapacity
          /\ Cardinality(rest \cup {r.code}) - GeneralCapacity <=
               Cardinality(Singles(rest \cup {r.code}, from))
      BY <2>4, <2>6, <2>7, <2>8, <3>2, <3>3, OneMoreCode
    <3> QED BY <2>5, <3>4 DEF Limits, from
  <2> QED BY <2>3, <2>9 DEF RoomInv
<1> QED BY <1>1, <1>2 DEF Begin

LEMMA RoomStep == TypeInv /\ CodeInv /\ RoomInv /\ [Next]_vars => RoomInv'
<1> SUFFICES ASSUME TypeInv, CodeInv, RoomInv, [Next]_vars PROVE RoomInv'
  OBVIOUS
<1>1. ASSUME NEW q \in Requests, NEW r, Goes(q, r), r.op # "begin",
             \A c \in Codes : /\ row'[c].state = "open" => row[c].state = "open"
                              /\ row'[c].life = row[c].life /\ row'[c].source = row[c].source
      PROVE  RoomInv'
  <2>1. \A p \in Requests : request'[p].op = "begin" => request'[p] = request[p]
    BY <1>1, OneCall DEF TypeInv
  <2>2. Outstanding' \subseteq Outstanding /\ Outstanding' \subseteq Codes
    BY <1>1 DEF Outstanding
  <2> QED BY <1>1, <2>1, <2>2, RoomIfFewer
<1>2. ASSUME NEW q \in Requests, Ends(q),
             \A c \in Codes : /\ row'[c].state = "open" => row[c].state = "open"
                              /\ row'[c].life = row[c].life /\ row'[c].source = row[c].source
      PROVE  RoomInv'
  BY <1>1, <1>2, IdleTyped DEF Ends
<1>3. ASSUME NEW q \in Requests, Approve(q) PROVE RoomInv'
  <2>1. ASSUME NEW c \in Codes, NEW u \in Users, NEW p \in Profiles, NEW k \in household.categories,
               FindCode(q, c, u, p, k)
        PROVE  RoomInv'
    <3> DEFINE r == [op |-> "approve", stage |-> "found", code |-> c, purpose |-> row[c].purpose,
                     user |-> u, profile |-> p, locked |-> {},
                     category |-> IF row[c].purpose = "quick" THEN NoCategory ELSE k]
    <3>1. r.op = "approve" /\ Goes(q, r) /\ UNCHANGED row
      BY <2>1 DEF FindCode
    <3> HIDE DEF r
    <3> QED BY <1>1, <3>1
  <2>2. ASSUME AuthorizeApprover(q) PROVE RoomInv'
    <3>1. ASSUME NEW s \in ApproveCall, Goes(q, s) PROVE RoomInv'
      <4>1. s.op = "approve"
        BY DEF ApproveCall
      <4> QED BY <1>1, <2>2, <3>1, <4>1 DEF AuthorizeApprover
    <3> QED BY <1>2, <2>2, <3>1, AuthorisedApproval DEF AuthorizeApprover
  <2>3. ASSUME ApproveCode(q) PROVE RoomInv'
    <3>1. \A c \in Codes : /\ row'[c].state = row[c].state /\ row'[c].life = row[c].life
                           /\ row'[c].source = row[c].source
      BY <2>3, Approval
    <3> QED BY <1>2, <2>3, <3>1 DEF ApproveCode
  <2> QED BY <1>3, <2>1, <2>2, <2>3 DEF Approve
<1>4. ASSUME NEW q \in Requests, Exchange(q) PROVE RoomInv'
  <2>1. ASSUME UNCHANGED row, NEW r, Goes(q, r), r.op # "begin" PROVE RoomInv'
    BY <1>1, <2>1
  <2>2. ASSUME UNCHANGED row, Ends(q) PROVE RoomInv'
    BY <1>2, <2>2
  <2>3. ASSUME UNCHANGED row, NEW stage, GoesTo(q, stage),
               request[q] \in ExchangeCall \/ request[q] \in QuickCall
        PROVE  RoomInv'
    <3>1. Goes(q, request'[q]) /\ request'[q].op # "begin"
      BY <2>3, ExchangeMoves DEF ExchangeCall, QuickCall
    <3> QED BY <2>1, <2>3, <3>1
  <2>4. ASSUME NEW c \in Codes, Discover(q, c) PROVE RoomInv'
    <3> DEFINE r == [op |-> "exchange", code |-> c, user |-> row[c].approver,
                     stage |-> IF row[c].approver = NoUser THEN "owned" ELSE "discovered"]
    <3>1. r.op # "begin" /\ Goes(q, r) /\ UNCHANGED row
      BY <2>4 DEF Discover
    <3> HIDE DEF r
    <3> QED BY <2>1, <3>1
  <2>5. ASSUME NEW c \in Codes, ReadApproval(q, c) PROVE RoomInv'
    <3> DEFINE r == [op |-> "quick", stage |-> "read", code |-> c, user |-> row[c].approver,
                     profile |-> row[c].profile, category |-> row[c].category]
    <3>1. r.op # "begin" /\ Goes(q, r) /\ UNCHANGED row
      BY <2>5 DEF ReadApproval
    <3> HIDE DEF r
    <3> QED BY <2>1, <3>1
  <2>6. ASSUME LockOwner(q) PROVE RoomInv'
    <3>1. request[q] \in ExchangeCall
      BY <2>6, CallsByOperation DEF LockOwner, At, TypeInv
    <3> QED BY <2>2, <2>3, <2>6, <3>1 DEF LockOwner
  <2>7. ASSUME CheckCode(q) PROVE RoomInv'
    <3>1. /\ request[q] \in ExchangeCall
          /\ \A c \in Codes : /\ row'[c].state = row[c].state /\ row'[c].life = row[c].life
                              /\ row'[c].source = row[c].source
      BY <2>7, Poll
    <3>2. CASE GoesTo(q, "checked") /\ UNCHANGED row
      BY <2>3, <3>1, <3>2
    <3>3. CASE Ends(q)
      BY <1>2, <3>1, <3>3
    <3> QED BY <2>7, <3>2, <3>3 DEF CheckCode
  <2>8. ASSUME LockApproval(q) PROVE RoomInv'
    <3>1. request[q] \in QuickCall
      BY <2>8, CallsByOperation DEF LockApproval, At, TypeInv
    <3> QED BY <2>2, <2>3, <2>8, <3>1 DEF LockApproval
  <2>9. ASSUME CheckApproval(q) PROVE RoomInv'
    <3>1. request[q] \in QuickCall
      BY <2>9, CallsByOperation DEF CheckApproval, At, TypeInv
    <3> QED BY <2>2, <2>3, <2>9, <3>1 DEF CheckApproval
  <2>10. ASSUME NEW c \in Codes, row' = [row EXCEPT ![c].state = "consumed"], Ends(q) PROVE RoomInv'
    <3>1. \A d \in Codes : d # c => row'[d] = row[d]
      BY <2>10 DEF TypeInv, TypeOK
    <3>2. row'[c] = [row[c] EXCEPT !.state = "consumed"] /\ row[c] \in Row
      BY <2>10 DEF TypeInv, TypeOK
    <3>3. row'[c].state = "consumed" /\ row'[c].life = row[c].life /\ row'[c].source = row[c].source
      BY <3>2 DEF Row
    <3> QED BY <1>2, <2>10, <3>1, <3>3
  <2>11. ASSUME IssueNative(q) PROVE RoomInv'
    <3>1. request[q].code \in Codes
      BY <2>11, CallsByOperation DEF IssueNative, At, TypeInv, ExchangeCall
    <3> QED BY <2>10, <2>11, <3>1 DEF IssueNative
  <2>12. ASSUME IssueQuick(q) PROVE RoomInv'
    <3>1. request[q].code \in Codes
      BY <2>12, CallsByOperation DEF IssueQuick, At, TypeInv, QuickCall
    <3> QED BY <2>2, <2>10, <2>12, <3>1 DEF IssueQuick
  <2> QED BY <1>4, <2>4, <2>5, <2>6, <2>7, <2>8, <2>9, <2>11, <2>12 DEF Exchange
<1>5. ASSUME NEW q \in Requests, Abandon(q) PROVE RoomInv'
  BY <1>2, <1>5 DEF Abandon
<1>6. ASSUME UNCHANGED request, NEW D, row' = [c \in Codes |-> IF c \in D THEN DeletedRow ELSE row[c]]
      PROVE  RoomInv'
  <2>1. DeletedRow.state = "deleted"
    BY UnusedTyped DEF DeletedRow, UnusedRow
  <2>2. \A c \in Codes : row'[c].state = "open" => row'[c] = row[c]
    BY <1>6, <2>1
  <2>3. Outstanding' \subseteq Outstanding /\ \A c \in Outstanding' : row'[c].source = row[c].source
    BY <2>2 DEF Outstanding
  <2> QED BY <1>6, <2>3, RoomIfFewer
<1>7. CASE Cleanup
  BY <1>6, <1>7 DEF Cleanup
<1>8. ASSUME NEW u \in Users, DeleteUser(u) PROVE RoomInv'
  <2>1. row' = [c \in Codes |-> IF c \in {d \in Codes : row[d].approver = u} THEN DeletedRow ELSE row[c]]
    BY <1>8 DEF DeleteUser
  <2> QED BY <1>6, <1>8, <2>1 DEF DeleteUser
<1>9. CASE Tick
  <2>1. ASSUME NEW c \in Codes
        PROVE  /\ row'[c].state = row[c].state /\ row'[c].source = row[c].source
               /\ row'[c].life > 0 => row[c].life > 0
    <3> DEFINE s == row[c]
               older == [s EXCEPT !.life = Lower(@), !.wait = Lower(@)]
    <3>1. s \in Row /\ Consistent(s)
      BY DEF TypeInv, TypeOK
    <3>2. row'[c] = older
      BY <1>9 DEF Tick
    <3> HIDE DEF s
    <3>3. older.state = s.state /\ older.source = s.source /\ older.life = Lower(s.life)
      BY <3>1, RowWritten
    <3> HIDE DEF older
    <3>4. s.life \in 0..CodeTTL
      BY <3>1 DEF Row
    <3> QED BY <3>2, <3>3, <3>4, DeviceAuthorizationAssumption DEF Lower, s
  <2>2. Outstanding' \subseteq Outstanding /\ \A c \in Outstanding' : row'[c].source = row[c].source
    BY <2>1 DEF Outstanding
  <2> QED BY <1>9, <2>2, RoomIfFewer DEF Tick
<1>10. ASSUME UNCHANGED <<row, request>> PROVE RoomInv'
  <2>1. Outstanding' = Outstanding
    BY <1>10 DEF Outstanding
  <2> QED BY <1>10, <2>1, RoomIfFewer
<1>11. ASSUME NEW u \in Users, NEW p \in Profiles, NEW g \in {"none", "use", "manage"},
              SetGrant(u, p, g)
       PROVE  RoomInv'
  BY <1>10, <1>11 DEF SetGrant
<1>12. ASSUME NEW p \in Profiles, NEW k \in household.categories, MoveProfile(p, k) PROVE RoomInv'
  BY <1>10, <1>12 DEF MoveProfile
<1>13. ASSUME NEW u \in Users, SetRole(u) \/ RemoveDevice(u) PROVE RoomInv'
  BY <1>10, <1>13 DEF SetRole, RemoveDevice
<1>14. CASE UNCHANGED vars
  BY <1>10, <1>14 DEF vars
<1> QED BY <1>3, <1>4, <1>5, <1>7, <1>8, <1>9, <1>11, <1>12, <1>13, <1>14, RoomBegin DEF Next

\* One session per code, no more devices than a user may have, and the limits on outstanding codes
\* with the protected reserve, whatever begins and exchanges count at the same time.
THEOREM DeviceLimitsKept == Spec => []DeviceLimits
<1>1. Spec => []TypeInv
  BY TypeInit, TypeStep, PTL DEF Spec
<1>2. Spec => []CodeInv
  BY <1>1, CodeInit, CodeStep, PTL DEF Spec
<1>3. Spec => []SlotInv
  BY <1>1, <1>2, SlotInit, SlotStep, PTL DEF Spec
<1>4. Spec => []RoomInv
  BY <1>1, <1>2, RoomInit, RoomStep, PTL DEF Spec
<1>5. TypeInv /\ CodeInv /\ SlotInv /\ RoomInv => DeviceLimits
  BY LimitsAreCodeLimits DEF CodeInv, SlotInv, RoomInv, DeviceLimits, IssueLimits
<1> QED BY <1>1, <1>2, <1>3, <1>4, <1>5, PTL

-----------------------------------------------------------------------------
(* Authority when it is used. *)

\* What an authorised approval has locked still gives its approver the authority.
ApprovalAuthorised(q) ==
  At(q, "approve", "authorised") =>
    /\ request[q].user \in users
    /\ request[q].purpose = "quick" =>
         /\ request[q].profile \in request[q].locked
         /\ category[request[q].profile] = request[q].category
         /\ MayApproveQuick(request[q].user, request[q].profile)
    /\ request[q].purpose = "native" =>
         \/ request[q].user \in admins
         \/ \E p \in request[q].locked \cap Profiles :
              category[p] = request[q].category /\ grant[request[q].user][p] = "manage"

\* So does what a Quick Connect exchange has locked.
ExchangeAuthorised(q) ==
  At(q, "quick", "owned") \/ At(q, "quick", "checked") => StillAuthorised(request[q])

\* The approval that was read is the approval of the locked code.
ApprovalRead(q) ==
  At(q, "quick", "checked") =>
    /\ row[request[q].code].approver = request[q].user
    /\ row[request[q].code].profile = request[q].profile
    /\ row[request[q].code].category = request[q].category

\* A native exchange has a native code.
ExchangeNative(q) ==
  request[q].op = "exchange" =>
    row[request[q].code].purpose = "native" /\ row[request[q].code].state # "unused"

Justified(q) ==
  ApprovalAuthorised(q) /\ ExchangeAuthorised(q) /\ ApprovalRead(q) /\ ExchangeNative(q)
AuthorityInv == \A q \in Requests : Justified(q)

LEMMA AuthorityInit == Init => AuthorityInv
<1> SUFFICES ASSUME Init, NEW q \in Requests PROVE Justified(q)
  BY DEF AuthorityInv
<1>1. request[q].op = "idle"
  BY DEF Init, Idle
<1> QED BY <1>1 DEF Justified, ApprovalAuthorised, ExchangeAuthorised, ApprovalRead, ExchangeNative, At

\* Accounts, grants and categories change only where no call has locked them.
LEMMA AccountsLocked ==
  ASSUME TypeInv, [Next]_vars, NEW q \in Requests,
         At(q, "approve", "authorised") \/ At(q, "quick", "owned") \/ At(q, "quick", "checked")
  PROVE  /\ request[q].user \in users => request[q].user \in users'
         /\ request[q].user \in admins <=> request[q].user \in admins'
         /\ \A p \in Profiles :
              \/ At(q, "approve", "authorised") /\ p \in request[q].locked
              \/ (At(q, "quick", "owned") \/ At(q, "quick", "checked")) /\ request[q].profile = p
              => category'[p] = category[p] /\ grant'[request[q].user][p] = grant[request[q].user][p]
<1> DEFINE w == request[q].user
           Kept == /\ w \in users => w \in users'
                   /\ w \in admins <=> w \in admins'
                   /\ \A p \in Profiles :
                        \/ At(q, "approve", "authorised") /\ p \in request[q].locked
                        \/ (At(q, "quick", "owned") \/ At(q, "quick", "checked")) /\ request[q].profile = p
                        => category'[p] = category[p] /\ grant'[w][p] = grant[w][p]
<1> SUFFICES Kept
  OBVIOUS
<1>1. w \in Users /\ request[q].op \in {"approve", "quick"} /\ UserLocked(w)
  BY CallsByOperation
  DEF TypeInv, At, ApproveCall, QuickCall, UserLocked, UserExclusive, UserShared
<1>2. ASSUME UNCHANGED account PROVE Kept
  BY <1>2 DEF account
<1>3. ASSUME NEW u \in Users, NEW p \in Profiles, NEW g \in {"none", "use", "manage"},
             SetGrant(u, p, g)
      PROVE  Kept
  <2>1. UNCHANGED <<users, admins, category>> /\ grant' = [grant EXCEPT ![u][p] = g]
    BY <1>3 DEF SetGrant
  <2>2. ASSUME NEW o \in Profiles,
               \/ At(q, "approve", "authorised") /\ o \in request[q].locked
               \/ (At(q, "quick", "owned") \/ At(q, "quick", "checked")) /\ request[q].profile = o
        PROVE  grant'[w][o] = grant[w][o]
    <3>1. GrantLocked(w, o)
      BY <1>1, <2>2 DEF GrantLocked
    <3>2. w # u \/ o # p
      BY <1>3, <3>1 DEF SetGrant, GrantLock
    <3> HIDE DEF w
    <3> DEFINE mine == [grant[u] EXCEPT ![p] = g]
    <3>3. grant' = [grant EXCEPT ![u] = mine] /\ grant[u] \in [Profiles -> {"none", "use", "manage"}]
      BY <2>1 DEF TypeInv, TypeOK
    <3>4. o # p => mine[o] = grant[u][o]
      BY <3>3
    <3> HIDE DEF mine
    <3> QED BY <1>1, <3>2, <3>3, <3>4 DEF TypeInv, TypeOK
  <2> QED BY <2>1, <2>2
<1>4. ASSUME NEW p \in Profiles, NEW k \in household.categories, MoveProfile(p, k) PROVE Kept
  <2>1. \A o \in Profiles :
          \/ At(q, "approve", "authorised") /\ o \in request[q].locked
          \/ (At(q, "quick", "owned") \/ At(q, "quick", "checked")) /\ request[q].profile = o
          => o # p
    BY <1>4 DEF MoveProfile, ProfileLocked
  <2> QED BY <1>4, <2>1 DEF MoveProfile, TypeInv, TypeOK
<1>5. ASSUME NEW u \in Users, DeleteUser(u) PROVE Kept
  <2>1. w # u
    BY <1>1, <1>5 DEF DeleteUser
  <2> HIDE DEF w
  <2>2. users' = users \ {u} /\ UNCHANGED <<admins, category>>
        /\ grant' = [grant EXCEPT ![u] = [p \in Profiles |-> "none"]]
    BY <1>5 DEF DeleteUser
  <2>3. grant'[w] = grant[w]
    BY <1>1, <2>1, <2>2 DEF TypeInv, TypeOK
  <2> QED BY <2>1, <2>2, <2>3 DEF w
<1>8. ASSUME NEW u \in Users, SetRole(u) PROVE Kept
  <2>1. w # u
    BY <1>1, <1>8 DEF SetRole
  <2> HIDE DEF w
  <2>2. admins' \in {admins \ {u}, admins \cup {u}} /\ UNCHANGED <<users, grant, category>>
    BY <1>8 DEF SetRole
  <2> QED BY <2>1, <2>2
<1>6. ASSUME NEW p \in Requests, Begin(p) \/ Approve(p) \/ Exchange(p) \/ Abandon(p)
      PROVE  UNCHANGED account
  BY <1>6
  DEF Begin, AdmitCode, InsertCode, Approve, FindCode, AuthorizeApprover, ApproveCode,
      Exchange, Discover, ReadApproval, LockOwner, CheckCode, IssueNative, LockApproval,
      CheckApproval, IssueQuick, Abandon
<1>7. ASSUME Cleanup \/ Tick \/ UNCHANGED vars \/ \E u \in Users : RemoveDevice(u)
      PROVE  UNCHANGED account
  BY <1>7 DEF Cleanup, Tick, vars, account, RemoveDevice
<1> HIDE DEF Kept
<1> QED BY <1>2, <1>3, <1>4, <1>5, <1>6, <1>7, <1>8 DEF Next

\* A code that has been drawn stays of its protocol, or is gone.
LEMMA NativeStays ==
  ASSUME TypeInv, CodeInv, [Next]_vars, NEW c \in Codes,
         row[c].purpose = "native", row[c].state # "unused"
  PROVE  row'[c].purpose = "native" /\ row'[c].state # "unused"
<1> DEFINE Kept == row'[c].purpose = "native" /\ row'[c].state # "unused"
<1> SUFFICES Kept
  OBVIOUS
<1>0. row[c] \in Row /\ Consistent(row[c]) /\ row \in [Codes -> Row]
  BY DEF TypeInv, TypeOK
<1>1. DeletedRow.purpose = "native" /\ DeletedRow.state = "deleted"
  BY UnusedTyped DEF DeletedRow, UnusedRow
<1>2. ASSUME NEW q \in Requests, Begin(q) PROVE Kept
  <2>1. ASSUME InsertCode(q) PROVE Kept
    <3>1. c # request[q].code
      BY <2>1 DEF InsertCode, CodeInv, DrawnUnused
    <3> QED BY <1>1, <2>1, <3>1, Insertion
  <2> QED BY <1>2, <2>1 DEF Begin, AdmitCode
<1>3. ASSUME NEW q \in Requests, Approve(q) PROVE Kept
  <2>1. ASSUME ApproveCode(q) PROVE Kept
    BY <2>1, Approval
  <2> QED BY <1>3, <2>1 DEF Approve, FindCode, AuthorizeApprover
<1>4. ASSUME NEW q \in Requests, Exchange(q) PROVE Kept
  <2>1. ASSUME NEW d, row' = [row EXCEPT ![d].state = "consumed"] PROVE Kept
    <3>1. CASE c = d
      <4>1. row'[c] = [row[c] EXCEPT !.state = "consumed"]
        BY <1>0, <2>1, <3>1
      <4> QED BY <1>0, <4>1 DEF Row
    <3>2. CASE c # d
      BY <1>0, <2>1, <3>2
    <3> QED BY <3>1, <3>2
  <2>2. ASSUME CheckCode(q) PROVE Kept
    BY <2>2, Poll
  <2>3. ASSUME IssueNative(q) PROVE Kept
    BY <2>1, <2>3 DEF IssueNative
  <2>4. ASSUME IssueQuick(q) PROVE Kept
    BY <2>1, <2>4 DEF IssueQuick
  <2> QED BY <1>4, <2>2, <2>3, <2>4 DEF Exchange, Discover, ReadApproval, LockOwner, LockApproval, CheckApproval
<1>5. CASE Cleanup
  BY <1>1, <1>5 DEF Cleanup
<1>6. ASSUME NEW u \in Users, DeleteUser(u) PROVE Kept
  BY <1>1, <1>6 DEF DeleteUser
<1>7. CASE Tick
  <2> DEFINE s == row[c]
             older == [s EXCEPT !.life = Lower(@), !.wait = Lower(@)]
  <2>1. row'[c] = older
    BY <1>7 DEF Tick
  <2>2. older.purpose = "native" /\ older.state = row[c].state
    <3> HIDE DEF s
    <3> QED BY <1>0, RowWritten DEF s
  <2> HIDE DEF older
  <2> QED BY <2>1, <2>2
<1>8. ASSUME UNCHANGED row PROVE Kept
  BY <1>8
<1> QED BY <1>2, <1>3, <1>4, <1>5, <1>6, <1>7, <1>8
     DEF Next, vars, SetGrant, SetRole, MoveProfile, RemoveDevice, Abandon

LEMMA JustifiedKept ==
  ASSUME TypeInv, CodeInv, AuthorityInv, [Next]_vars, NEW q \in Requests, request'[q] = request[q]
  PROVE  Justified(q)'
<1>0. Justified(q)
  BY DEF AuthorityInv
<1>1. ApprovalAuthorised(q)'
  <2> SUFFICES ASSUME At(q, "approve", "authorised")'
               PROVE  /\ request[q].user \in users'
                      /\ request[q].purpose = "quick" =>
                           /\ request[q].profile \in request[q].locked
                           /\ category'[request[q].profile] = request[q].category
                           /\ IF request[q].user \in admins'
                              THEN grant'[request[q].user][request[q].profile] # "none"
                              ELSE grant'[request[q].user][request[q].profile] = "manage"
                      /\ request[q].purpose = "native" =>
                           \/ request[q].user \in admins'
                           \/ \E p \in request[q].locked \cap Profiles :
                                /\ category'[p] = request[q].category
                                /\ grant'[request[q].user][p] = "manage"
    BY DEF ApprovalAuthorised, MayApproveQuick
  <2>1. At(q, "approve", "authorised")
    BY DEF At
  <2>2. request[q].profile \in Profiles
    BY <2>1, CallsByOperation DEF At, TypeInv, ApproveCall
  <2>3. /\ request[q].user \in users => request[q].user \in users'
        /\ request[q].user \in admins <=> request[q].user \in admins'
        /\ \A p \in Profiles : p \in request[q].locked =>
             category'[p] = category[p] /\ grant'[request[q].user][p] = grant[request[q].user][p]
    BY <2>1, AccountsLocked
  <2> QED BY <1>0, <2>1, <2>2, <2>3 DEF Justified, ApprovalAuthorised, MayApproveQuick
<1>2. ExchangeAuthorised(q)'
  <2> SUFFICES ASSUME At(q, "quick", "owned")' \/ At(q, "quick", "checked")'
               PROVE  /\ request[q].user \in users'
                      /\ category'[request[q].profile] = request[q].category
                      /\ IF request[q].user \in admins'
                         THEN grant'[request[q].user][request[q].profile] # "none"
                         ELSE grant'[request[q].user][request[q].profile] = "manage"
    BY DEF ExchangeAuthorised, StillAuthorised
  <2>1. At(q, "quick", "owned") \/ At(q, "quick", "checked")
    BY DEF At
  <2>2. request[q].profile \in Profiles
    BY <2>1, CallsByOperation DEF At, TypeInv, QuickCall
  <2>3. /\ request[q].user \in users => request[q].user \in users'
        /\ request[q].user \in admins <=> request[q].user \in admins'
        /\ category'[request[q].profile] = category[request[q].profile]
        /\ grant'[request[q].user][request[q].profile] = grant[request[q].user][request[q].profile]
    BY <2>1, <2>2, AccountsLocked
  <2> QED BY <1>0, <2>1, <2>3 DEF Justified, ExchangeAuthorised, StillAuthorised
<1>3. ApprovalRead(q)'
  <2> SUFFICES ASSUME At(q, "quick", "checked")'
               PROVE  /\ row'[request[q].code].approver = request[q].user
                      /\ row'[request[q].code].profile = request[q].profile
                      /\ row'[request[q].code].category = request[q].category
    BY DEF ApprovalRead
  <2>1. At(q, "quick", "checked")
    BY DEF At
  <2>2. /\ row'[request[q].code].approver = row[request[q].code].approver
        /\ row'[request[q].code].profile = row[request[q].code].profile
        /\ row'[request[q].code].category = row[request[q].code].category
    BY <2>1, CheckedRowKept DEF Checked
  <2> QED BY <1>0, <2>1, <2>2 DEF Justified, ApprovalRead
<1>4. ExchangeNative(q)'
  <2> SUFFICES ASSUME request[q].op = "exchange"
               PROVE  /\ row'[request[q].code].purpose = "native"
                      /\ row'[request[q].code].state # "unused"
    BY DEF ExchangeNative
  <2>1. request[q].code \in Codes
    BY CallsByOperation DEF TypeInv, ExchangeCall
  <2> QED BY <1>0, <2>1, NativeStays DEF Justified, ExchangeNative
<1> QED BY <1>1, <1>2, <1>3, <1>4 DEF Justified

\* A call that claims nothing.
LEMMA NothingClaimed ==
  ASSUME NEW q \in Requests, request'[q].op # "exchange",
         ~At(q, "approve", "authorised")', ~At(q, "quick", "owned")', ~At(q, "quick", "checked")'
  PROVE  Justified(q)'
BY DEF Justified, ApprovalAuthorised, ExchangeAuthorised, ApprovalRead, ExchangeNative

\* A native exchange moves on with its code.
LEMMA NativeMoves ==
  ASSUME TypeInv, CodeInv, AuthorityInv, [Next]_vars, NEW q \in Requests, request[q] \in ExchangeCall,
         request'[q].op = "exchange", request'[q].code = request[q].code
  PROVE  Justified(q)'
<1>1. request[q].code \in Codes /\ request[q].op = "exchange"
  BY DEF ExchangeCall
<1>2. row[request[q].code].purpose = "native" /\ row[request[q].code].state # "unused"
  BY <1>1 DEF AuthorityInv, Justified, ExchangeNative
<1>3. row'[request[q].code].purpose = "native" /\ row'[request[q].code].state # "unused"
  BY <1>1, <1>2, NativeStays
<1>4. ExchangeNative(q)'
  BY <1>3 DEF ExchangeNative
<1> QED BY <1>4 DEF Justified, ApprovalAuthorised, ExchangeAuthorised, ApprovalRead, At

\* A Quick Connect exchange moves on with the approval it read.
LEMMA QuickMoves ==
  ASSUME TypeInv, NEW q \in Requests, NEW stage, GoesTo(q, stage), request[q] \in QuickCall,
         StillAuthorised(request[q]), UNCHANGED <<row, account>>,
         stage = "checked" => /\ row[request[q].code].approver = request[q].user
                              /\ row[request[q].code].profile = request[q].profile
                              /\ row[request[q].code].category = request[q].category
  PROVE  Justified(q)'
<1>1. /\ request'[q].op = "quick" /\ request'[q].stage = stage
      /\ request'[q].code = request[q].code /\ request'[q].user = request[q].user
      /\ request'[q].profile = request[q].profile /\ request'[q].category = request[q].category
  BY ExchangeMoves DEF QuickCall
<1>2. ApprovalAuthorised(q)' /\ ExchangeNative(q)'
  BY <1>1 DEF ApprovalAuthorised, ExchangeNative, At
<1>3. ExchangeAuthorised(q)'
  BY <1>1 DEF ExchangeAuthorised, StillAuthorised, account
<1>4. ApprovalRead(q)'
  BY <1>1 DEF ApprovalRead, At
<1> QED BY <1>2, <1>3, <1>4 DEF Justified

LEMMA JustifiedExchange ==
  ASSUME TypeInv, CodeInv, AuthorityInv, [Next]_vars, NEW q \in Requests, Exchange(q)
  PROVE  Justified(q)' /\ \A p \in Requests : p # q => request'[p] = request[p]
<1>1. ASSUME Ends(q) PROVE Justified(q)' /\ \A p \in Requests : p # q => request'[p] = request[p]
  <2>1. request'[q] = Idle /\ \A p \in Requests : p # q => request'[p] = request[p]
    BY <1>1, OneCall DEF Ends, TypeInv
  <2> QED BY <2>1, NothingClaimed DEF At, Idle
<1>2. ASSUME NEW stage, GoesTo(q, stage), request[q] \in ExchangeCall
      PROVE  Justified(q)' /\ \A p \in Requests : p # q => request'[p] = request[p]
  <2>1. request'[q].op = "exchange" /\ request'[q].code = request[q].code
    BY <1>2, ExchangeMoves DEF ExchangeCall
  <2> QED BY <1>2, <2>1, NativeMoves, OneCall DEF GoesTo, TypeInv
<1>3. ASSUME NEW stage, GoesTo(q, stage), request[q] \in QuickCall,
             StillAuthorised(request[q]), UNCHANGED <<row, account>>,
             stage = "checked" => /\ row[request[q].code].approver = request[q].user
                                  /\ row[request[q].code].profile = request[q].profile
                                  /\ row[request[q].code].category = request[q].category
      PROVE  Justified(q)' /\ \A p \in Requests : p # q => request'[p] = request[p]
  BY <1>3, QuickMoves, OneCall DEF GoesTo, TypeInv
<1>4. ASSUME NEW c \in Codes, Discover(q, c)
      PROVE  Justified(q)' /\ \A p \in Requests : p # q => request'[p] = request[p]
  <2> DEFINE r == [op |-> "exchange", code |-> c, user |-> row[c].approver,
                   stage |-> IF row[c].approver = NoUser THEN "owned" ELSE "discovered"]
  <2>1. /\ r.op = "exchange" /\ r.code = c /\ Goes(q, r) /\ UNCHANGED row
        /\ row[c].purpose = "native" /\ row[c].state # "unused"
    BY <1>4 DEF Discover, Stored
  <2> HIDE DEF r
  <2>2. request'[q] = r /\ \A p \in Requests : p # q => request'[p] = request[p]
    BY <2>1, OneCall DEF TypeInv
  <2> QED BY <2>1, <2>2
       DEF Justified, ApprovalAuthorised, ExchangeAuthorised, ApprovalRead, ExchangeNative, At
<1>5. ASSUME NEW c \in Codes, ReadApproval(q, c)
      PROVE  Justified(q)' /\ \A p \in Requests : p # q => request'[p] = request[p]
  <2> DEFINE r == [op |-> "quick", stage |-> "read", code |-> c, user |-> row[c].approver,
                   profile |-> row[c].profile, category |-> row[c].category]
  <2>1. r.op = "quick" /\ r.stage = "read" /\ Goes(q, r)
    BY <1>5 DEF ReadApproval
  <2> HIDE DEF r
  <2>2. request'[q] = r /\ \A p \in Requests : p # q => request'[p] = request[p]
    BY <2>1, OneCall DEF TypeInv
  <2> QED BY <2>1, <2>2, NothingClaimed DEF At
<1>6. CASE LockOwner(q)
  <2>1. request[q] \in ExchangeCall
    BY <1>6, CallsByOperation DEF LockOwner, At, TypeInv
  <2> QED BY <1>1, <1>2, <1>6, <2>1 DEF LockOwner
<1>7. CASE CheckCode(q)
  <2>1. request[q] \in ExchangeCall
    BY <1>7, Poll
  <2> QED BY <1>1, <1>2, <1>7, <2>1 DEF CheckCode
<1>8. CASE LockApproval(q)
  <2>1. request[q] \in QuickCall
    BY <1>8, CallsByOperation DEF LockApproval, At, TypeInv
  <2>2. CASE StillAuthorised(request[q]) /\ GoesTo(q, "owned")
    BY <1>3, <1>8, <2>1, <2>2 DEF LockApproval
  <2> QED BY <1>1, <1>8, <2>2 DEF LockApproval
<1>9. CASE CheckApproval(q)
  <2>1. request[q] \in QuickCall /\ StillAuthorised(request[q])
    BY <1>9, CallsByOperation
    DEF CheckApproval, At, TypeInv, AuthorityInv, Justified, ExchangeAuthorised
  <2>2. CASE /\ GoesTo(q, "checked")
             /\ row[request[q].code].approver = request[q].user
             /\ row[request[q].code].profile = request[q].profile
             /\ row[request[q].code].category = request[q].category
    BY <1>3, <1>9, <2>1, <2>2 DEF CheckApproval
  <2> QED BY <1>1, <1>9, <2>2 DEF CheckApproval
<1>10. CASE IssueNative(q)
  BY <1>1, <1>10 DEF IssueNative
<1>11. CASE IssueQuick(q)
  BY <1>1, <1>11 DEF IssueQuick
<1> QED BY <1>4, <1>5, <1>6, <1>7, <1>8, <1>9, <1>10, <1>11 DEF Exchange

LEMMA JustifiedApprove ==
  ASSUME TypeInv, NEW q \in Requests, Approve(q)
  PROVE  Justified(q)' /\ \A p \in Requests : p # q => request'[p] = request[p]
<1>1. ASSUME Ends(q) PROVE Justified(q)' /\ \A p \in Requests : p # q => request'[p] = request[p]
  <2>1. request'[q] = Idle /\ \A p \in Requests : p # q => request'[p] = request[p]
    BY <1>1, OneCall DEF Ends, TypeInv
  <2> QED BY <2>1, NothingClaimed DEF At, Idle
<1>2. ASSUME NEW c \in Codes, NEW u \in Users, NEW p \in Profiles, NEW k \in household.categories,
             FindCode(q, c, u, p, k)
      PROVE  Justified(q)' /\ \A o \in Requests : o # q => request'[o] = request[o]
  <2> DEFINE r == [op |-> "approve", stage |-> "found", code |-> c, purpose |-> row[c].purpose,
                   user |-> u, profile |-> p, locked |-> {},
                   category |-> IF row[c].purpose = "quick" THEN NoCategory ELSE k]
  <2>1. r.op = "approve" /\ r.stage = "found" /\ Goes(q, r)
    BY <1>2 DEF FindCode
  <2> HIDE DEF r
  <2>2. request'[q] = r /\ \A o \in Requests : o # q => request'[o] = request[o]
    BY <2>1, OneCall DEF TypeInv
  <2> QED BY <2>1, <2>2, NothingClaimed DEF At
<1>3. ASSUME AuthorizeApprover(q)
      PROVE  Justified(q)' /\ \A p \in Requests : p # q => request'[p] = request[p]
  <2>1. UNCHANGED account
    BY <1>3 DEF AuthorizeApprover
  <2>2. ASSUME NEW s \in ApproveCall, Goes(q, s), s.user \in users, s.profile \in s.locked,
               s.purpose = "quick" => /\ MayApproveQuick(s.user, s.profile)
                                      /\ s.category = category[s.profile],
               s.purpose = "native" /\ s.user \notin admins =>
                 \E p \in s.locked : p \in Managed(s.user, s.category)
        PROVE  Justified(q)' /\ \A p \in Requests : p # q => request'[p] = request[p]
    <3>1. request'[q] = s /\ \A p \in Requests : p # q => request'[p] = request[p]
      BY <2>2, OneCall DEF TypeInv
    <3>2. s.op = "approve"
      BY DEF ApproveCall
    <3>3. ApprovalAuthorised(q)'
      BY <2>1, <2>2, <3>1 DEF ApprovalAuthorised, MayApproveQuick, Managed, account
    <3> QED BY <3>1, <3>2, <3>3 DEF Justified, ExchangeAuthorised, ApprovalRead, ExchangeNative, At
  <2> QED BY <1>1, <1>3, <2>2, AuthorisedApproval
<1>4. ASSUME ApproveCode(q)
      PROVE  Justified(q)' /\ \A p \in Requests : p # q => request'[p] = request[p]
  BY <1>1, <1>4 DEF ApproveCode
<1> QED BY <1>2, <1>3, <1>4 DEF Approve

LEMMA AuthorityStep == TypeInv /\ CodeInv /\ AuthorityInv /\ [Next]_vars => AuthorityInv'
<1> SUFFICES ASSUME TypeInv, CodeInv, AuthorityInv, [Next]_vars PROVE AuthorityInv'
  OBVIOUS
<1>1. ASSUME NEW q \in Requests, Justified(q)', \A p \in Requests : p # q => request'[p] = request[p]
      PROVE  AuthorityInv'
  BY <1>1, JustifiedKept DEF AuthorityInv
<1>2. ASSUME UNCHANGED request PROVE AuthorityInv'
  BY <1>2, JustifiedKept DEF AuthorityInv
<1>3. ASSUME NEW q \in Requests, Begin(q) PROVE AuthorityInv'
  <2>1. ASSUME InsertCode(q) PROVE AuthorityInv'
    <3>1. request'[q] = Idle /\ \A p \in Requests : p # q => request'[p] = request[p]
      BY <2>1, Insertion
    <3> QED BY <1>1, <3>1, NothingClaimed DEF At, Idle
  <2>2. ASSUME NEW purpose \in Purposes, NEW source \in household.sources, NEW client \in Clients,
               AdmitCode(q, purpose, source, client)
        PROVE  AuthorityInv'
    <3>1. request'[q].op = "begin" /\ \A p \in Requests : p # q => request'[p] = request[p]
      BY <2>2, Admission
    <3> QED BY <1>1, <3>1, NothingClaimed DEF At
  <2> QED BY <1>3, <2>1, <2>2 DEF Begin
<1>4. ASSUME NEW q \in Requests, Approve(q) PROVE AuthorityInv'
  BY <1>1, <1>4, JustifiedApprove
<1>5. ASSUME NEW q \in Requests, Exchange(q) PROVE AuthorityInv'
  BY <1>1, <1>5, JustifiedExchange
<1>6. ASSUME NEW q \in Requests, Abandon(q) PROVE AuthorityInv'
  <2>1. request'[q] = Idle /\ \A p \in Requests : p # q => request'[p] = request[p]
    BY <1>6, OneCall DEF Abandon, Ends, TypeInv
  <2> QED BY <1>1, <2>1, NothingClaimed DEF At, Idle
<1>7. ASSUME Cleanup \/ Tick \/ UNCHANGED vars \/ \E u \in Users : SetRole(u) \/ DeleteUser(u) \/ RemoveDevice(u)
      PROVE  AuthorityInv'
  BY <1>2, <1>7 DEF Cleanup, Tick, vars, SetRole, DeleteUser, RemoveDevice
<1>8. ASSUME NEW u \in Users, NEW p \in Profiles, NEW g \in {"none", "use", "manage"},
             SetGrant(u, p, g)
      PROVE  AuthorityInv'
  BY <1>2, <1>8 DEF SetGrant
<1>9. ASSUME NEW p \in Profiles, NEW k \in household.categories, MoveProfile(p, k) PROVE AuthorityInv'
  BY <1>2, <1>9 DEF MoveProfile
<1> QED BY <1>3, <1>4, <1>5, <1>6, <1>7, <1>8, <1>9 DEF Next

\* What AuthorityWhenUsed says of a step, for one code.
AuthorityUsed(c) ==
  /\ row'[c].approver \notin {row[c].approver, NoUser} =>
       /\ row[c].approver = NoUser
       /\ HasAuthority(row'[c].approver, row'[c].profile, row'[c].category)
  /\ issued'[c] > issued[c] /\ row[c].purpose = "quick" =>
       /\ HasAuthority(row[c].approver, row[c].profile, row[c].category)
       /\ row[c].life > 0

LEMMA ApprovalUsesAuthority ==
  ASSUME TypeInv, AuthorityInv, NEW q \in Requests, ApproveCode(q), NEW c \in Codes
  PROVE  AuthorityUsed(c)
<1> DEFINE r == request[q]
<1>1. r \in ApproveCall /\ At(q, "approve", "authorised") /\ issued' = issued
  BY Approval DEF ApproveCode
<1>2. ~(issued'[c] > issued[c])
  BY <1>1 DEF TypeInv, TypeOK
<1>3. CASE row'[c].approver \in {row[c].approver, NoUser}
  BY <1>2, <1>3 DEF AuthorityUsed
<1>4. CASE row'[c].approver \notin {row[c].approver, NoUser}
  <2>1. /\ c = r.code /\ Approvable(row[c], r.purpose)
        /\ row'[c].approver = r.user /\ row'[c].category = r.category
        /\ row'[c].profile = ApprovedProfile(r)
    BY <1>4, Approval
  <2>2. /\ r.user \in Users /\ r.profile \in Profiles /\ r.profile # NoProfile
        /\ r.purpose \in {"native", "quick"}
        /\ grant[r.user][r.profile] \in {"none", "use", "manage"}
    BY <1>1, DeviceAuthorizationAssumption DEF ApproveCall, TypeInv, TypeOK
  <2>3. ApprovalAuthorised(q)
    BY DEF AuthorityInv, Justified
  <2>4. HasAuthority(r.user, ApprovedProfile(r), r.category)
    BY <1>1, <2>2, <2>3 DEF ApprovalAuthorised, HasAuthority, ApprovedProfile, MayApproveQuick, Managed
  <2> QED BY <1>2, <2>1, <2>4 DEF AuthorityUsed, Approvable
<1> QED BY <1>3, <1>4

LEMMA IssueUsesAuthority ==
  ASSUME TypeInv, AuthorityInv, NEW q \in Requests, IssueQuick(q), NEW c \in Codes
  PROVE  AuthorityUsed(c)
<1> DEFINE r == request[q]
<1>1. r \in QuickCall /\ At(q, "quick", "checked") /\ r.code \in Codes
  BY CallsByOperation DEF IssueQuick, At, TypeInv, QuickCall
<1>2. row[c] \in Row /\ issued \in [Codes -> Nat] /\ row \in [Codes -> Row]
  BY DEF TypeInv, TypeOK
<1>3. CASE UNCHANGED <<row, issued>>
  <2>1. ~(issued'[c] > issued[c]) /\ row'[c].approver = row[c].approver
    BY <1>2, <1>3
  <2> QED BY <2>1 DEF AuthorityUsed
<1>4. CASE /\ Consumable(row[r.code])
           /\ issued' = [issued EXCEPT ![r.code] = @ + 1]
           /\ row' = [row EXCEPT ![r.code].state = "consumed"]
  <2>1. row'[c].approver = row[c].approver
    <3>1. row'[c] = row[c] \/ row'[c] = [row[c] EXCEPT !.state = "consumed"]
      BY <1>2, <1>4
    <3> QED BY <1>2, <3>1 DEF Row
  <2>2. ASSUME issued'[c] > issued[c]
        PROVE  /\ HasAuthority(row[c].approver, row[c].profile, row[c].category)
               /\ row[c].life > 0
    <3>1. c = r.code
      BY <1>2, <1>4, <2>2
    <3>2. /\ row[c].approver = r.user /\ row[c].profile = r.profile /\ row[c].category = r.category
          /\ StillAuthorised(r)
      BY <1>1, <3>1 DEF AuthorityInv, Justified, ApprovalRead, ExchangeAuthorised
    <3>3. /\ r.user \in Users /\ r.profile \in Profiles /\ r.profile # NoProfile
          /\ grant[r.user][r.profile] \in {"none", "use", "manage"}
      BY <1>1, DeviceAuthorizationAssumption DEF QuickCall, TypeInv, TypeOK
    <3>4. HasAuthority(r.user, r.profile, r.category)
      BY <3>2, <3>3 DEF HasAuthority, StillAuthorised
    <3> QED BY <1>4, <3>1, <3>2, <3>4 DEF Consumable
  <2> QED BY <2>1, <2>2 DEF AuthorityUsed
<1> QED BY <1>3, <1>4 DEF IssueQuick

\* A code is approved once, by someone with authority over what they approve at that moment, and a
\* Quick Connect session is issued only while its approver still has it and the code is unexpired:
\* the locks of ReloadAndLockPrincipal and of the exchange hold it from the check to the commit.
THEOREM DeviceAuthorityWhenUsed == Spec => AuthorityWhenUsed
<1>1. ASSUME TypeInv, CodeInv, AuthorityInv, Next PROVE \A c \in Codes : AuthorityUsed(c)
  <2> TAKE c \in Codes
  <2>0. row[c] \in Row /\ issued \in [Codes -> Nat] /\ row \in [Codes -> Row]
    BY <1>1 DEF TypeInv, TypeOK
  <2>1. ASSUME UNCHANGED issued, row'[c].approver \in {row[c].approver, NoUser} PROVE AuthorityUsed(c)
    <3>1. ~(issued'[c] > issued[c])
      BY <2>0, <2>1
    <3> QED BY <2>1, <3>1 DEF AuthorityUsed
  <2>2. ASSUME UNCHANGED <<row, issued>> PROVE AuthorityUsed(c)
    BY <2>1, <2>2
  <2>3. DeletedRow.approver = NoUser
    BY UnusedTyped DEF DeletedRow, UnusedRow
  <2>4. ASSUME NEW q \in Requests, Begin(q) PROVE AuthorityUsed(c)
    <3>1. ASSUME InsertCode(q) PROVE AuthorityUsed(c)
      <4>1. row'[c].approver \in {row[c].approver, NoUser}
        BY <1>1, <2>3, <3>1, Insertion
      <4> QED BY <2>1, <3>1, <4>1 DEF InsertCode
    <3> QED BY <2>2, <2>4, <3>1 DEF Begin, AdmitCode
  <2>5. ASSUME NEW q \in Requests, Approve(q) PROVE AuthorityUsed(c)
    BY <1>1, <2>2, <2>5, ApprovalUsesAuthority DEF Approve, FindCode, AuthorizeApprover
  <2>6. ASSUME NEW q \in Requests, Exchange(q) PROVE AuthorityUsed(c)
    <3>1. ASSUME CheckCode(q) PROVE AuthorityUsed(c)
      BY <1>1, <2>1, <3>1, Poll DEF CheckCode
    <3>2. ASSUME IssueNative(q) PROVE AuthorityUsed(c)
      <4>1. /\ request[q].code \in Codes /\ row[request[q].code].purpose = "native"
        BY <1>1, <3>2, CallsByOperation
        DEF IssueNative, At, TypeInv, ExchangeCall, AuthorityInv, Justified, ExchangeNative
      <4>2. row'[c] = row[c] \/ row'[c] = [row[c] EXCEPT !.state = "consumed"]
        BY <2>0, <3>2 DEF IssueNative
      <4>3. row'[c].approver = row[c].approver
        BY <2>0, <4>2 DEF Row
      <4>4. issued'[c] > issued[c] => c = request[q].code
        BY <2>0, <3>2 DEF IssueNative
      <4> QED BY <4>1, <4>3, <4>4 DEF AuthorityUsed
    <3>3. ASSUME IssueQuick(q) PROVE AuthorityUsed(c)
      BY <1>1, <3>3, IssueUsesAuthority
    <3> QED BY <2>2, <2>6, <3>1, <3>2, <3>3
         DEF Exchange, Discover, ReadApproval, LockOwner, LockApproval, CheckApproval
  <2>7. ASSUME NEW q \in Requests, Abandon(q) PROVE AuthorityUsed(c)
    BY <2>2, <2>7 DEF Abandon
  <2>8. CASE Cleanup
    BY <2>1, <2>3, <2>8 DEF Cleanup
  <2>9. ASSUME NEW u \in Users, DeleteUser(u) PROVE AuthorityUsed(c)
    BY <2>1, <2>3, <2>9 DEF DeleteUser
  <2>10. CASE Tick
    <3>1. row'[c] = [row[c] EXCEPT !.life = Lower(@), !.wait = Lower(@)]
      BY <2>10 DEF Tick
    <3>2. row'[c].approver = row[c].approver
      BY <2>0, <3>1 DEF Row
    <3> QED BY <2>1, <2>10, <3>2 DEF Tick
  <2>11. ASSUME \/ \E u \in Users, p \in Profiles, g \in {"none", "use", "manage"} : SetGrant(u, p, g)
                \/ \E p \in Profiles, k \in household.categories : MoveProfile(p, k)
                \/ \E u \in Users : SetRole(u) \/ RemoveDevice(u)
         PROVE  UNCHANGED <<row, issued>>
    BY <2>11 DEF SetGrant, SetRole, MoveProfile, RemoveDevice
  <2> HIDE DEF AuthorityUsed
  <2> QED BY <1>1, <2>2, <2>4, <2>5, <2>6, <2>7, <2>8, <2>9, <2>10, <2>11 DEF Next
<1>2. Spec => []TypeInv
  BY TypeInit, TypeStep, PTL DEF Spec
<1>3. Spec => []CodeInv
  BY <1>2, CodeInit, CodeStep, PTL DEF Spec
<1>4. Spec => []AuthorityInv
  BY <1>2, <1>3, AuthorityInit, AuthorityStep, PTL DEF Spec
<1>5. TypeInv /\ CodeInv /\ AuthorityInv /\ [Next]_vars =>
        [\A c \in Codes :
          /\ row'[c].approver \notin {row[c].approver, NoUser} =>
               /\ row[c].approver = NoUser
               /\ HasAuthority(row'[c].approver, row'[c].profile, row'[c].category)
          /\ issued'[c] > issued[c] /\ row[c].purpose = "quick" =>
               /\ HasAuthority(row[c].approver, row[c].profile, row[c].category)
               /\ row[c].life > 0]_vars
  BY <1>1 DEF AuthorityUsed
<1> QED BY <1>2, <1>3, <1>4, <1>5, PTL DEF Spec, AuthorityWhenUsed

-----------------------------------------------------------------------------
(* The delay a refused device is told.                                      *)

\* A nonempty set of numbers has a least member.
LEMMA Smallest ==
  ASSUME NEW S, S \subseteq Nat, S # {}
  PROVE  \E m \in S : \A y \in S : m <= y
<1>1. PICK m \in S : \A y \in S : <<y, m>> \notin OpToRel(<, Nat)
  BY WFMin, NatLessThanWellFounded, Zenon
<1>2. \A y \in S : ~(y < m)
  BY <1>1, Zenon DEF OpToRel
<1> QED BY <1>2

\* Max is the largest member of a nonempty set of numbers up to n.
LEMMA Largest ==
  ASSUME NEW S, S # {}, NEW n \in Nat, S \subseteq 0..n
  PROVE  Max(S) \in S /\ \A x \in S : x <= Max(S)
<1> DEFINE Bounds == {b \in Nat : \A x \in S : x <= b}
<1>1. PICK m \in Bounds : \A b \in Bounds : m <= b
  <2>1. n \in Bounds /\ Bounds \subseteq Nat
    OBVIOUS
  <2> QED BY <2>1, Smallest
<1>2. m \in S
  <2> SUFFICES ASSUME m \notin S PROVE FALSE
    OBVIOUS
  <2>1. \A x \in S : x \in Nat /\ x <= m /\ x # m
    BY <1>1
  <2>2. PICK x \in S : TRUE
    OBVIOUS
  <2>3. m - 1 \in Nat /\ \A y \in S : y <= m - 1
    BY <2>1, <2>2
  <2> QED BY <2>3, <1>1
<1> QED BY <1>1, <1>2 DEF Max

\* The codes left of C when the time u has passed.
After(C, u) == {c \in C : row[c].life > u}
Expired(C, u) == {c \in C : row[c].life <= u}

\* Finitely many stored codes.
Timed(C) == IsFiniteSet(C) /\ \A c \in C : row[c].life \in 0..CodeTTL

\* The codes of a finite set can be counted, and so can those left and those expired.
LEMMA Counts ==
  ASSUME NEW C, Timed(C)
  PROVE  /\ Cardinality(C) \in Nat
         /\ \A D \in SUBSET C : IsFiniteSet(D) /\ Cardinality(D) \in Nat
                                  /\ Cardinality(D) <= Cardinality(C)
         /\ \A D \in SUBSET C : \A E \in SUBSET D : Cardinality(E) <= Cardinality(D)
         /\ \A u \in Nat :
              Cardinality(After(C, u)) = Cardinality(C) - Cardinality(Expired(C, u))
<1>1. \A D \in SUBSET C : IsFiniteSet(D) /\ Cardinality(D) \in Nat
                            /\ Cardinality(D) <= Cardinality(C)
  BY FS_Subset, FS_CardinalityType DEF Timed
<1>2. \A D \in SUBSET C : \A E \in SUBSET D : Cardinality(E) <= Cardinality(D)
  BY <1>1, FS_Subset
<1>3. ASSUME NEW u \in Nat
      PROVE  Cardinality(After(C, u)) = Cardinality(C) - Cardinality(Expired(C, u))
  <2>1. After(C, u) = C \ Expired(C, u) /\ C \cap Expired(C, u) = Expired(C, u)
    BY DEF After, Expired, Timed
  <2> QED BY <2>1, FS_Difference DEF Timed
<1> QED BY <1>1, <1>2, <1>3, FS_CardinalityType DEF Timed

\* The n-th expiry is the time from which fewer than |C| - n codes are left.
LEMMA Expiry ==
  ASSUME NEW C, Timed(C), NEW n \in Nat, n < Cardinality(C), CodeTTL \in Nat
  PROVE  \E w \in 0..CodeTTL :
           /\ NthExpiry(C, n) = {w}
           /\ \A u \in Nat : Cardinality(After(C, u)) < Cardinality(C) - n <=> u >= w
<1> DEFINE Times == {row[c].life : c \in C}
           Before(t) == {c \in C : row[c].life < t}
           Enough == {t \in Times : n < Cardinality(Expired(C, t))}
<1>1. Times \subseteq 0..CodeTTL
  BY DEF Timed
<1>2. /\ Cardinality(C) \in Nat
      /\ \A t : /\ Cardinality(Expired(C, t)) \in Nat /\ Cardinality(Before(t)) \in Nat
                /\ Cardinality(Expired(C, t)) <= Cardinality(C)
  <2>1. \A t : Expired(C, t) \in SUBSET C /\ Before(t) \in SUBSET C
    BY DEF Expired
  <2> QED BY <2>1, Counts
<1>3. NthExpiry(C, n) = {t \in Times : Cardinality(Before(t)) <= n /\ t \in Enough}
  BY DEF NthExpiry, Expired
<1>4. Times # {}
  <2>1. C # {}
    BY FS_EmptySet
  <2> QED BY <2>1
<1>5. Enough # {}
  <2>1. Max(Times) \in Times /\ \A t \in Times : t <= Max(Times)
    <3> HIDE DEF Times
    <3> QED BY <1>1, <1>4, Largest
  <2>2. Expired(C, Max(Times)) = C
    BY <2>1 DEF Expired
  <2>3. Max(Times) \in Enough
    BY <2>1, <2>2
  <2> QED BY <2>3
<1>6. PICK w \in Enough : \A t \in Enough : w <= t
  <2>1. Enough \subseteq Nat
    BY <1>1
  <2> HIDE DEF Enough
  <2> QED BY <1>5, <2>1, Smallest
<1>7. w \in 0..CodeTTL /\ w \in Times
  BY <1>1
<1>8. Cardinality(Before(w)) <= n
  <2> SUFFICES ASSUME n < Cardinality(Before(w)) PROVE FALSE
    BY <1>2
  <2> DEFINE Earlier == {t \in Times : t < w}
  <2>1. Earlier # {}
    <3>1. Before(w) # {}
      BY FS_EmptySet
    <3> QED BY <3>1
  <2>2. Earlier \subseteq 0..CodeTTL
    BY <1>1
  <2>3. Max(Earlier) \in Earlier /\ \A t \in Earlier : t <= Max(Earlier)
    <3> HIDE DEF Earlier
    <3> QED BY <2>1, <2>2, Largest
  <2>4. Expired(C, Max(Earlier)) = Before(w)
    <3>1. ASSUME NEW c \in C, row[c].life < w PROVE row[c].life <= Max(Earlier)
      BY <2>3, <3>1
    <3>2. ASSUME NEW c \in C, row[c].life <= Max(Earlier) PROVE row[c].life < w
      BY <1>7, <2>2, <2>3, <3>2 DEF Timed
    <3> QED BY <3>1, <3>2 DEF Expired
  <2>5. Max(Earlier) \in Enough
    BY <2>3, <2>4
  <2> QED BY <1>6, <1>7, <2>2, <2>3, <2>5
<1>9. ASSUME NEW t \in NthExpiry(C, n), NEW u \in Nat
      PROVE  Cardinality(After(C, u)) < Cardinality(C) - n <=> u >= t
  <2>1. t \in 0..CodeTTL /\ Cardinality(Before(t)) <= n /\ n < Cardinality(Expired(C, t))
    BY <1>1, <1>3
  <2> DEFINE left == Cardinality(After(C, u))
             ended == Cardinality(Expired(C, u))
             endedThen == Cardinality(Expired(C, t))
             before == Cardinality(Before(t))
  <2>2. Cardinality(After(C, u)) = Cardinality(C) - Cardinality(Expired(C, u))
    BY Counts
  <2>3. CASE u >= t
    <3>1. Expired(C, t) \in SUBSET Expired(C, u) /\ Expired(C, u) \in SUBSET C
      BY <2>1, <2>3 DEF Expired, Timed
    <3>2. Cardinality(Expired(C, t)) <= Cardinality(Expired(C, u))
      BY <3>1, Counts
    <3>3. /\ ended \in Nat /\ endedThen \in Nat /\ endedThen <= ended /\ n < endedThen
          /\ left = Cardinality(C) - ended
      BY <1>2, <2>1, <2>2, <3>2
    <3> HIDE DEF left, ended, endedThen
    <3>4. left < Cardinality(C) - n
      BY <1>2, <3>3
    <3> QED BY <2>1, <2>3, <3>4 DEF left
  <2>4. CASE u < t
    <3>1. Expired(C, u) \in SUBSET Before(t) /\ Before(t) \in SUBSET C
      BY <2>1, <2>4 DEF Expired, Timed
    <3>2. Cardinality(Expired(C, u)) <= Cardinality(Before(t))
      BY <3>1, Counts
    <3>3. /\ ended \in Nat /\ before \in Nat /\ ended <= before /\ before <= n
          /\ left = Cardinality(C) - ended
      BY <1>2, <2>1, <2>2, <3>2
    <3> HIDE DEF left, ended, before
    <3>4. ~(left < Cardinality(C) - n)
      BY <1>2, <3>3
    <3> QED BY <2>1, <2>4, <3>4 DEF left
  <2> QED BY <2>1, <2>3, <2>4
<1>10. w \in NthExpiry(C, n)
  BY <1>3, <1>7, <1>8
<1>11. ASSUME NEW t \in NthExpiry(C, n) PROVE t = w
  <2>1. t \in 0..CodeTTL
    BY <1>1, <1>3
  <2>2. t \in Nat /\ w \in Nat
    BY <1>7, <2>1
  <2>3. /\ Cardinality(After(C, t)) < Cardinality(C) - n <=> t >= t
        /\ Cardinality(After(C, t)) < Cardinality(C) - n <=> t >= w
        /\ Cardinality(After(C, w)) < Cardinality(C) - n <=> w >= t
        /\ Cardinality(After(C, w)) < Cardinality(C) - n <=> w >= w
    BY <1>9, <1>10, <2>2, Zenon
  <2> QED BY <2>2, <2>3
<1> QED BY <1>7, <1>9, <1>10, <1>11

\* The last code of C is gone from the largest of their times on.
LEMMA LastExpiry ==
  ASSUME NEW C, Timed(C), C # {}, CodeTTL \in Nat
  PROVE  LET w == Max({row[c].life : c \in C}) IN
         w \in 0..CodeTTL /\ \A u \in Nat : Cardinality(After(C, u)) = 0 <=> u >= w
<1> DEFINE Times == {row[c].life : c \in C}
           w == Max(Times)
<1>1. Times \subseteq 0..CodeTTL /\ Times # {}
  BY DEF Timed
<1>2. w \in Times /\ \A t \in Times : t <= w
  <2> HIDE DEF Times
  <2> QED BY <1>1, Largest
<1>3. ASSUME NEW u \in Nat PROVE Cardinality(After(C, u)) = 0 <=> u >= w
  <2>1. IsFiniteSet(After(C, u))
    BY FS_Subset DEF After, Timed
  <2>2. Cardinality(After(C, u)) = 0 <=> After(C, u) = {}
    BY <2>1, FS_EmptySet
  <2>3. PICK c \in C : row[c].life = w
    BY <1>2
  <2>4. \A d \in C : row[d].life <= w /\ row[d].life \in Nat
    BY <1>2 DEF Timed
  <2> HIDE DEF w
  <2>5. w \in Nat
    BY <2>3, <2>4
  <2>6. After(C, u) = {} <=> u >= w
    BY <2>3, <2>4, <2>5 DEF After
  <2> QED BY <2>2, <2>6
<1> QED BY <1>1, <1>2, <1>3

\* There is no expiry past the last.
LEMMA LaterExpiry ==
  ASSUME NEW C, Timed(C), NEW n \in Int, n >= Cardinality(C)
  PROVE  NthExpiry(C, n) = {}
<1>1. \A t : Cardinality(Expired(C, t)) \in Nat /\ Cardinality(Expired(C, t)) <= Cardinality(C)
  <2>1. \A t : Expired(C, t) \in SUBSET C
    BY DEF Expired
  <2> QED BY <2>1, Counts
<1>2. Cardinality(C) \in Nat
  BY Counts
<1>3. ASSUME NEW t, t \in NthExpiry(C, n) PROVE n < Cardinality(Expired(C, t))
  BY <1>3 DEF NthExpiry, Expired
<1>4. \A t : ~(n < Cardinality(Expired(C, t)))
  BY <1>1, <1>2
<1> QED BY <1>3, <1>4

\* Min picks the smaller of two numbers.
LEMMA Smaller ==
  ASSUME NEW a \in Nat, NEW b \in Nat
  PROVE  Min({a} \cup {b}) = IF a <= b THEN a ELSE b
<1> DEFINE S == {a} \cup {b}
           m == IF a <= b THEN a ELSE b
<1>1. m \in S /\ \A x \in S : m <= x
  OBVIOUS
<1>2. \A k \in S : (\A x \in S : k <= x) => k = m
  BY <1>1
<1>3. Min(S) = CHOOSE k \in S : \A x \in S : k <= x
  BY DEF Min
<1> HIDE DEF S, m
<1>4. Min(S) = m
  BY <1>1, <1>2, <1>3
<1> QED BY <1>4 DEF S, m

-----------------------------------------------------------------------------
\* S holds the first of the times F, or nothing if F is always.
FirstOf(S, F) ==
  \/ S = {} /\ F = Nat
  \/ \E w \in 0..CodeTTL : S = {w} /\ F = {u \in Nat : u >= w}

\* Three conditions that refuse at 0 all hold from the last of their times on.
LEMMA LastOfFirst ==
  ASSUME NEW S1, NEW S2, NEW S3, NEW F1, NEW F2, NEW F3, CodeTTL \in Nat,
         FirstOf(S1, F1), FirstOf(S2, F2), FirstOf(S3, F3),
         0 \notin F1 \cap F2 \cap F3
  PROVE  LET delay == Max(S1 \cup S2 \cup S3) IN
         delay \in Nat /\ \A u \in Nat : u \in F1 \cap F2 \cap F3 <=> u >= delay
<1> DEFINE S == S1 \cup S2 \cup S3
<1>1. S \subseteq 0..CodeTTL /\ S # {}
  BY DEF FirstOf
<1>2. \A u \in Nat : u \in F1 \cap F2 \cap F3 <=> \A w \in S : u >= w
  <2>1. \A u \in Nat : u \in F1 <=> \A w \in S1 : u >= w
    BY DEF FirstOf
  <2>2. \A u \in Nat : u \in F2 <=> \A w \in S2 : u >= w
    BY DEF FirstOf
  <2>3. \A u \in Nat : u \in F3 <=> \A w \in S3 : u >= w
    BY DEF FirstOf
  <2> QED BY <2>1, <2>2, <2>3
<1> HIDE DEF S
<1>3. Max(S) \in S /\ \A w \in S : w <= Max(S)
  BY <1>1, Largest
<1>4. \A w \in S : w \in Nat
  BY <1>1
<1>5. ASSUME NEW m, m \in S, \A w \in S : w <= m, NEW u \in Nat
      PROVE  u >= m <=> \A w \in S : u >= w
  BY <1>4, <1>5
<1>6. \A u \in Nat : u >= Max(S) <=> \A w \in S : u >= w
  BY <1>3, <1>5
<1>7. Max(S) \in Nat /\ \A u \in Nat : u \in F1 \cap F2 \cap F3 <=> u >= Max(S)
  BY <1>2, <1>3, <1>4, <1>6
<1> QED BY <1>7 DEF S

\* A limit of C: until enough codes of C have expired to be under it.
LEMMA LimitFree ==
  ASSUME NEW C, Timed(C), NEW limit \in Nat \ {0}, CodeTTL \in Nat
  PROVE  FirstOf(IF Cardinality(C) >= limit THEN NthExpiry(C, Cardinality(C) - limit) ELSE {},
                 {u \in Nat : Cardinality(After(C, u)) < limit})
<1>1. Cardinality(C) \in Nat
  BY Counts
<1>2. CASE Cardinality(C) >= limit
  <2> DEFINE n == Cardinality(C) - limit
  <2>1. n \in Nat /\ n < Cardinality(C) /\ Cardinality(C) - n = limit
    BY <1>1, <1>2
  <2> HIDE DEF n
  <2>2. PICK w \in 0..CodeTTL :
           /\ NthExpiry(C, n) = {w}
           /\ \A u \in Nat : Cardinality(After(C, u)) < Cardinality(C) - n <=> u >= w
    BY <2>1, Expiry
  <2>3. {u \in Nat : Cardinality(After(C, u)) < limit} = {u \in Nat : u >= w}
    BY <2>1, <2>2
  <2> QED BY <1>2, <2>2, <2>3 DEF FirstOf, n
<1>3. CASE Cardinality(C) < limit
  <2>1. \A u : After(C, u) \in SUBSET C
    BY DEF After
  <2>2. \A u : Cardinality(After(C, u)) \in Nat /\ Cardinality(After(C, u)) <= Cardinality(C)
    BY <2>1, Counts
  <2>3. {u \in Nat : Cardinality(After(C, u)) < limit} = Nat
    BY <1>1, <1>3, <2>2
  <2>4. ~(Cardinality(C) >= limit)
    BY <1>1, <1>3
  <2> QED BY <2>3, <2>4 DEF FirstOf
<1> QED BY <1>1, <1>2, <1>3

\* The reserve: the general capacity or the source's last code is free again.
LEMMA ReserveFree ==
  ASSUME NEW A, Timed(A), NEW B \in SUBSET A, CodeTTL \in Nat, GeneralCapacity \in Int
  PROVE  FirstOf(IF Cardinality(A) >= GeneralCapacity /\ Cardinality(B) > 0
                   THEN ReserveWait(A, B) ELSE {},
                 {u \in Nat : \/ Cardinality(After(A, u)) < GeneralCapacity
                              \/ Cardinality(After(B, u)) = 0})
<1> DEFINE G == GeneralCapacity
           F == {u \in Nat : Cardinality(After(A, u)) < G \/ Cardinality(After(B, u)) = 0}
           inactive == Max({row[c].life : c \in B})
<1>1. Timed(B)
  BY FS_Subset DEF Timed
<1>2. Cardinality(A) \in Nat /\ Cardinality(B) \in Nat
  BY <1>1, Counts
<1>3. \A u : /\ Cardinality(After(A, u)) \in Nat /\ Cardinality(After(A, u)) <= Cardinality(A)
             /\ Cardinality(After(B, u)) \in Nat /\ Cardinality(After(B, u)) <= Cardinality(B)
  <2>1. \A u : After(A, u) \in SUBSET A /\ After(B, u) \in SUBSET B
    BY DEF After
  <2> QED BY <1>1, <2>1, Counts
<1>4. CASE ~(Cardinality(A) >= G /\ Cardinality(B) > 0)
  <2>1. \A u \in Nat : Cardinality(After(A, u)) < G \/ Cardinality(After(B, u)) = 0
    BY <1>2, <1>3, <1>4
  <2>2. F = Nat
    BY <2>1
  <2> QED BY <1>4, <2>2 DEF FirstOf
<1>5. CASE Cardinality(A) >= G /\ Cardinality(B) > 0
  <2>1. B # {}
    BY <1>2, <1>5, FS_EmptySet
  <2>2. /\ inactive \in 0..CodeTTL
        /\ \A u \in Nat : Cardinality(After(B, u)) = 0 <=> u >= inactive
    BY <1>1, <2>1, LastExpiry
  <2> HIDE DEF inactive
  <2>3. \E w \in 0..CodeTTL :
          ReserveWait(A, B) = {w} /\ \A u \in Nat : u \in F <=> u >= w
    <3>1. CASE G <= 0
      <4>1. Cardinality(A) - G \in Int /\ Cardinality(A) - G >= Cardinality(A)
        BY <1>2, <3>1
      <4>2. NthExpiry(A, Cardinality(A) - G) = {}
        BY <4>1, LaterExpiry
      <4>3. ReserveWait(A, B) = {inactive}
        BY <4>2 DEF ReserveWait, inactive
      <4>4. \A u \in Nat : ~(Cardinality(After(A, u)) < G)
        BY <1>3, <3>1
      <4>5. \A u \in Nat : u \in F <=> u >= inactive
        BY <2>2, <4>4
      <4> QED BY <2>2, <4>3, <4>5
    <3>2. CASE G > 0
      <4> DEFINE n == Cardinality(A) - G
      <4>1. n \in Nat /\ n < Cardinality(A) /\ Cardinality(A) - n = G
        BY <1>2, <1>5, <3>2
      <4> HIDE DEF n
      <4>2. PICK general \in 0..CodeTTL :
              /\ NthExpiry(A, n) = {general}
              /\ \A u \in Nat : Cardinality(After(A, u)) < Cardinality(A) - n <=> u >= general
        BY <4>1, Expiry
      <4> DEFINE w == IF general <= inactive THEN general ELSE inactive
      <4>3. Min({general} \cup {inactive}) = w
        <5>1. general \in Nat /\ inactive \in Nat
          BY <2>2
        <5> QED BY <5>1, Smaller
      <4>4. ReserveWait(A, B) = {w}
        <5>1. ReserveWait(A, B) = {Min({general} \cup {inactive})}
          BY <4>2 DEF ReserveWait, inactive, n
        <5> QED BY <4>3, <5>1
      <4>5. \A u \in Nat : u \in F <=> u >= general \/ u >= inactive
        BY <2>2, <4>1, <4>2
      <4>6. w \in 0..CodeTTL /\ \A u \in Nat : u >= w <=> u >= general \/ u >= inactive
        BY <2>2
      <4> HIDE DEF w, F
      <4> QED BY <4>4, <4>5, <4>6
    <3> QED BY <3>1, <3>2
  <2>4. PICK w \in 0..CodeTTL :
          ReserveWait(A, B) = {w} /\ \A u \in Nat : u \in F <=> u >= w
    BY <2>3
  <2>5. F = {u \in Nat : u >= w}
    BY <2>4
  <2> QED BY <1>5, <2>4, <2>5 DEF FirstOf
<1> QED BY <1>4, <1>5

\* The delay is exact for any codes A and any of them, B, that are the source's.
LEMMA RetryExact ==
  ASSUME NEW A, Timed(A), NEW B \in SUBSET A,
         ~Admitted(Cardinality(After(A, 0)), Cardinality(After(B, 0)))
  PROVE  /\ RetryAfter(A, B) \in Nat
         /\ \A u \in Nat : Admitted(Cardinality(After(A, u)), Cardinality(After(B, u))) <=>
                             u >= RetryAfter(A, B)
<1> USE DeviceAuthorizationAssumption
<1> DEFINE F1 == {u \in Nat : Cardinality(After(A, u)) < Capacity}
           F2 == {u \in Nat : Cardinality(After(B, u)) < SourceCapacity}
           F3 == {u \in Nat : \/ Cardinality(After(A, u)) < GeneralCapacity
                              \/ Cardinality(After(B, u)) = 0}
           S1 == IF Cardinality(A) >= Capacity
                   THEN NthExpiry(A, Cardinality(A) - Capacity) ELSE {}
           S2 == IF Cardinality(B) >= SourceCapacity
                   THEN NthExpiry(B, Cardinality(B) - SourceCapacity) ELSE {}
           S3 == IF Cardinality(A) >= GeneralCapacity /\ Cardinality(B) > 0
                   THEN ReserveWait(A, B) ELSE {}
<1>1. Timed(B)
  BY FS_Subset DEF Timed
<1>2. GeneralCapacity \in Int
  BY DEF GeneralCapacity
<1>3. FirstOf(S1, F1)
  BY LimitFree
<1>4. FirstOf(S2, F2)
  <2>1. SourceCapacity \in Nat \ {0} /\ CodeTTL \in Nat
    OBVIOUS
  <2> QED BY ONLY <1>1, <2>1, LimitFree, Zenon
<1>5. FirstOf(S3, F3)
  <2>1. Timed(A) /\ B \in SUBSET A /\ CodeTTL \in Nat
    OBVIOUS
  <2> QED BY ONLY <1>2, <2>1, ReserveFree, Zenon
<1>6. \A u \in Nat : Admitted(Cardinality(After(A, u)), Cardinality(After(B, u))) <=>
                     u \in F1 \cap F2 \cap F3
  BY DEF Admitted
<1>7. RetryAfter(A, B) = Max(S1 \cup S2 \cup S3)
  BY DEF RetryAfter
<1>8. 0 \notin F1 \cap F2 \cap F3 /\ CodeTTL \in Nat
  BY <1>6
<1> HIDE DEF F1, F2, F3, S1, S2, S3
<1>9. LET delay == Max(S1 \cup S2 \cup S3) IN
      delay \in Nat /\ \A u \in Nat : u \in F1 \cap F2 \cap F3 <=> u >= delay
  BY <1>3, <1>4, <1>5, <1>8, LastOfFirst
<1> QED BY <1>6, <1>7, <1>9

\* RetryAfterExact holds for any stored rows of the right type.
LEMMA RetryTyped == TypeOK => RetryAfterExact
<1> USE DeviceAuthorizationAssumption
<1> SUFFICES ASSUME TypeOK,
                    NEW source \in Sources, NEW client \in Clients, NEW purpose \in Purposes
             PROVE  LET active == Outstanding \ Replaced(purpose, client)
                        Later(t) == {c \in active : row[c].life > t}
                        Open(t) == Admitted(Cardinality(Later(t)),
                                            Cardinality({c \in Later(t) : row[c].source = source}))
                        delay == RetryAfter(active, {c \in active : row[c].source = source}) IN
                      ~Open(0) => Open(delay) /\ \A t \in 0..(delay - 1) : ~Open(t)
  BY Zenon DEF RetryAfterExact
<1> DEFINE active == Outstanding \ Replaced(purpose, client)
           own == {c \in active : row[c].source = source}
           Later(t) == {c \in active : row[c].life > t}
           Open(t) == Admitted(Cardinality(Later(t)),
                               Cardinality({c \in Later(t) : row[c].source = source}))
           delay == RetryAfter(active, own)
<1>1. Timed(active)
  <2>1. active \subseteq Codes
    BY DEF Outstanding
  <2>2. IsFiniteSet(active)
    BY <2>1, FS_Subset
  <2>3. \A c \in Codes : row[c].life \in 0..CodeTTL
    BY DEF TypeOK, Row
  <2> QED BY <2>1, <2>2, <2>3 DEF Timed
<1>2. own \in SUBSET active
  OBVIOUS
<1>3. \A t : Later(t) = After(active, t) /\ {c \in Later(t) : row[c].source = source} = After(own, t)
  BY DEF After
<1> HIDE DEF active, own
<1>4. \A t : Open(t) <=> Admitted(Cardinality(After(active, t)), Cardinality(After(own, t)))
  BY <1>3, Zenon
<1> HIDE DEF Open
<1>5. ASSUME ~Open(0)
      PROVE  delay \in Nat /\ \A t \in Nat : Open(t) <=> t >= delay
  BY <1>1, <1>2, <1>4, <1>5, RetryExact
<1> HIDE DEF delay
<1>6. ~Open(0) => Open(delay) /\ \A t \in 0..(delay - 1) : ~Open(t)
  BY <1>5
<1> QED BY <1>6 DEF Open, delay, active, own

\* Whatever codes are stored, a device that deviceAuthorizationCapacityRetryAfter
\* refuses is admitted when the delay it was told is over, and not before, if
\* nothing else happens.
THEOREM DeviceRetryAfterExact == Spec => []RetryAfterExact
BY DeviceTypeCorrect, RetryTyped, PTL
=============================================================================
