------------------------- MODULE SessionRealmProofs -------------------------
(* The invariants of SessionRealm hold for every value of its constants.   *)
EXTENDS SessionRealm, TLAPS

-----------------------------------------------------------------------------
(* The inductive invariant                                                 *)

\* A request that is logging in: nobody else knows its token yet.
LoggingIn(r) == req[r].stage \in LoginStages

\* A request that carries a session which some client was given.
Carrying(r) == req[r].stage \in CarryStages

\* A deleted session that only an Authenticate could have written back.
Gone(t) == store[t] = None \/ "revived" \in escape[t] \/ "late" \in escape[t]

\* What is stored, indexed and returned under a token is what it was issued
\* for, and the index outlives the session.
OwnerInv ==
    /\ \A t \in Tokens :
         /\ store[t] # None => store[t].data = owner[t]
         /\ t \in issued => owner[t] # None
         /\ t \in revoked => t \in issued
         /\ owner[t] # None =>
              /\ owner[t].at <= clock
              /\ owner[t].deadline = owner[t].at + Lifetime
    /\ \A u \in Users, t \in Tokens :
         t \in userSessions[u] =>
             /\ owner[t] # None
             /\ owner[t].user = u
             /\ owner[t].deadline < userTTL[u]
    /\ \A u \in Users, d \in Devices, t \in Tokens :
         t \in deviceSessions[u][d] =>
             /\ owner[t] # None
             /\ owner[t].user = u
             /\ owner[t].device = d
             /\ owner[t].deadline < deviceTTL[u][d]
             /\ owner[t].deadline < userTTL[u]
    /\ \A u \in Users : userTTL[u] <= clock + 2 * Lifetime
    /\ \A u \in Users, d \in Devices : deviceTTL[u][d] <= clock + 2 * Lifetime

\* What a request carries: the data of its own new login, or of the login
\* that its token names; what it has deleted stays deleted or is written back
\* by an Authenticate only.
RequestOK(r) ==
    /\ LoggingIn(r) =>
         LET s == req[r].session IN
         /\ s.token \notin issued
         /\ s.data.at <= clock
         /\ s.data.deadline = s.data.at + Lifetime
         /\ s.token # None => owner[s.token] \in {None, s.data}
         /\ req[r].stage # "commit" =>
              owner[s.token] = s.data
    /\ Carrying(r) =>
         LET s == req[r].session IN
         s.token \in issued /\ owner[s.token] = s.data
    /\ req[r].stage = "unindex" => Gone(req[r].session.token)
    /\ req[r].old # None =>
         LET s == req[r].old IN
         s.token \in issued /\ owner[s.token] = s.data /\ Gone(s.token)

\* Two logins never work on the same token.
Exclusive(q, r) ==
    LoggingIn(q) /\ LoggingIn(r) /\ q # r /\ req[q].session.token # None
        => req[q].session.token # req[r].session.token

\* What a revocation has read: sessions of its target, and every session it
\* promises to end unless a race has already put that one out of its reach.
SnapshotOK(r) ==
    /\ \A t \in req[r].hashes :
         /\ owner[t] # None
         /\ req[r].user = owner[t].user
         /\ req[r].device \in {None, owner[t].device}
    /\ \A t \in req[r].promised :
         t \in issued /\ (t \in req[r].hashes \/ escape[t] # {})

RequestInv ==
    /\ \A r \in Requests : RequestOK(r) /\ SnapshotOK(r)
    /\ \A q, r \in Requests : Exclusive(q, r)

IInv ==
    /\ TypeOK
    /\ OwnerInv
    /\ RequestInv
    /\ ReachableByUser
    /\ ReachableByDevice
    /\ RevocationHolds
    /\ DeadlineKept

-----------------------------------------------------------------------------
(* What each step of the code leaves in req[r] is a request.               *)

LEMMA IdleType == Idle \in Request
  BY DEF Idle, Request, RequestRecord, Ready, Stages, LoginStages,
         CarryStages, RevokeStages

\* A request goes on to any stage that it is ready for.
LEMMA GoOnType ==
  ASSUME NEW q \in Request, NEW s \in Stages, Ready(q, s)
  PROVE  [q EXCEPT !.stage = s] \in Request
  BY DEF Request, RequestRecord, Ready

LEMMA LoginBeginType ==
  ASSUME NEW s \in Session
  PROVE  [Idle EXCEPT !.stage = "commit", !.session = s] \in Request
  BY NoneAssumption
  DEF Idle, Request, RequestRecord, Ready, Stages, LoginStages, CarryStages,
      RevokeStages

LEMMA LoginRotateType ==
  ASSUME NEW s \in Session, NEW old \in Session, old.token # None
  PROVE  [Idle EXCEPT !.stage = "commit", !.session = s, !.old = old]
           \in Request
  BY NoneAssumption
  DEF Idle, Request, RequestRecord, Ready, Stages, LoginStages, CarryStages,
      RevokeStages

\* LoginRotate when RenewToken is sent again.
LEMMA RenewType ==
  ASSUME NEW q \in Request, NEW u \in Users, NEW d \in Devices,
         q.stage \in {"authed", "renew"}
  PROVE  [q EXCEPT !.stage = "renew", !.user = u, !.device = d] \in Request
  BY DEF Request, RequestRecord, Ready, Stages, LoginStages, CarryStages,
         RevokeStages

\* LoginCommit.
LEMMA CommitType ==
  ASSUME NEW q \in Request, q.stage = "commit", NEW t \in Tokens
  PROVE  /\ [q EXCEPT !.session.token = t] \in Request
         /\ [[q EXCEPT !.session.token = t] EXCEPT !.stage = "add"] \in Request
<1> DEFINE p == [q EXCEPT !.session.token = t]
<1>1. /\ q \in RequestRecord
      /\ q.session \in Session
      /\ q.old # None => q.old.token # None
      /\ q.hashes = {} /\ q.promised = {}
  BY DEF Request, RequestRecord, Ready, LoginStages, CarryStages, RevokeStages
<1>2. [q.session EXCEPT !.token = t] \in Session
  BY <1>1 DEF Session
<1>3. /\ p \in RequestRecord
      /\ p.stage = "commit"
      /\ p.session \in Session /\ p.session.token = t
      /\ p.old = q.old
      /\ p.hashes = {} /\ p.promised = {}
  BY <1>1, <1>2 DEF RequestRecord, Session
<1> HIDE DEF p
<1>4. Ready(p, "commit") /\ Ready(p, "add")
  BY <1>1, <1>3, NoneAssumption
  DEF Ready, LoginStages, CarryStages, RevokeStages
<1>5. p \in Request
  BY <1>3, <1>4 DEF Request
<1>6. [p EXCEPT !.stage = "add"] \in Request
  BY <1>4, <1>5, GoOnType DEF Stages, LoginStages
<1> QED BY <1>5, <1>6 DEF p

\* AuthenticateLoad.
LEMMA TouchType ==
  ASSUME NEW s \in Session, s.token # None
  PROVE  [Idle EXCEPT !.stage = "touch", !.session = s] \in Request
  BY NoneAssumption
  DEF Idle, Request, RequestRecord, Ready, Stages, LoginStages, CarryStages,
      RevokeStages

\* LogoutDevice, LogoutUser, DeleteUserDevices.
LEMMA RevokeType ==
  ASSUME NEW u \in Users, NEW d \in Devices, NEW H \in SUBSET Tokens,
         NEW P \in SUBSET Tokens
  PROVE  [Idle EXCEPT !.stage = "deviceTx", !.user = u, !.device = d,
                      !.hashes = H, !.promised = P] \in Request
  BY NoneAssumption
  DEF Idle, Request, RequestRecord, Ready, Stages, LoginStages, CarryStages,
      RevokeStages

LEMMA RevokeUserType ==
  ASSUME NEW u \in Users, NEW H \in SUBSET Tokens, NEW P \in SUBSET Tokens
  PROVE  [Idle EXCEPT !.stage = "userDevices", !.user = u,
                      !.hashes = H, !.promised = P] \in Request
  BY NoneAssumption
  DEF Idle, Request, RequestRecord, Ready, Stages, LoginStages, CarryStages,
      RevokeStages

LEMMA UserTxType ==
  ASSUME NEW q \in Request, q.stage = "userDevices", NEW D \in SUBSET Devices
  PROVE  [q EXCEPT !.stage = "userTx", !.devices = D] \in Request
  BY DEF Request, RequestRecord, Ready, Stages, LoginStages, CarryStages,
         RevokeStages

\* What a request holds at the stages that need it.
LEMMA HeldType ==
  ASSUME NEW q \in Request
  PROVE  /\ q.stage \in LoginStages \cup CarryStages => q.session \in Session
         /\ q.stage = "removeOld" => q.old \in Session
         /\ q.stage \in {"add", "undo"} \cup CarryStages =>
              q.session.token \in Tokens
         /\ q.old # None => q.old \in Session /\ q.old.token \in Tokens
         /\ q.stage \in RevokeStages => q.user \in Users
         /\ q.stage = "deviceTx" => q.device \in Devices
         /\ q.stage \in {"userDevices", "userTx"} => q.device = None
         /\ q.hashes \in SUBSET Tokens
         /\ q.devices \in SUBSET Devices
         /\ q.promised \in SUBSET Tokens
         /\ q.stage \in Stages
<1>1. q \in RequestRecord /\ Ready(q, q.stage)
  BY DEF Request
<1>2. /\ q.session \in Session \cup {None}
      /\ q.old \in Session \cup {None}
      /\ q.user \in Users \cup {None}
      /\ q.device \in Devices \cup {None}
      /\ q.hashes \in SUBSET Tokens
      /\ q.devices \in SUBSET Devices
      /\ q.promised \in SUBSET Tokens
      /\ q.stage \in Stages
  BY <1>1 DEF RequestRecord
<1>3. \A s \in Session : s.token \in Tokens \cup {None}
  BY DEF Session
<1> QED BY <1>1, <1>2, <1>3 DEF Ready, LoginStages, RevokeStages

LEMMA SessionType ==
  ASSUME NEW s \in Session
  PROVE  /\ s # None
         /\ s.token \in Tokens \cup {None}
         /\ s.data \in Payload
         /\ s.data.user \in Users
         /\ s.data.device \in Devices
         /\ s.data.at \in Nat
         /\ s.data.deadline \in Nat
  BY NoneAssumption DEF Session, Payload

-----------------------------------------------------------------------------
(* The helpers of the actions                                              *)

LEMMA AnswerCases ==
  ASSUME NEW r, NEW o, NEW a, NEW b, NEW c, Answer(r, o, a, b, c)
  PROVE  \/ o = "ok" /\ req' = [req EXCEPT ![r] = b]
         \/ o = "again" /\ req' = [req EXCEPT ![r] = a]
         \/ o \notin {"ok", "again"} /\ req' = [req EXCEPT ![r] = c]
  BY DEF Answer

\* Only the request that steps changes.
LEMMA StepOf ==
  ASSUME TypeOK, NEW r \in Requests, NEW q, req' = [req EXCEPT ![r] = q]
  PROVE  /\ req'[r] = q
         /\ \A p \in Requests : p # r => req'[p] = req[p]
  BY DEF TypeOK

LEMMA AnswerStep ==
  ASSUME TypeOK, NEW r \in Requests, NEW o, NEW a, NEW b, NEW c,
         Answer(r, o, a, b, c)
  PROVE  /\ \A p \in Requests : p # r => req'[p] = req[p]
         /\ \/ o = "ok" /\ req'[r] = b
            \/ o = "again" /\ req'[r] = a
            \/ o \notin {"ok", "again"} /\ req'[r] = c
<1>1. CASE o = "ok" /\ req' = [req EXCEPT ![r] = b]
  BY <1>1, StepOf
<1>2. CASE o = "again" /\ req' = [req EXCEPT ![r] = a]
  BY <1>2, StepOf
<1>3. CASE o \notin {"ok", "again"} /\ req' = [req EXCEPT ![r] = c]
  BY <1>3, StepOf
<1> QED BY <1>1, <1>2, <1>3, AnswerCases

LEMMA ReqType ==
  ASSUME TypeOK, NEW r \in Requests, NEW q \in Request,
         req' = [req EXCEPT ![r] = q]
  PROVE  req' \in [Requests -> Request]
  BY DEF TypeOK

LEMMA AnswerType ==
  ASSUME TypeOK, NEW r \in Requests, NEW o,
         NEW a \in Request, NEW b \in Request, NEW c \in Request,
         Answer(r, o, a, b, c)
  PROVE  req' \in [Requests -> Request]
  BY AnswerCases, ReqType

LEMMA CallType ==
  ASSUME TypeOK, NEW r, NEW S, NEW o, Call(r, S, o)
  PROVE  faults' \in 0..MaxFaults /\ clock' = clock /\ req[r].stage \in S
  BY BoundsAssumption DEF TypeOK, Call

LEMMA NewPayloadType ==
  ASSUME TypeOK, NEW u \in Users, NEW d \in Devices
  PROVE  NewPayload(u, d) \in Payload
  BY TimeoutsAssumption DEF TypeOK, NewPayload, Payload

LEMMA StoredNowType ==
  ASSUME TypeOK, NEW p \in Payload
  PROVE  /\ StoredNow(p) \in Stored
         /\ Expiry(p) # 0 => clock < Expiry(p) /\ Expiry(p) <= p.deadline
  BY TimeoutsAssumption DEF TypeOK, StoredNow, Stored, Expiry, Payload

LEMMA WithoutType ==
  ASSUME TypeOK, NEW S
  PROVE  Without(S) \in [Tokens -> Stored \cup {None}]
  BY DEF TypeOK, Without

LEMMA EscapingType ==
  ASSUME TypeOK, NEW S, NEW c \in Causes
  PROVE  Escaping(S, c) \in [Tokens -> SUBSET Causes]
  BY DEF TypeOK, Escaping

LEMMA UpdateType ==
  ASSUME NEW A, NEW B, NEW f \in [A -> B], NEW a \in A, NEW b \in B
  PROVE  [f EXCEPT ![a] = b] \in [A -> B]
  OBVIOUS

LEMMA NestedUpdateType ==
  ASSUME NEW A, NEW B, NEW C, NEW f \in [A -> [B -> C]],
         NEW a \in A, NEW b \in B, NEW c \in C
  PROVE  [f EXCEPT ![a][b] = c] \in [A -> [B -> C]]
  OBVIOUS

IndexType ==
  /\ userSessions \in [Users -> SUBSET Tokens]
  /\ userDevices \in [Users -> SUBSET Devices]
  /\ deviceSessions \in [Users -> [Devices -> SUBSET Tokens]]
  /\ userTTL \in [Users -> Nat]
  /\ deviceTTL \in [Users -> [Devices -> Nat]]

LEMMA AddType ==
  ASSUME TypeOK, NEW s \in Session, s.token \in Tokens, AddToIndex(s)
  PROVE  IndexType'
<1> DEFINE u == s.data.user
           d == s.data.device
           c == clock + 2 * Lifetime
<1>1. u \in Users /\ d \in Devices
  BY SessionType
<1>2. c \in Nat
  BY TimeoutsAssumption DEF TypeOK
<1> HIDE DEF c
<1>3. IndexType
  BY DEF TypeOK, IndexType
<1>4. /\ userSessions' = [userSessions EXCEPT ![u] = @ \cup {s.token}]
      /\ userDevices' = [userDevices EXCEPT ![u] = @ \cup {d}]
      /\ deviceSessions' = [deviceSessions EXCEPT ![u][d] = @ \cup {s.token}]
      /\ userTTL' = [userTTL EXCEPT ![u] = c]
      /\ deviceTTL' = [deviceTTL EXCEPT ![u][d] = c]
  BY DEF AddToIndex, c
<1> HIDE DEF u, d
<1>5. userSessions' \in [Users -> SUBSET Tokens]
  BY <1>1, <1>3, <1>4 DEF IndexType
<1>6. userDevices' \in [Users -> SUBSET Devices]
  BY <1>1, <1>3, <1>4 DEF IndexType
<1>7. deviceSessions' \in [Users -> [Devices -> SUBSET Tokens]]
  BY <1>1, <1>3, <1>4 DEF IndexType
<1>8. userTTL' \in [Users -> Nat]
  BY <1>1, <1>2, <1>3, <1>4 DEF IndexType
<1>9. deviceTTL' \in [Users -> [Devices -> Nat]]
  BY <1>1, <1>2, <1>3, <1>4 DEF IndexType
<1> QED BY <1>5, <1>6, <1>7, <1>8, <1>9 DEF IndexType

LEMMA RemoveType ==
  ASSUME TypeOK, NEW s \in Session, RemoveFromIndex(s)
  PROVE  IndexType'
<1> DEFINE u == s.data.user
           d == s.data.device
<1>1. u \in Users /\ d \in Devices
  BY SessionType
<1>2. /\ userSessions' = [userSessions EXCEPT ![u] = @ \ {s.token}]
      /\ deviceSessions' = [deviceSessions EXCEPT ![u][d] = @ \ {s.token}]
      /\ UNCHANGED <<userDevices, userTTL, deviceTTL>>
  BY DEF RemoveFromIndex
<1> HIDE DEF u, d
<1>3. userSessions' \in [Users -> SUBSET Tokens]
  BY <1>1, <1>2 DEF TypeOK
<1>4. deviceSessions' \in [Users -> [Devices -> SUBSET Tokens]]
  BY <1>1, <1>2 DEF TypeOK
<1> QED BY <1>2, <1>3, <1>4 DEF IndexType, TypeOK

LEMMA DeviceTxType ==
  ASSUME TypeOK, NEW u \in Users, NEW d \in Devices, NEW H,
         userSessions' = [userSessions EXCEPT ![u] = @ \ H],
         deviceSessions' = [deviceSessions EXCEPT ![u][d] = {}],
         userDevices' = [userDevices EXCEPT ![u] = @ \ {d}],
         UNCHANGED <<userTTL, deviceTTL>>
  PROVE  IndexType'
<1>1. userSessions' \in [Users -> SUBSET Tokens]
  BY DEF TypeOK
<1>2. deviceSessions' \in [Users -> [Devices -> SUBSET Tokens]]
  BY DEF TypeOK
<1>3. userDevices' \in [Users -> SUBSET Devices]
  BY DEF TypeOK
<1> QED BY <1>1, <1>2, <1>3 DEF IndexType, TypeOK

-----------------------------------------------------------------------------
(* Type correctness                                                        *)

LEMMA TypeInit == Init => TypeOK
<1> SUFFICES ASSUME Init PROVE TypeOK
  OBVIOUS
<1>1. req \in [Requests -> Request]
  BY IdleType DEF Init
<1> QED BY <1>1, BoundsAssumption DEF Init, TypeOK

LEMMA TypeLogin ==
  ASSUME TypeOK, NEW r \in Requests, NEW o \in Outcomes,
         \/ \E u \in Users, d \in Devices : LoginBegin(r, u, d)
         \/ \E u \in Users, d \in Devices : LoginRotate(r, u, d, o)
         \/ LoginCommit(r, o)
         \/ LoginAdd(r, o)
         \/ LoginUndo(r, o)
         \/ LoginRemoveOld(r, o)
  PROVE  TypeOK'
<1>0. req[r] \in Request
  BY DEF TypeOK
<1>1. ASSUME NEW u \in Users, NEW d \in Devices, LoginBegin(r, u, d)
      PROVE  TypeOK'
  <2>1. [token |-> None, data |-> NewPayload(u, d)] \in Session
    BY NewPayloadType DEF Session
  <2>2. [Idle EXCEPT !.stage = "commit",
                     !.session = [token |-> None,
                                  data |-> NewPayload(u, d)]] \in Request
    BY <2>1, LoginBeginType
  <2>3. req' \in [Requests -> Request]
    BY <1>1, <2>2, ReqType DEF LoginBegin
  <2> QED BY <1>1, <2>3 DEF LoginBegin, TypeOK, index, history
<1>2. ASSUME NEW u \in Users, NEW d \in Devices, LoginRotate(r, u, d, o)
      PROVE  TypeOK'
  <2>1. PICK t \in Fresh :
          Answer(r, o,
                 [req[r] EXCEPT !.stage = "renew", !.user = u, !.device = d],
                 [Idle EXCEPT !.stage = "commit",
                              !.session = [token |-> t,
                                           data |-> NewPayload(u, d)],
                              !.old = req[r].session],
                 Idle)
    BY <1>2 DEF LoginRotate
  <2>2. [token |-> t, data |-> NewPayload(u, d)] \in Session
    BY NewPayloadType DEF Session, Fresh
  <2>3. Call(r, {"authed", "renew"}, o)
    BY <1>2 DEF LoginRotate
  <2>4. /\ req[r].stage \in {"authed", "renew"}
        /\ req[r].session \in Session /\ req[r].session.token \in Tokens
    BY <1>0, <2>3, CallType, HeldType DEF CarryStages
  <2>5. req' \in [Requests -> Request]
    BY ZenonT(40), <1>0, <2>1, <2>2, <2>4, RenewType, LoginRotateType, IdleType, SessionType,
       AnswerType, NoneAssumption
  <2> QED
    BY <1>2, <2>3, <2>5, CallType, WithoutType
    DEF LoginRotate, TypeOK, index, history
<1>3. ASSUME LoginCommit(r, o) PROVE TypeOK'
  <2> DEFINE p == req[r].session.data
             s(t) == [req[r] EXCEPT !.session.token = t]
  <2>1. Call(r, {"commit"}, o)
    BY <1>3 DEF LoginCommit
  <2>2. /\ req[r].stage = "commit"
        /\ req[r].session \in Session
    BY SMTT(40), <1>0, <2>1, CallType, HeldType DEF LoginStages
  <2>3. PICK t \in Tokens :
          /\ Answer(r, o, s(t), [s(t) EXCEPT !.stage = "add"], Idle)
          /\ IF Done(o)
             THEN /\ store' = [store EXCEPT ![t] = StoredNow(p)]
                  /\ owner' = [owner EXCEPT ![t] = p]
                  /\ escape' = IF Expiry(p) = 0 THEN Escaping({t}, "late")
                               ELSE escape
             ELSE UNCHANGED <<store, owner, escape>>
    BY ZenonT(40), <1>3, <2>2, SessionType DEF LoginCommit, Fresh
  <2>4. req' \in [Requests -> Request]
    BY <1>0, <2>2, <2>3, CommitType, IdleType, AnswerType
  <2>5. p \in Payload
    BY <2>2, SessionType
  <2>6. /\ store' \in [Tokens -> Stored \cup {None}]
        /\ owner' \in [Tokens -> Payload \cup {None}]
    BY <2>3, <2>5, StoredNowType DEF TypeOK
  <2>7. escape' \in [Tokens -> SUBSET Causes]
    BY <2>3, EscapingType DEF TypeOK, Causes
  <2> QED
    BY ZenonT(40), <1>3, <2>1, <2>4, <2>6, <2>7, CallType
    DEF LoginCommit, TypeOK, index, history
<1>4. ASSUME LoginAdd(r, o) PROVE TypeOK'
  <2>1. Call(r, {"add"}, o)
    BY <1>4 DEF LoginAdd
  <2>2. /\ req[r].stage = "add"
        /\ req[r].session \in Session
        /\ req[r].session.token \in Tokens
    BY SMTT(40), <1>0, <2>1, CallType, HeldType DEF LoginStages
  <2>4. /\ [req[r] EXCEPT !.stage = "undo"] \in Request
        /\ req[r].old # None => [req[r] EXCEPT !.stage = "removeOld"] \in Request
    BY <1>0, <2>2, GoOnType, SessionType, NoneAssumption
    DEF Ready, Stages, LoginStages, CarryStages, RevokeStages, Request
  <2>5. req' \in [Requests -> Request]
    BY <1>0, <1>4, <2>4, IdleType, AnswerType DEF LoginAdd
  <2>7. IndexType'
    BY <1>4, <2>2, AddType DEF LoginAdd, index, IndexType, TypeOK
  <2>8. issued' \subseteq Tokens
    BY <1>4, <2>2 DEF LoginAdd, TypeOK
  <2> QED
    BY <1>4, <2>1, <2>5, <2>7, <2>8, CallType
    DEF LoginAdd, TypeOK, IndexType
<1>5. ASSUME LoginUndo(r, o) PROVE TypeOK'
  <2>1. req' \in [Requests -> Request]
    BY <1>0, <1>5, IdleType, AnswerType DEF LoginUndo
  <2> QED
    BY <1>5, <2>1, CallType, WithoutType DEF LoginUndo, TypeOK, index, history
<1>6. ASSUME LoginRemoveOld(r, o) PROVE TypeOK'
  <2>1. req' \in [Requests -> Request]
    BY <1>0, <1>6, IdleType, AnswerType DEF LoginRemoveOld
  <2>2. req[r].old \in Session /\ req[r].old.token \in Tokens
    BY <1>0, <1>6, CallType, HeldType, SessionType DEF LoginRemoveOld
  <2>3. IndexType'
    BY <1>6, <2>2, RemoveType DEF LoginRemoveOld, index, IndexType, TypeOK
  <2>4. revoked' \subseteq Tokens
    BY <1>6, <2>2 DEF LoginRemoveOld, TypeOK
  <2> QED
    BY <1>6, <2>1, <2>3, <2>4, CallType DEF LoginRemoveOld, TypeOK, IndexType
<1> QED BY <1>1, <1>2, <1>3, <1>4, <1>5, <1>6

LEMMA TypeAuthenticate ==
  ASSUME TypeOK, NEW r \in Requests, NEW o \in Outcomes,
         \/ \E t \in Tokens : AuthenticateLoad(r, t)
         \/ AuthenticateCommit(r, o)
         \/ EndRequest(r)
         \/ LogoutCurrentDestroy(r, o)
         \/ LogoutCurrentUnindex(r, o)
  PROVE  TypeOK'
<1>0. req[r] \in Request
  BY DEF TypeOK
<1>1. ASSUME NEW t \in Tokens, AuthenticateLoad(r, t) PROVE TypeOK'
  <2> DEFINE s == [token |-> t, data |-> store[t].data]
  <2>1. store[t] \in Stored
    BY <1>1 DEF AuthenticateLoad, TypeOK
  <2>2. s \in Session /\ s.token # None
    BY <2>1, NoneAssumption DEF Stored, Session
  <2>3. [Idle EXCEPT !.stage = "touch", !.session = s] \in Request
    BY <2>2, TouchType
  <2>4. req' \in [Requests -> Request]
    BY <1>1, <2>3, ReqType DEF AuthenticateLoad
  <2> QED BY <1>1, <2>4 DEF AuthenticateLoad, TypeOK, index, history
<1>2. ASSUME AuthenticateCommit(r, o) PROVE TypeOK'
  <2> DEFINE t == req[r].session.token
             p == req[r].session.data
  <2>1. req[r].stage = "touch"
    BY <1>2, CallType DEF AuthenticateCommit
  <2>2. t \in Tokens /\ p \in Payload
    BY <1>0, <2>1, HeldType, SessionType DEF CarryStages
  <2>3. [req[r] EXCEPT !.stage = "authed"] \in Request
    BY <1>0, <2>1, GoOnType
    DEF Request, Ready, Stages, LoginStages, CarryStages, RevokeStages
  <2>4. req' \in [Requests -> Request]
    BY <1>0, <1>2, <2>3, IdleType, AnswerType DEF AuthenticateCommit
  <2>5. store' \in [Tokens -> Stored \cup {None}]
    BY <1>2, <2>2, StoredNowType DEF AuthenticateCommit, TypeOK
  <2>6. escape' \in [Tokens -> SUBSET Causes]
    BY <1>2, EscapingType DEF AuthenticateCommit, TypeOK, Causes
  <2> QED
    BY <1>2, <2>4, <2>5, <2>6, CallType
    DEF AuthenticateCommit, TypeOK, index
<1>3. ASSUME EndRequest(r) PROVE TypeOK'
  <2>1. req' \in [Requests -> Request]
    BY <1>3, IdleType, ReqType DEF EndRequest
  <2> QED BY <1>3, <2>1 DEF EndRequest, TypeOK, index, history
<1>4. ASSUME LogoutCurrentDestroy(r, o) PROVE TypeOK'
  <2>1. req[r].stage \in {"authed", "destroy"}
    BY <1>4, CallType DEF LogoutCurrentDestroy
  <2>2. /\ [req[r] EXCEPT !.stage = "destroy"] \in Request
        /\ [req[r] EXCEPT !.stage = "unindex"] \in Request
    BY <1>0, <2>1, GoOnType
    DEF Request, Ready, Stages, LoginStages, CarryStages, RevokeStages
  <2>3. req' \in [Requests -> Request]
    BY <1>0, <1>4, <2>2, IdleType, AnswerType DEF LogoutCurrentDestroy
  <2> QED
    BY <1>4, <2>3, CallType, WithoutType
    DEF LogoutCurrentDestroy, TypeOK, index, history
<1>5. ASSUME LogoutCurrentUnindex(r, o) PROVE TypeOK'
  <2>1. req' \in [Requests -> Request]
    BY <1>0, <1>5, IdleType, AnswerType DEF LogoutCurrentUnindex
  <2>2. req[r].session \in Session /\ req[r].session.token \in Tokens
    BY <1>0, <1>5, CallType, HeldType DEF LogoutCurrentUnindex, CarryStages
  <2>3. IndexType'
    BY <1>5, <2>2, RemoveType
    DEF LogoutCurrentUnindex, index, IndexType, TypeOK
  <2>4. revoked' \subseteq Tokens
    BY <1>5, <2>2 DEF LogoutCurrentUnindex, TypeOK
  <2> QED
    BY <1>5, <2>1, <2>3, <2>4, CallType
    DEF LogoutCurrentUnindex, TypeOK, IndexType
<1> QED BY <1>1, <1>2, <1>3, <1>4, <1>5

LEMMA TypeRevoke ==
  ASSUME TypeOK, NEW r \in Requests, NEW o \in Outcomes,
         \/ \E u \in Users, d \in Devices : LogoutDevice(r, u, d)
         \/ DeleteDeviceTx(r, o)
         \/ \E u \in Users : LogoutUser(r, u)
         \/ DeleteUserDevices(r, o)
         \/ DeleteUserTx(r, o)
  PROVE  TypeOK'
<1>0. req[r] \in Request
  BY DEF TypeOK
<1>1. ASSUME NEW u \in Users, NEW d \in Devices, LogoutDevice(r, u, d)
      PROVE  TypeOK'
  <2>1. deviceSessions[u][d] \in SUBSET Tokens /\ Covered(u, d) \in SUBSET Tokens
    BY DEF Covered, TypeOK
  <2>2. req' \in [Requests -> Request]
    BY <1>1, <2>1, RevokeType, ReqType DEF LogoutDevice
  <2> QED BY <1>1, <2>2 DEF LogoutDevice, TypeOK, index, history
<1>2. ASSUME DeleteDeviceTx(r, o) PROVE TypeOK'
  <2> DEFINE u == req[r].user
             d == req[r].device
             H == req[r].hashes
  <2>1. u \in Users /\ d \in Devices
    BY <1>0, <1>2, CallType, HeldType DEF DeleteDeviceTx, RevokeStages
  <2>2. req' \in [Requests -> Request]
    BY <1>0, <1>2, IdleType, AnswerType DEF DeleteDeviceTx, Return
  <2>3. store' \in [Tokens -> Stored \cup {None}]
    BY <1>2, WithoutType DEF DeleteDeviceTx, TypeOK
  <2>4. escape' \in [Tokens -> SUBSET Causes]
    BY <1>2, EscapingType DEF DeleteDeviceTx, TypeOK, Causes
  <2>5. IndexType'
    <3>1. CASE Done(o)
      BY <1>2, <2>1, <3>1, DeviceTxType DEF DeleteDeviceTx
    <3>2. CASE ~Done(o)
      BY <1>2, <3>2 DEF DeleteDeviceTx, TypeOK, IndexType
    <3> QED BY <3>1, <3>2
  <2>7. revoked' \subseteq Tokens
    BY <1>0, <1>2, HeldType DEF DeleteDeviceTx, Return, TypeOK
  <2> QED
    BY <1>2, <2>2, <2>3, <2>4, <2>5, <2>7, CallType
    DEF DeleteDeviceTx, TypeOK, IndexType
<1>3. ASSUME NEW u \in Users, LogoutUser(r, u) PROVE TypeOK'
  <2>1. userSessions[u] \in SUBSET Tokens /\ Covered(u, None) \in SUBSET Tokens
    BY DEF Covered, TypeOK
  <2>2. \A H, P \in SUBSET Tokens :
          [Idle EXCEPT !.stage = "userDevices", !.user = u,
                       !.hashes = H, !.promised = P] \in Request
    BY RevokeUserType
  <2>3. req' \in [Requests -> Request]
    BY <1>3, <2>1, <2>2, ReqType DEF LogoutUser
  <2> QED BY <1>3, <2>3 DEF LogoutUser, TypeOK, index, history
<1>4. ASSUME DeleteUserDevices(r, o) PROVE TypeOK'
  <2>1. req[r].stage = "userDevices"
    BY <1>4, CallType DEF DeleteUserDevices
  <2>2. userDevices[req[r].user] \in SUBSET Devices
    BY <1>0, <2>1, HeldType DEF RevokeStages, TypeOK
  <2>3. req' \in [Requests -> Request]
    BY <1>0, <1>4, <2>1, <2>2, UserTxType, IdleType, AnswerType
    DEF DeleteUserDevices
  <2> QED
    BY <1>4, <2>3, CallType DEF DeleteUserDevices, TypeOK, index, history
<1>5. ASSUME DeleteUserTx(r, o) PROVE TypeOK'
  <2> DEFINE u == req[r].user
             D == req[r].devices
  <2>1. u \in Users
    BY <1>0, <1>5, CallType, HeldType DEF DeleteUserTx, RevokeStages
  <2>2. req' \in [Requests -> Request]
    BY <1>0, <1>5, IdleType, AnswerType DEF DeleteUserTx, Return
  <2>3. store' \in [Tokens -> Stored \cup {None}]
    BY <1>5, WithoutType DEF DeleteUserTx, TypeOK
  <2>4. escape' \in [Tokens -> SUBSET Causes]
    BY <1>5, EscapingType DEF DeleteUserTx, TypeOK, Causes
  <2>5. /\ userSessions' \in [Users -> SUBSET Tokens]
        /\ userDevices' \in [Users -> SUBSET Devices]
    BY <1>5, <2>1 DEF DeleteUserTx, TypeOK
  <2>6. deviceSessions' \in [Users -> [Devices -> SUBSET Tokens]]
    <3> DEFINE f == [d \in Devices |-> IF d \in D THEN {}
                                     ELSE deviceSessions[u][d]]
    <3>1. f \in [Devices -> SUBSET Tokens]
      BY <2>1 DEF TypeOK
    <3>2. deviceSessions' \in {deviceSessions, [deviceSessions EXCEPT ![u] = f]}
      BY <1>5 DEF DeleteUserTx
    <3> HIDE DEF f
    <3> QED BY <2>1, <3>1, <3>2 DEF TypeOK
  <2>7. revoked' \subseteq Tokens
    BY <1>0, <1>5, HeldType DEF DeleteUserTx, Return, TypeOK
  <2> QED
    BY <1>5, <2>2, <2>3, <2>4, <2>5, <2>6, <2>7, CallType
    DEF DeleteUserTx, TypeOK
<1> QED BY <1>1, <1>2, <1>3, <1>4, <1>5

LEMMA TypeTick ==
  ASSUME TypeOK, Tick
  PROVE  TypeOK'
<1>1. clock' \in 1..MaxClock
  BY BoundsAssumption DEF Tick, TypeOK
<1>2. store' \in [Tokens -> Stored \cup {None}]
  BY DEF Tick, TypeOK
<1>3. IndexType'
  BY DEF Tick, TypeOK, IndexType
<1> QED BY <1>1, <1>2, <1>3 DEF Tick, TypeOK, IndexType, history

LEMMA TypeCrash ==
  ASSUME TypeOK, Crash
  PROVE  TypeOK'
<1>1. req' \in [Requests -> Request]
  BY IdleType DEF Crash
<1> QED BY <1>1, BoundsAssumption DEF Crash, TypeOK, index, history

LEMMA TypeNext == TypeOK /\ [Next]_vars => TypeOK'
<1> SUFFICES ASSUME TypeOK, [Next]_vars PROVE TypeOK'
  OBVIOUS
<1>1. CASE \E r \in Requests : Local(r)
  <2>1. "ok" \in Outcomes
    BY DEF Outcomes
  <2> QED BY <1>1, <2>1, TypeLogin, TypeAuthenticate, TypeRevoke DEF Local
<1>2. CASE \E r \in Requests, o \in Outcomes : Write(r, o)
  BY <1>2, TypeLogin, TypeAuthenticate, TypeRevoke DEF Write
<1>3. CASE Tick
  BY <1>3, TypeTick
<1>4. CASE Crash
  BY <1>4, TypeCrash
<1>5. CASE UNCHANGED vars
  BY <1>5 DEF vars, index, history, TypeOK
<1> QED BY <1>1, <1>2, <1>3, <1>4, <1>5 DEF Next

\* Type correctness of SessionRealm.
THEOREM TypeCorrect == Spec => []TypeOK
  BY TypeInit, TypeNext, PTL DEF Spec

-----------------------------------------------------------------------------
(* What a step may not undo: who a token was issued for, the races it went *)
(* through, and that a deleted session is gone.                            *)

Preserved ==
  /\ clock \in Nat /\ clock' \in Nat /\ clock <= clock'
  /\ issued \subseteq issued'
  /\ \A t \in Tokens :
       /\ owner[t] # None => owner'[t] = owner[t]
       /\ escape[t] \subseteq escape'[t]
       /\ t \in issued /\ Gone(t) => Gone(t)'

\* A login in progress keeps its token to itself.
Undisturbed(q) ==
  LoggingIn(q) =>
    /\ req[q].session.token \notin issued'
    /\ req[q].session.token \in Tokens =>
         owner'[req[q].session.token] = owner[req[q].session.token]

LEMMA UntouchedRequest ==
  ASSUME TypeOK, NEW q \in Requests, req'[q] = req[q], Preserved,
         Undisturbed(q), RequestOK(q), SnapshotOK(q), OwnerInv
  PROVE  RequestOK(q)' /\ SnapshotOK(q)'
<1>0. req[q] \in Request
  BY DEF TypeOK
<1>1. LoggingIn(q)' => 
         LET s == req[q].session IN
         /\ s.token \notin issued'
         /\ s.data.at <= clock'
         /\ s.data.deadline = s.data.at + Lifetime
         /\ s.token # None => owner'[s.token] \in {None, s.data}
         /\ req[q].stage # "commit" => owner'[s.token] = s.data
  <2> SUFFICES ASSUME LoggingIn(q)
               PROVE  LET s == req[q].session IN
                      /\ s.token \notin issued'
                      /\ s.data.at <= clock'
                      /\ s.data.deadline = s.data.at + Lifetime
                      /\ s.token # None => owner'[s.token] \in {None, s.data}
                      /\ req[q].stage # "commit" => owner'[s.token] = s.data
    BY DEF LoggingIn
  <2> DEFINE s == req[q].session
  <2>1. /\ s \in Session
        /\ s.data.at \in Nat
        /\ s.token \in Tokens \cup {None}
        /\ req[q].stage # "commit" => s.token \in Tokens
    BY <1>0, HeldType, SessionType DEF LoggingIn, LoginStages
  <2>2. /\ s.data.at <= clock
        /\ s.data.deadline = s.data.at + Lifetime
        /\ s.token # None => owner[s.token] \in {None, s.data}
        /\ req[q].stage # "commit" => owner[s.token] = s.data
    BY DEF RequestOK
  <2>3. s.data.at <= clock'
    BY <2>1, <2>2 DEF Preserved
  <2> QED BY <2>1, <2>2, <2>3 DEF Undisturbed
<1>2. \A t \in issued : t \in issued' /\ owner'[t] = owner[t]
  BY DEF Preserved, OwnerInv, TypeOK
<1>3. Carrying(q)' =>
         LET s == req[q].session IN
         s.token \in issued' /\ owner'[s.token] = s.data
  BY <1>2 DEF RequestOK, Carrying
<1>4. \A t \in issued : Gone(t) => Gone(t)'
  BY DEF Preserved, TypeOK
<1>5. req[q].stage = "unindex" => Gone(req[q].session.token)'
  BY <1>4 DEF RequestOK, Carrying, CarryStages
<1>6. req[q].old # None =>
         LET s == req[q].old IN
         s.token \in issued' /\ owner'[s.token] = s.data /\ Gone(s.token)'
  BY <1>2, <1>4 DEF RequestOK
<1>7. RequestOK(q)'
  BY <1>1, <1>3, <1>5, <1>6 DEF RequestOK, Gone
<1>8. SnapshotOK(q)'
  <2>1. req[q].hashes \subseteq Tokens /\ req[q].promised \subseteq Tokens
    BY <1>0, HeldType
  <2> QED BY <2>1 DEF SnapshotOK, Preserved
<1> QED BY <1>7, <1>8

LEMMA RequestStep ==
  ASSUME TypeOK, OwnerInv, RequestInv, Preserved, NEW r \in Requests,
         \A q \in Requests : q # r => req'[q] = req[q] /\ Undisturbed(q),
         RequestOK(r)', SnapshotOK(r)',
         LoggingIn(r)' /\ req'[r].session.token # None =>
           \A q \in Requests : q # r /\ LoggingIn(q) =>
              req[q].session.token # req'[r].session.token
  PROVE  RequestInv'
<1>1. ASSUME NEW q \in Requests PROVE RequestOK(q)' /\ SnapshotOK(q)'
  BY UntouchedRequest DEF RequestInv
<1>2. ASSUME NEW p \in Requests, NEW q \in Requests PROVE Exclusive(p, q)'
  <2>1. Exclusive(p, q)
    BY DEF RequestInv
  <2> QED BY <2>1 DEF Exclusive, LoggingIn
<1> QED BY <1>1, <1>2 DEF RequestInv

LEMMA IdleOK ==
  ASSUME NEW r \in Requests, req'[r] = Idle
  PROVE  RequestOK(r)' /\ SnapshotOK(r)' /\ ~LoggingIn(r)'
  BY DEF RequestOK, SnapshotOK, LoggingIn, Carrying, Idle, LoginStages,
         CarryStages

\* The parts of the invariant that do not look at req.
DataInv ==
  /\ OwnerInv
  /\ ReachableByUser
  /\ ReachableByDevice
  /\ RevocationHolds
  /\ DeadlineKept

LEMMA DataUnchanged ==
  ASSUME DataInv, UNCHANGED <<clock, store, index, history>>
  PROVE  DataInv'
  BY DEF DataInv, OwnerInv, ReachableByUser, ReachableByDevice,
         RevocationHolds, DeadlineKept, Live, index, history

LEMMA DeleteKeepsData ==
  ASSUME TypeOK, DataInv, NEW S, store' = Without(S),
         UNCHANGED <<clock, index, history>>
  PROVE  DataInv'
<1>1. \A t \in Tokens : store'[t] # None => store'[t] = store[t]
  BY DEF Without
<1>2. \A t \in revoked : store[t] = None => store'[t] = None
  BY DEF TypeOK, Without
<1>3. OwnerInv'
  BY <1>1 DEF DataInv, OwnerInv, index, history
<1>4. ReachableByUser' /\ ReachableByDevice'
  BY <1>1 DEF DataInv, ReachableByUser, ReachableByDevice, Live, index, history
<1>5. RevocationHolds'
  BY <1>2 DEF DataInv, RevocationHolds, history
<1>6. DeadlineKept'
  BY <1>1 DEF DataInv, DeadlineKept, history
<1> QED BY <1>3, <1>4, <1>5, <1>6 DEF DataInv

LEMMA DeletePreserves ==
  ASSUME TypeOK, store' = store \/ \E S : store' = Without(S),
         UNCHANGED <<clock, history>>
  PROVE  Preserved
  BY DEF TypeOK, Preserved, Without, Gone, history

LEMMA QuietUndisturbed ==
  ASSUME NEW q \in Requests, RequestOK(q), UNCHANGED <<issued, owner>>
  PROVE  Undisturbed(q)
  BY DEF RequestOK, Undisturbed

-----------------------------------------------------------------------------
(* Each action preserves the inductive invariant                           *)

\* A step that moves one request only.
LEMMA LocalStep ==
  ASSUME TypeOK, DataInv, RequestInv, NEW r \in Requests,
         \A q \in Requests : q # r => req'[q] = req[q],
         UNCHANGED <<clock, store, index, history>>,
         RequestOK(r)', SnapshotOK(r)',
         LoggingIn(r)' => req'[r].session.token = None
  PROVE  DataInv' /\ RequestInv'
<1>1. Preserved
  BY DeletePreserves
<1>2. \A q \in Requests : Undisturbed(q)
  BY QuietUndisturbed DEF RequestInv, history
<1> QED BY <1>1, <1>2, RequestStep, DataUnchanged DEF DataInv

LEMMA InvLoginBegin ==
  ASSUME TypeOK, DataInv, RequestInv, NEW r \in Requests,
         NEW u \in Users, NEW d \in Devices, LoginBegin(r, u, d)
  PROVE  DataInv' /\ RequestInv'
<1> DEFINE s == [token |-> None, data |-> NewPayload(u, d)]
           q == [Idle EXCEPT !.stage = "commit", !.session = s]
<1>1. /\ req'[r] = q
      /\ \A p \in Requests : p # r => req'[p] = req[p]
  BY StepOf DEF LoginBegin
<1>2. /\ q.stage = "commit" /\ q.session = s /\ q.old = None
      /\ q.hashes = {} /\ q.promised = {}
  BY DEF Idle
<1>3. /\ s.token = None
      /\ s.data.at = clock
      /\ s.data.deadline = clock + Lifetime
  BY DEF NewPayload
<1> HIDE DEF q, s
<1>4. None \notin issued /\ clock' = clock /\ clock \in Nat /\ issued' = issued
  BY NoneAssumption DEF TypeOK, LoginBegin, history
<1>5. RequestOK(r)' /\ SnapshotOK(r)'
  BY <1>1, <1>2, <1>3, <1>4
  DEF RequestOK, SnapshotOK, LoggingIn, Carrying, LoginStages, CarryStages
<1> QED BY <1>1, <1>2, <1>3, <1>5, LocalStep DEF LoginBegin

LEMMA InvAuthenticateLoad ==
  ASSUME TypeOK, DataInv, RequestInv, NEW r \in Requests,
         NEW t \in Tokens, AuthenticateLoad(r, t)
  PROVE  DataInv' /\ RequestInv'
<1> DEFINE s == [token |-> t, data |-> store[t].data]
           q == [Idle EXCEPT !.stage = "touch", !.session = s]
<1>1. /\ req'[r] = q
      /\ \A p \in Requests : p # r => req'[p] = req[p]
  BY StepOf DEF AuthenticateLoad
<1>2. /\ q.stage = "touch" /\ q.session = s /\ q.old = None
      /\ q.hashes = {} /\ q.promised = {}
  BY DEF Idle
<1>3. s.token = t /\ s.data = store[t].data
  OBVIOUS
<1> HIDE DEF q, s
<1>4. t \in issued' /\ owner'[t] = store[t].data
  BY DEF AuthenticateLoad, DataInv, OwnerInv, history
<1>5. RequestOK(r)' /\ SnapshotOK(r)' /\ ~LoggingIn(r)'
  BY <1>1, <1>2, <1>3, <1>4
  DEF RequestOK, SnapshotOK, LoggingIn, Carrying, LoginStages, CarryStages
<1> QED BY <1>1, <1>5, LocalStep DEF AuthenticateLoad

LEMMA InvEndRequest ==
  ASSUME TypeOK, DataInv, RequestInv, NEW r \in Requests, EndRequest(r)
  PROVE  DataInv' /\ RequestInv'
<1>1. /\ req'[r] = Idle
      /\ \A p \in Requests : p # r => req'[p] = req[p]
  BY StepOf DEF EndRequest
<1> QED BY <1>1, IdleOK, LocalStep DEF EndRequest

LEMMA InvLogoutDevice ==
  ASSUME TypeOK, DataInv, RequestInv, NEW r \in Requests,
         NEW u \in Users, NEW d \in Devices, LogoutDevice(r, u, d)
  PROVE  DataInv' /\ RequestInv'
<1> DEFINE H == deviceSessions[u][d]
           P == Covered(u, d)
           q == [Idle EXCEPT !.stage = "deviceTx", !.user = u, !.device = d,
                             !.hashes = H, !.promised = P]
<1>1. /\ req'[r] = q
      /\ \A p \in Requests : p # r => req'[p] = req[p]
  BY StepOf DEF LogoutDevice
<1>2. /\ q.stage = "deviceTx" /\ q.old = None /\ q.user = u
      /\ q.device = d /\ q.hashes = H /\ q.promised = P
  BY DEF Idle
<1>3. \A t \in H : owner[t] # None /\ owner[t].user = u /\ owner[t].device = d
  BY DEF DataInv, OwnerInv, TypeOK
<1>4. ASSUME NEW t \in P PROVE t \in issued /\ (t \in H \/ escape[t] # {})
  <2>1. /\ t \in issued /\ t \in Tokens /\ store[t] # None
        /\ store[t].data.user = u
        /\ store[t].data.device = d
    BY NoneAssumption DEF Covered, TypeOK
  <2> QED BY <2>1 DEF DataInv, ReachableByDevice, Live
<1> HIDE DEF q, H, P
<1>5. RequestOK(r)' /\ SnapshotOK(r)' /\ ~LoggingIn(r)'
  BY <1>1, <1>2, <1>3, <1>4
  DEF RequestOK, SnapshotOK, LoggingIn, Carrying, LoginStages, CarryStages,
      LogoutDevice, history
<1> QED BY <1>1, <1>5, LocalStep DEF LogoutDevice

LEMMA InvLogoutUser ==
  ASSUME TypeOK, DataInv, RequestInv, NEW r \in Requests,
         NEW u \in Users, LogoutUser(r, u)
  PROVE  DataInv' /\ RequestInv'
<1> DEFINE H == userSessions[u]
           P == Covered(u, None)
           q == [Idle EXCEPT !.stage = "userDevices", !.user = u,
                             !.hashes = H, !.promised = P]
<1>1. /\ req'[r] = q
      /\ \A p \in Requests : p # r => req'[p] = req[p]
  BY StepOf DEF LogoutUser
<1>2. /\ q.stage = "userDevices" /\ q.old = None /\ q.user = u
      /\ q.device = None /\ q.hashes = H /\ q.promised = P
  BY DEF Idle
<1>3. \A t \in H : owner[t] # None /\ owner[t].user = u
  BY DEF DataInv, OwnerInv, TypeOK
<1>4. ASSUME NEW t \in P PROVE t \in issued /\ (t \in H \/ escape[t] # {})
  <2>1. /\ t \in issued /\ t \in Tokens /\ store[t] # None
        /\ store[t].data.user = u
    BY DEF Covered, TypeOK
  <2> QED BY <2>1 DEF DataInv, ReachableByUser, Live
<1> HIDE DEF q, H, P
<1>5. RequestOK(r)' /\ SnapshotOK(r)' /\ ~LoggingIn(r)'
  BY <1>1, <1>2, <1>3, <1>4
  DEF RequestOK, SnapshotOK, LoggingIn, Carrying, LoginStages, CarryStages,
      LogoutUser, history
<1> QED BY <1>1, <1>5, LocalStep DEF LogoutUser

LEMMA InvDeleteUserDevices ==
  ASSUME TypeOK, DataInv, RequestInv, NEW r \in Requests, NEW o \in Outcomes,
         DeleteUserDevices(r, o)
  PROVE  DataInv' /\ RequestInv'
<1> DEFINE q == [req[r] EXCEPT !.stage = "userTx",
                               !.devices = userDevices[req[r].user]]
<1>1. /\ req[r] \in Request
      /\ req[r].stage = "userDevices"
      /\ clock' = clock
  BY CallType DEF DeleteUserDevices, TypeOK
<1>2. /\ \A p \in Requests : p # r => req'[p] = req[p]
      /\ req'[r] = q \/ req'[r] = Idle
  BY AnswerStep DEF DeleteUserDevices
<1>3. RequestOK(r)' /\ SnapshotOK(r)' /\ ~LoggingIn(r)'
  <2>1. CASE req'[r] = q
    <3>1. /\ q.stage = "userTx" /\ q.old = req[r].old
          /\ q.user = req[r].user /\ q.device = req[r].device
          /\ q.hashes = req[r].hashes /\ q.promised = req[r].promised
      BY <1>1 DEF Request, RequestRecord
    <3>2. RequestOK(r) /\ SnapshotOK(r)
      BY DEF RequestInv
    <3> HIDE DEF q
    <3> QED
      BY <2>1, <3>1, <3>2
      DEF RequestOK, SnapshotOK, LoggingIn, Carrying, LoginStages,
          CarryStages, DeleteUserDevices, history, Gone
  <2> QED BY <1>2, <2>1, IdleOK
<1> QED BY <1>1, <1>2, <1>3, LocalStep DEF DeleteUserDevices

\* A step that deletes sessions and leaves the index alone.
LEMMA DeleteStep ==
  ASSUME TypeOK, DataInv, RequestInv, NEW r \in Requests,
         \A q \in Requests : q # r => req'[q] = req[q],
         store' = store \/ \E S : store' = Without(S),
         UNCHANGED <<clock, index, history>>,
         RequestOK(r)', SnapshotOK(r)',
         LoggingIn(r)' /\ req'[r].session.token # None =>
           \A q \in Requests : q # r /\ LoggingIn(q) =>
              req[q].session.token # req'[r].session.token
  PROVE  DataInv' /\ RequestInv'
<1>1. Preserved
  BY DeletePreserves
<1>2. \A q \in Requests : Undisturbed(q)
  BY QuietUndisturbed DEF RequestInv, history
<1>3. RequestInv'
  BY <1>1, <1>2, RequestStep DEF DataInv
<1> QED BY <1>3, DataUnchanged, DeleteKeepsData

LEMMA InvLoginRotate ==
  ASSUME TypeOK, DataInv, RequestInv, NEW r \in Requests, NEW o \in Outcomes,
         NEW u \in Users, NEW d \in Devices, LoginRotate(r, u, d, o)
  PROVE  DataInv' /\ RequestInv'
<1>1. PICK t \in Fresh :
        Answer(r, o,
               [req[r] EXCEPT !.stage = "renew", !.user = u, !.device = d],
               [Idle EXCEPT !.stage = "commit",
                            !.session = [token |-> t,
                                         data |-> NewPayload(u, d)],
                            !.old = req[r].session],
               Idle)
  BY DEF LoginRotate
<1> DEFINE s == [token |-> t, data |-> NewPayload(u, d)]
           w == [req[r] EXCEPT !.stage = "renew", !.user = u, !.device = d]
           q == [Idle EXCEPT !.stage = "commit", !.session = s,
                             !.old = req[r].session]
<1>2. /\ req[r] \in Request
      /\ req[r].stage \in {"authed", "renew"}
      /\ clock' = clock
  BY CallType DEF LoginRotate, TypeOK
<1>3. RequestOK(r) /\ SnapshotOK(r)
  BY DEF RequestInv
<1>4. /\ \A p \in Requests : p # r => req'[p] = req[p]
      /\ \/ o = "ok" /\ req'[r] = q
         \/ o = "again" /\ req'[r] = w
         \/ req'[r] = Idle
  <2>1. Answer(r, o, w, q, Idle)
    BY <1>1
  <2> HIDE DEF q, w
  <2> QED BY <2>1, AnswerStep
<1>5. UNCHANGED <<index, history>>
  BY DEF LoginRotate
<1>6. CASE o = "ok" /\ req'[r] = q
  <2>1. /\ q.stage = "commit" /\ q.session = s /\ q.old = req[r].session
        /\ q.hashes = {} /\ q.promised = {}
    BY DEF Idle
  <2>2. /\ s.token = t
        /\ s.data.at = clock
        /\ s.data.deadline = clock + Lifetime
    BY DEF NewPayload
  <2>3. /\ t \in Tokens /\ owner[t] = None
        /\ \A p \in Requests : req[p].session # None => req[p].session.token # t
    BY DEF Fresh
  <2>4. t \notin issued
    BY <2>3 DEF DataInv, OwnerInv
  <2>5. /\ req[r].session.token \in Tokens
        /\ req[r].session.token \in issued
        /\ owner[req[r].session.token] = req[r].session.data
    BY <1>2, <1>3, HeldType DEF RequestOK, Carrying, CarryStages
  <2>6. store'[req[r].session.token] = None
    BY <1>6, <2>5 DEF LoginRotate, Done, Without
  <2> HIDE DEF q, s
  <2>7. RequestOK(r)' /\ SnapshotOK(r)' /\ req'[r].session.token = t
    BY <1>2, <1>5, <1>6, <2>1, <2>2, <2>3, <2>4, <2>5, <2>6
    DEF RequestOK, SnapshotOK, LoggingIn, Carrying, LoginStages, CarryStages,
        TypeOK, history, Gone
  <2>8. \A p \in Requests : LoggingIn(p) => req[p].session.token # t
    BY <2>3, HeldType, SessionType DEF LoggingIn, TypeOK
  <2> QED BY <1>2, <1>4, <1>5, <2>7, <2>8, DeleteStep DEF LoginRotate
<1>7. CASE o = "again" /\ req'[r] = w
  <2>1. /\ w.stage = "renew" /\ w.old = req[r].old
        /\ w.session = req[r].session
        /\ w.hashes = {} /\ w.promised = {}
    BY <1>2 DEF Request, RequestRecord, Ready, RevokeStages
  <2> HIDE DEF w
  <2>2. \A t2 \in Tokens : Gone(t2) => Gone(t2)'
    BY <1>5 DEF LoginRotate, Without, Gone, history
  <2>3. RequestOK(r)' /\ SnapshotOK(r)' /\ ~LoggingIn(r)'
    BY <1>2, <1>3, <1>5, <1>7, <2>1, <2>2, HeldType
    DEF RequestOK, SnapshotOK, LoggingIn, Carrying, LoginStages, CarryStages,
        history
  <2> QED BY <1>2, <1>4, <1>5, <2>3, DeleteStep DEF LoginRotate
<1>8. CASE req'[r] = Idle
  BY <1>2, <1>4, <1>5, <1>8, IdleOK, DeleteStep DEF LoginRotate
<1> QED BY <1>4, <1>6, <1>7, <1>8

LEMMA InvLoginUndo ==
  ASSUME TypeOK, DataInv, RequestInv, NEW r \in Requests, NEW o \in Outcomes,
         LoginUndo(r, o)
  PROVE  DataInv' /\ RequestInv'
<1>1. /\ req[r] \in Request
      /\ req[r].stage = "undo"
      /\ clock' = clock
  BY CallType DEF LoginUndo, TypeOK
<1>2. /\ \A p \in Requests : p # r => req'[p] = req[p]
      /\ req'[r] = req[r] \/ req'[r] = Idle
  BY AnswerStep DEF LoginUndo
<1>3. /\ store' = store \/ \E S : store' = Without(S)
      /\ UNCHANGED <<index, history>>
  BY DEF LoginUndo
<1>4. CASE req'[r] = Idle
  BY <1>1, <1>2, <1>3, <1>4, IdleOK, DeleteStep
<1>5. CASE req'[r] = req[r]
  <2>1. /\ RequestOK(r) /\ SnapshotOK(r)
        /\ \A q \in Requests : Exclusive(q, r)
    BY DEF RequestInv
  <2>2. Preserved
    BY <1>1, <1>3, DeletePreserves
  <2>3. Undisturbed(r)
    BY <1>3, <2>1, QuietUndisturbed DEF history
  <2>4. RequestOK(r)' /\ SnapshotOK(r)'
    BY <1>5, <2>1, <2>2, <2>3, UntouchedRequest DEF DataInv
  <2>5. req[r].session.token # None
    BY <1>1, HeldType, NoneAssumption
  <2>6. \A q \in Requests : q # r /\ LoggingIn(q) =>
              req[q].session.token # req'[r].session.token
    BY <1>1, <1>5, <2>1, <2>5 DEF Exclusive, LoggingIn, LoginStages
  <2> QED BY <1>1, <1>2, <1>3, <2>4, <2>6, DeleteStep
<1> QED BY <1>2, <1>4, <1>5

LEMMA InvLogoutCurrentDestroy ==
  ASSUME TypeOK, DataInv, RequestInv, NEW r \in Requests, NEW o \in Outcomes,
         LogoutCurrentDestroy(r, o)
  PROVE  DataInv' /\ RequestInv'
<1> DEFINE w == [req[r] EXCEPT !.stage = "destroy"]
           q == [req[r] EXCEPT !.stage = "unindex"]
<1>1. /\ req[r] \in Request
      /\ req[r].stage \in {"authed", "destroy"}
      /\ clock' = clock
  BY CallType DEF LogoutCurrentDestroy, TypeOK
<1>2. /\ \A p \in Requests : p # r => req'[p] = req[p]
      /\ \/ o = "ok" /\ req'[r] = q
         \/ o = "again" /\ req'[r] = w
         \/ req'[r] = Idle
  BY AnswerStep DEF LogoutCurrentDestroy
<1>3. /\ store' = store \/ \E S : store' = Without(S)
      /\ UNCHANGED <<index, history>>
  BY DEF LogoutCurrentDestroy
<1>4. CASE req'[r] = Idle
  BY <1>1, <1>2, <1>3, <1>4, IdleOK, DeleteStep
<1>5. CASE o \in {"ok", "again"} /\ req'[r] \in {q, w}
  <2>1. /\ req'[r].stage = IF o = "ok" THEN "unindex" ELSE "destroy"
        /\ req'[r].session = req[r].session /\ req'[r].old = req[r].old
        /\ req'[r].hashes = {} /\ req'[r].promised = {}
    BY <1>1, <1>2, <1>5 DEF Request, RequestRecord, Ready, RevokeStages, Idle
  <2>2. RequestOK(r)
    BY DEF RequestInv
  <2>3. /\ req[r].session.token \in Tokens
        /\ req[r].session.token \in issued
        /\ owner[req[r].session.token] = req[r].session.data
    BY <1>1, <2>2, HeldType DEF RequestOK, Carrying, CarryStages
  <2>4. store'[req[r].session.token] = None
    BY <1>5, <2>3 DEF LogoutCurrentDestroy, Done, Without
  <2>5. \A t \in Tokens : Gone(t) => Gone(t)'
    BY <1>3 DEF Without, Gone, history
  <2>6. req[r].old # None => req[r].old.token \in Tokens
    BY <1>1, HeldType
  <2>7. RequestOK(r)' /\ SnapshotOK(r)' /\ ~LoggingIn(r)'
    BY <1>3, <2>1, <2>2, <2>3, <2>4, <2>5, <2>6
    DEF RequestOK, SnapshotOK, LoggingIn, Carrying, LoginStages, CarryStages,
        history, Gone
  <2> QED BY <1>1, <1>2, <1>3, <2>7, DeleteStep
<1> QED BY <1>2, <1>4, <1>5

\* index.remove takes entries of a token away only after that session is gone.
LEMMA RemoveKeepsData ==
  ASSUME TypeOK, DataInv, NEW s \in Session, s.token \in issued,
         owner[s.token] = s.data, Gone(s.token),
         RemoveFromIndex(s) \/ UNCHANGED index,
         UNCHANGED <<clock, store, issued, owner, escape>>,
         revoked' \in {revoked, revoked \cup {s.token}}
  PROVE  DataInv'
<1> DEFINE k == s.token
           a == s.data.user
           b == s.data.device
<1>1. /\ a \in Users /\ b \in Devices /\ k \in Tokens /\ k \in issued
      /\ owner[k].user = a /\ owner[k].device = b
      /\ Gone(k)
  BY SessionType DEF TypeOK
<1>2. /\ UNCHANGED <<userDevices, userTTL, deviceTTL>>
      /\ \A u \in Users : userSessions'[u] \subseteq userSessions[u]
      /\ \A u \in Users, d \in Devices :
           deviceSessions'[u][d] \subseteq deviceSessions[u][d]
      /\ \A u \in Users, t \in Tokens :
           t # k /\ t \in userSessions[u] => t \in userSessions'[u]
      /\ \A u \in Users, d \in Devices, t \in Tokens :
           t # k /\ t \in deviceSessions[u][d] => t \in deviceSessions'[u][d]
  <2>1. CASE UNCHANGED index
    BY <2>1 DEF index
  <2>2. CASE RemoveFromIndex(s)
    <3>1. /\ userSessions' = [userSessions EXCEPT ![a] = @ \ {k}]
          /\ deviceSessions' = [deviceSessions EXCEPT ![a][b] = @ \ {k}]
          /\ UNCHANGED <<userDevices, userTTL, deviceTTL>>
      BY <2>2 DEF RemoveFromIndex
    <3> HIDE DEF k, a, b
    <3>2. /\ userSessions \in [Users -> SUBSET Tokens]
          /\ deviceSessions \in [Users -> [Devices -> SUBSET Tokens]]
      BY DEF TypeOK
    <3>3. /\ \A u \in Users : userSessions'[u] \subseteq userSessions[u]
          /\ \A u \in Users, t \in Tokens :
               t # k /\ t \in userSessions[u] => t \in userSessions'[u]
      BY <1>1, <3>1, <3>2
    <3>4. ASSUME NEW u \in Users, NEW d \in Devices
          PROVE  /\ deviceSessions'[u][d] \subseteq deviceSessions[u][d]
                 /\ \A t \in Tokens : t # k /\ t \in deviceSessions[u][d]
                      => t \in deviceSessions'[u][d]
      BY <1>1, <3>1, <3>2
    <3> QED BY <3>1, <3>3, <3>4
  <2> QED BY <2>1, <2>2
<1> HIDE DEF k, a, b
<1>3. revoked' \in {revoked, revoked \cup {k}}
  BY DEF k
<1>4. OwnerInv'
  <2>1. \A t \in Tokens :
         /\ store'[t] # None => store'[t].data = owner'[t]
         /\ t \in issued' => owner'[t] # None
         /\ t \in revoked' => t \in issued'
         /\ owner'[t] # None =>
              /\ owner'[t].at <= clock'
              /\ owner'[t].deadline = owner'[t].at + Lifetime
    BY <1>1, <1>3 DEF DataInv, OwnerInv
  <2> QED BY <1>2, <2>1 DEF DataInv, OwnerInv
<1>5. Live(k) => "revived" \in escape[k] \/ "late" \in escape[k]
  BY <1>1 DEF Gone, Live
<1>6. \A t \in Tokens : store[t] # None =>
         store[t].data.user \in Users /\ store[t].data.device \in Devices
  BY NoneAssumption DEF TypeOK, Stored, Payload
<1>7. ReachableByUser'
  BY <1>2, <1>5, <1>6 DEF DataInv, ReachableByUser, Live
<1>8. ReachableByDevice'
  BY <1>2, <1>5, <1>6 DEF DataInv, ReachableByDevice, Live
<1>9. RevocationHolds'
  BY <1>1, <1>3 DEF DataInv, RevocationHolds, Gone
<1>10. DeadlineKept'
  BY DEF DataInv, DeadlineKept
<1> QED BY <1>4, <1>7, <1>8, <1>9, <1>10 DEF DataInv

\* Steps that leave sessions and their histories alone preserve them.
LEMMA QuietPreserves ==
  ASSUME TypeOK, clock' = clock, UNCHANGED <<store, owner, escape>>,
         issued \subseteq issued'
  PROVE  Preserved
  BY DEF TypeOK, Preserved, Gone

LEMMA InvLoginRemoveOld ==
  ASSUME TypeOK, DataInv, RequestInv, NEW r \in Requests, NEW o \in Outcomes,
         LoginRemoveOld(r, o)
  PROVE  DataInv' /\ RequestInv'
<1>1. /\ req[r] \in Request
      /\ req[r].stage = "removeOld"
      /\ clock' = clock
  BY CallType DEF LoginRemoveOld, TypeOK
<1>2. /\ \A p \in Requests : p # r => req'[p] = req[p]
      /\ req'[r] = req[r] \/ req'[r] = Idle
  BY AnswerStep DEF LoginRemoveOld
<1>3. RequestOK(r) /\ SnapshotOK(r)
  BY DEF RequestInv
<1>4. DataInv'
  <2>1. req[r].old \in Session /\ req[r].old # None
    BY <1>1, HeldType, NoneAssumption
  <2> QED
    BY <1>1, <1>3, <2>1, RemoveKeepsData DEF LoginRemoveOld, RequestOK
<1>5. Preserved
  BY <1>1, QuietPreserves DEF LoginRemoveOld
<1>6. \A q \in Requests : Undisturbed(q)
  BY QuietUndisturbed DEF RequestInv, LoginRemoveOld
<1>7. RequestOK(r)' /\ SnapshotOK(r)' /\ ~LoggingIn(r)'
  <2>1. ~LoggingIn(r)
    BY <1>1 DEF LoggingIn, LoginStages
  <2>2. CASE req'[r] = req[r]
    BY <1>3, <1>5, <1>6, <2>1, <2>2, UntouchedRequest
    DEF DataInv, LoggingIn
  <2> QED BY <1>2, <2>2, IdleOK
<1> QED BY <1>2, <1>4, <1>5, <1>6, <1>7, RequestStep DEF DataInv

LEMMA InvLogoutCurrentUnindex ==
  ASSUME TypeOK, DataInv, RequestInv, NEW r \in Requests, NEW o \in Outcomes,
         LogoutCurrentUnindex(r, o)
  PROVE  DataInv' /\ RequestInv'
<1>1. /\ req[r] \in Request
      /\ req[r].stage = "unindex"
      /\ clock' = clock
  BY CallType DEF LogoutCurrentUnindex, TypeOK
<1>2. /\ \A p \in Requests : p # r => req'[p] = req[p]
      /\ req'[r] = req[r] \/ req'[r] = Idle
  BY AnswerStep DEF LogoutCurrentUnindex
<1>3. RequestOK(r) /\ SnapshotOK(r)
  BY DEF RequestInv
<1>4. DataInv'
  <2>1. req[r].session \in Session
    BY <1>1, HeldType DEF CarryStages
  <2> QED
    BY <1>1, <1>3, <2>1, RemoveKeepsData
    DEF LogoutCurrentUnindex, RequestOK, Carrying, CarryStages
<1>5. Preserved
  BY <1>1, QuietPreserves DEF LogoutCurrentUnindex
<1>6. \A q \in Requests : Undisturbed(q)
  BY QuietUndisturbed DEF RequestInv, LogoutCurrentUnindex
<1>7. RequestOK(r)' /\ SnapshotOK(r)' /\ ~LoggingIn(r)'
  <2>1. ~LoggingIn(r)
    BY <1>1 DEF LoggingIn, LoginStages
  <2>2. CASE req'[r] = req[r]
    BY <1>3, <1>5, <1>6, <2>1, <2>2, UntouchedRequest
    DEF DataInv, LoggingIn
  <2> QED BY <1>2, <2>2, IdleOK
<1> QED BY <1>2, <1>4, <1>5, <1>6, <1>7, RequestStep DEF DataInv

\* A Commit stores what the token was, or is now, issued for.
LEMMA CommitKeepsData ==
  ASSUME TypeOK, DataInv, NEW t \in Tokens, NEW p \in Payload,
         owner[t] \in {None, p}, p.at <= clock, p.deadline = p.at + Lifetime,
         store' = [store EXCEPT ![t] = StoredNow(p)],
         owner' = [owner EXCEPT ![t] = p],
         escape' = IF Expiry(p) = 0 THEN Escaping({t}, "late")
                   ELSE IF t \in issued /\ store[t] = None
                   THEN Escaping({t}, "revived")
                   ELSE escape,
         UNCHANGED <<clock, index, issued, revoked>>
  PROVE  DataInv' /\ Preserved
<1>1. /\ \A x \in Tokens : x # t => /\ store'[x] = store[x]
                                     /\ owner'[x] = owner[x]
                                     /\ escape'[x] = escape[x]
      /\ owner'[t] = p
      /\ store'[t] = StoredNow(p)
      /\ store'[t] # None
  BY StoredNowType, NoneAssumption DEF TypeOK, Escaping
<1>2. /\ store'[t].data = p
      /\ Expiry(p) # 0 =>
           clock < store'[t].expiry /\ store'[t].expiry <= p.at + Lifetime
  BY <1>1, StoredNowType DEF StoredNow
<1>3. /\ escape[t] \subseteq escape'[t]
      /\ Expiry(p) = 0 => "late" \in escape'[t]
      /\ t \in issued /\ store[t] = None =>
           "late" \in escape'[t] \/ "revived" \in escape'[t]
  BY DEF TypeOK, Escaping
<1>4. p # None
  BY NoneAssumption
<1> HIDE DEF StoredNow
<1>5. OwnerInv'
  <2>1. \A x \in Tokens :
         /\ store'[x] # None => store'[x].data = owner'[x]
         /\ x \in issued' => owner'[x] # None
         /\ x \in revoked' => x \in issued'
         /\ owner'[x] # None =>
              /\ owner'[x].at <= clock'
              /\ owner'[x].deadline = owner'[x].at + Lifetime
    BY <1>1, <1>2, <1>4 DEF DataInv, OwnerInv
  <2>2. \A x \in Tokens : owner[x] # None => owner'[x] = owner[x]
    BY <1>1
  <2> QED BY <2>1, <2>2 DEF DataInv, OwnerInv, index
<1>6. t \in issued /\ store[t] # None => store'[t].data = store[t].data
  BY <1>2 DEF DataInv, OwnerInv
<1>7. \A x \in Tokens : escape[x] \subseteq escape'[x]
  BY <1>1, <1>3
<1>8. \A x \in Tokens :
         Live(x)' /\ (escape'[x] \subseteq {"deviceRace"})
           => /\ Live(x) /\ store'[x].data = store[x].data
              /\ escape[x] \subseteq escape'[x]
  <2> SUFFICES ASSUME NEW x \in Tokens, Live(x)', escape'[x] \subseteq {"deviceRace"}
               PROVE  Live(x) /\ store'[x].data = store[x].data
    BY <1>7
  <2>1. x \in issued /\ store'[x] # None
    BY DEF Live
  <2>2. CASE x = t
    BY <1>3, <1>6, <2>1, <2>2 DEF Live
  <2>3. CASE x # t
    BY <1>1, <2>1, <2>3 DEF Live
  <2> QED BY <2>2, <2>3
<1>9. ReachableByUser' /\ ReachableByDevice'
  <2>1. ReachableByUser'
    BY <1>8 DEF DataInv, ReachableByUser, index
  <2>2. ReachableByDevice'
    BY <1>8 DEF DataInv, ReachableByDevice, index
  <2> QED BY <2>1, <2>2
<1>10. RevocationHolds'
  <2>1. \A x \in revoked : x \in Tokens /\ x \in issued
    BY DEF DataInv, OwnerInv, TypeOK
  <2> QED BY ZenonT(40), <1>1, <1>3, <1>7, <2>1 DEF DataInv, RevocationHolds
<1>11. DeadlineKept'
  BY <1>1, <1>2, <1>3 DEF DataInv, DeadlineKept
<1>12. Preserved
  <2>1. \A x \in Tokens : owner[x] # None => owner'[x] = owner[x]
    BY <1>1
  <2>2. ASSUME NEW x \in Tokens, x \in issued, Gone(x) PROVE Gone(x)'
    BY <1>1, <1>3, <1>7, <2>2 DEF Gone
  <2>3. issued \subseteq Tokens /\ issued' = issued
    BY DEF TypeOK
  <2>4. clock \in Nat /\ clock' = clock /\ clock <= clock'
    BY BoundsAssumption DEF TypeOK
  <2> QED BY <1>7, <2>1, <2>2, <2>3, <2>4 DEF Preserved
<1> QED BY <1>5, <1>9, <1>10, <1>11, <1>12 DEF DataInv

LEMMA InvAuthenticateCommit ==
  ASSUME TypeOK, DataInv, RequestInv, NEW r \in Requests, NEW o \in Outcomes,
         AuthenticateCommit(r, o)
  PROVE  DataInv' /\ RequestInv'
<1> DEFINE t == req[r].session.token
           p == req[r].session.data
           q == [req[r] EXCEPT !.stage = "authed"]
<1>1. /\ req[r] \in Request
      /\ req[r].stage = "touch"
      /\ clock' = clock
  BY CallType DEF AuthenticateCommit, TypeOK
<1>2. /\ \A x \in Requests : x # r => req'[x] = req[x]
      /\ \/ o = "ok" /\ req'[r] = q
         \/ o = "again" /\ req'[r] = req[r]
         \/ req'[r] = Idle
  BY AnswerStep DEF AuthenticateCommit
<1>3. RequestOK(r) /\ SnapshotOK(r)
  BY DEF RequestInv
<1>4. /\ t \in Tokens /\ p \in Payload
      /\ t \in issued /\ owner[t] = p
  BY <1>1, <1>3, HeldType, SessionType DEF RequestOK, Carrying, CarryStages
<1>5. DataInv' /\ Preserved
  <2>1. CASE Done(o)
    <3>1. owner' = [owner EXCEPT ![t] = p]
      BY <1>4 DEF AuthenticateCommit, TypeOK
    <3>2. owner[t] # None /\ p.at <= clock /\ p.deadline = p.at + Lifetime
      BY <1>4, NoneAssumption DEF DataInv, OwnerInv
    <3>3. /\ store' = [store EXCEPT ![t] = StoredNow(p)]
          /\ escape' = IF Expiry(p) = 0 THEN Escaping({t}, "late")
                       ELSE IF t \in issued /\ store[t] = None
                       THEN Escaping({t}, "revived")
                       ELSE escape
          /\ UNCHANGED <<clock, index, issued, revoked>>
      BY <1>1, <1>4, <2>1 DEF AuthenticateCommit
    <3> HIDE DEF t, p
    <3> QED BY <1>4, <3>1, <3>2, <3>3, CommitKeepsData
  <2>2. CASE ~Done(o)
    <3>1. UNCHANGED <<clock, store, index, history>>
      BY <1>1, <2>2 DEF AuthenticateCommit, history
    <3> QED BY <3>1, DataUnchanged, DeletePreserves
  <2> QED BY <2>1, <2>2
<1>6. \A x \in Requests : Undisturbed(x)
  BY QuietUndisturbed DEF RequestInv, AuthenticateCommit
<1>7. RequestOK(r)' /\ SnapshotOK(r)' /\ ~LoggingIn(r)'
  <2>1. CASE req'[r] = q
    <3>1. /\ q.stage = "authed" /\ q.session = req[r].session
          /\ q.old = req[r].old /\ q.hashes = {} /\ q.promised = {}
      BY <1>1 DEF Request, RequestRecord, Ready, RevokeStages
    <3>2. req[r].old # None => req[r].old.token \in Tokens
      BY <1>1, HeldType
    <3> HIDE DEF q
    <3> QED
      BY <1>1, <1>3, <1>4, <1>5, <2>1, <3>1, <3>2
      DEF RequestOK, SnapshotOK, LoggingIn, Carrying, LoginStages,
          CarryStages, AuthenticateCommit, Preserved
  <2>2. CASE req'[r] = req[r]
    BY <1>1, <1>3, <1>5, <1>6, <2>2, UntouchedRequest
    DEF DataInv, LoggingIn, LoginStages
  <2> QED BY <1>2, <2>1, <2>2, IdleOK
<1> QED BY <1>2, <1>5, <1>6, <1>7, RequestStep DEF DataInv

\* The record of LoginCommit's request after it has its token.
Tokened(q, t) == [q EXCEPT !.session.token = t]
Adding(q, t) == [Tokened(q, t) EXCEPT !.stage = "add"]

LEMMA CommitRecord ==
  ASSUME NEW q \in Request, q.stage = "commit", NEW t \in Tokens,
         NEW x \in {Tokened(q, t), Adding(q, t)}
  PROVE  /\ x.stage \in {"commit", "add"}
         /\ x.session.token = t
         /\ x.session.data = q.session.data
         /\ x.old = q.old
         /\ x.hashes = {}
         /\ x.promised = {}
<1> DEFINE w == Tokened(q, t)
<1>1. /\ q \in RequestRecord
      /\ q.session \in Session
      /\ q.hashes = {} /\ q.promised = {}
  BY DEF Request, RequestRecord, Ready, LoginStages, CarryStages, RevokeStages
<1>2. [q.session EXCEPT !.token = t] \in Session
  BY <1>1 DEF Session
<1>3. /\ w \in RequestRecord
      /\ w.stage = "commit"
      /\ w.session.token = t
      /\ w.session.data = q.session.data
      /\ w.old = q.old
      /\ w.hashes = {} /\ w.promised = {}
  BY <1>1, <1>2 DEF RequestRecord, Session, Tokened
<1>4. x = w \/ x = [w EXCEPT !.stage = "add"]
  BY DEF Adding
<1> HIDE DEF w
<1> QED BY <1>3, <1>4 DEF RequestRecord

\* The token of a LoginCommit is the request's own, or nobody's.
LEMMA InvLoginCommit ==
  ASSUME TypeOK, DataInv, RequestInv, NEW r \in Requests, NEW o \in Outcomes,
         LoginCommit(r, o)
  PROVE  DataInv' /\ RequestInv'
<1> DEFINE p == req[r].session.data
           w(t) == [req[r] EXCEPT !.session.token = t]
           v(t) == [w(t) EXCEPT !.stage = "add"]
<1>1. /\ req[r] \in Request
      /\ req[r].stage = "commit"
      /\ clock' = clock
  BY CallType DEF LoginCommit, TypeOK
<1>2. /\ req[r].session \in Session
      /\ req[r].session # None
      /\ p \in Payload
      /\ req[r].old # None => req[r].old.token \in Tokens
  BY <1>1, HeldType, SessionType DEF LoginStages
<1>3. RequestOK(r) /\ LoggingIn(r)
  BY SMTT(40), <1>1 DEF RequestInv, LoggingIn, LoginStages
<1>4. PICK t \in IF req[r].session.token = None THEN Fresh
                 ELSE {req[r].session.token} :
        /\ Answer(r, o, w(t), v(t), Idle)
        /\ IF Done(o)
           THEN /\ store' = [store EXCEPT ![t] = StoredNow(p)]
                /\ owner' = [owner EXCEPT ![t] = p]
                /\ escape' = IF Expiry(p) = 0 THEN Escaping({t}, "late")
                             ELSE escape
           ELSE UNCHANGED <<store, owner, escape>>
  BY DEF LoginCommit
<1>5. /\ t \in Tokens
      /\ t \notin issued
      /\ owner[t] \in {None, p}
      /\ p.at <= clock /\ p.deadline = p.at + Lifetime
      /\ \A q \in Requests : q # r /\ LoggingIn(q) => req[q].session.token # t
  <2>1. p.at <= clock /\ p.deadline = p.at + Lifetime
    BY <1>3 DEF RequestOK
  <2>2. CASE req[r].session.token = None
    <3>1. /\ t \in Tokens /\ owner[t] = None
          /\ \A q \in Requests :
               req[q].session # None => req[q].session.token # t
      BY <1>4, <2>2 DEF Fresh
    <3>2. t \notin issued
      BY <3>1 DEF DataInv, OwnerInv
    <3>3. ASSUME NEW q \in Requests, LoggingIn(q)
          PROVE  req[q].session.token # t
      BY <3>1, <3>3, HeldType, SessionType DEF LoggingIn, TypeOK
    <3> QED BY <2>1, <3>1, <3>2, <3>3
  <2>3. CASE req[r].session.token # None
    <3>1. t = req[r].session.token
      BY <1>4, <2>3
    <3>2. t \in Tokens
      BY <1>2, <2>3, <3>1, SessionType
    <3>3. t \notin issued /\ owner[t] \in {None, p}
      BY <1>3, <2>3, <3>1 DEF RequestOK
    <3>4. ASSUME NEW q \in Requests, q # r, LoggingIn(q)
          PROVE  req[q].session.token # t
      BY <1>3, <2>3, <3>1, <3>4 DEF RequestInv, Exclusive
    <3> QED BY <2>1, <3>2, <3>3, <3>4
  <2> QED BY <2>2, <2>3
<1>6. /\ \A x \in Requests : x # r => req'[x] = req[x]
      /\ \/ o = "ok" /\ req'[r] = v(t)
         \/ o = "again" /\ req'[r] = w(t)
         \/ req'[r] = Idle
  <2>1. Answer(r, o, w(t), v(t), Idle)
    BY <1>4
  <2> HIDE DEF w, v
  <2> QED BY <2>1, AnswerStep
<1>7. DataInv' /\ Preserved
  <2>1. CASE Done(o)
    <3>1. /\ store' = [store EXCEPT ![t] = StoredNow(p)]
          /\ owner' = [owner EXCEPT ![t] = p]
          /\ escape' = IF Expiry(p) = 0 THEN Escaping({t}, "late")
                       ELSE IF t \in issued /\ store[t] = None
                       THEN Escaping({t}, "revived")
                       ELSE escape
          /\ UNCHANGED <<clock, index, issued, revoked>>
      BY <1>1, <1>4, <1>5, <2>1 DEF LoginCommit
    <3> HIDE DEF p
    <3> QED BY <1>2, <1>5, <3>1, CommitKeepsData
  <2>2. CASE ~Done(o)
    <3>1. UNCHANGED <<clock, store, index, history>>
      BY <1>1, <1>4, <2>2 DEF LoginCommit, history
    <3> QED BY <3>1, DataUnchanged, DeletePreserves
  <2> QED BY <2>1, <2>2
<1>8. /\ issued' = issued
      /\ \A x \in Tokens : x # t => owner'[x] = owner[x]
      /\ Done(o) => owner'[t] = p
  BY <1>4, <1>5 DEF LoginCommit, TypeOK
<1>9. ASSUME NEW q \in Requests, q # r PROVE Undisturbed(q)
  <2>1. LoggingIn(q) => req[q].session.token \notin issued
    BY DEF RequestInv, RequestOK
  <2> QED BY <1>5, <1>8, <1>9, <2>1 DEF Undisturbed
<1>10. /\ RequestOK(r)' /\ SnapshotOK(r)'
       /\ LoggingIn(r)' => req'[r].session.token = t
  <2>1. CASE \/ o = "ok" /\ req'[r] = v(t)
             \/ o = "again" /\ req'[r] = w(t)
    <3>1. /\ req'[r].stage \in {"commit", "add"}
          /\ req'[r].session.token = t /\ req'[r].session.data = p
          /\ req'[r].old = req[r].old
          /\ req'[r].hashes = {} /\ req'[r].promised = {}
      <4>1. req'[r] \in {Tokened(req[r], t), Adding(req[r], t)}
        BY <2>1 DEF Tokened, Adding
      <4> QED BY <1>1, <1>5, <4>1, CommitRecord
    <3>2. owner'[t] = p /\ t \notin issued'
      BY <1>5, <1>8, <2>1 DEF Done
    <3>3. p.at <= clock' /\ p.deadline = p.at + Lifetime
      BY <1>1, <1>5
    <3>4. req[r].old # None =>
            \E x \in Tokens : /\ x = req[r].old.token
                              /\ x \in issued'
                              /\ owner'[x] = req[r].old.data
                              /\ Gone(x)'
      BY <1>2, <1>3, <1>5, <1>7, <1>8 DEF RequestOK, Preserved
    <3> HIDE DEF p
    <3>5. RequestOK(r)' /\ SnapshotOK(r)'
      BY <3>1, <3>2, <3>3, <3>4
      DEF RequestOK, SnapshotOK, LoggingIn, Carrying, LoginStages,
          CarryStages, Gone
    <3> QED BY <3>1, <3>5
  <2> HIDE DEF w, v
  <2> QED BY <1>6, <2>1, IdleOK
<1> QED BY <1>5, <1>6, <1>7, <1>9, <1>10, RequestStep DEF DataInv

\* index.add adds a session, and its TTLs outlast every deadline.
LEMMA AddKeepsData ==
  ASSUME TypeOK, DataInv, NEW s \in Session, s.token \in Tokens,
         owner[s.token] = s.data, s.data.at <= clock,
         s.data.deadline = s.data.at + Lifetime, s.token \notin issued,
         AddToIndex(s),
         UNCHANGED <<clock, store, owner, escape, revoked>>,
         issued' \in {issued, issued \cup {s.token}}
  PROVE  DataInv'
<1> DEFINE k == s.token
           a == s.data.user
           b == s.data.device
           c == clock + 2 * Lifetime
<1>1. /\ a \in Users /\ b \in Devices /\ k \in Tokens
      /\ owner[k] # None
      /\ owner[k].user = a /\ owner[k].device = b
      /\ owner[k].at <= clock /\ owner[k].deadline = owner[k].at + Lifetime
      /\ owner[k].at \in Nat
  BY SessionType, NoneAssumption
<1>2. /\ c \in Nat /\ owner[k].deadline < c /\ c = clock + 2 * Lifetime
  BY <1>1, TimeoutsAssumption DEF TypeOK
<1>3. /\ userSessions' = [userSessions EXCEPT ![a] = @ \cup {k}]
      /\ userDevices' = [userDevices EXCEPT ![a] = @ \cup {b}]
      /\ deviceSessions' = [deviceSessions EXCEPT ![a][b] = @ \cup {k}]
      /\ userTTL' = [userTTL EXCEPT ![a] = c]
      /\ deviceTTL' = [deviceTTL EXCEPT ![a][b] = c]
      /\ issued' \in {issued, issued \cup {k}}
  BY DEF AddToIndex
<1> HIDE DEF k, a, b, c
<1>4. IndexType
  BY DEF TypeOK, IndexType
<1>5. /\ \A u \in Users, t \in Tokens : t \in userSessions'[u]
           <=> t \in userSessions[u] \/ (t = k /\ u = a)
      /\ \A u \in Users, d \in Devices : d \in userDevices'[u]
           <=> d \in userDevices[u] \/ (d = b /\ u = a)
  <2>1. ASSUME NEW u \in Users
        PROVE  userSessions'[u] = IF u = a THEN userSessions[u] \cup {k}
                                  ELSE userSessions[u]
    BY <1>1, <1>3, <1>4 DEF IndexType
  <2>2. ASSUME NEW u \in Users
        PROVE  userDevices'[u] = IF u = a THEN userDevices[u] \cup {b}
                                 ELSE userDevices[u]
    BY <1>1, <1>3, <1>4 DEF IndexType
  <2> QED BY <2>1, <2>2
<1>6. ASSUME NEW u \in Users, NEW d \in Devices, NEW t \in Tokens
      PROVE  t \in deviceSessions'[u][d]
               <=> \/ t \in deviceSessions[u][d]
                   \/ t = k /\ u = a /\ d = b
  BY <1>1, <1>3, <1>4 DEF IndexType
<1>7. \A u \in Users : /\ userTTL[u] \in Nat /\ userTTL[u] <= c
                       /\ userTTL'[u] = IF u = a THEN c ELSE userTTL[u]
  BY <1>1, <1>2, <1>3, <1>4 DEF IndexType, DataInv, OwnerInv
<1>8. ASSUME NEW u \in Users, NEW d \in Devices
      PROVE  /\ deviceTTL[u][d] \in Nat /\ deviceTTL[u][d] <= c
             /\ deviceTTL'[u][d] = IF u = a /\ d = b THEN c ELSE deviceTTL[u][d]
  <2>1. deviceTTL[u][d] \in Nat /\ deviceTTL[u][d] <= c
    BY <1>2, <1>4 DEF IndexType, DataInv, OwnerInv
  <2> QED BY <1>1, <1>3, <1>4, <2>1 DEF IndexType
<1>9. OwnerInv'
  <2>1. \A t \in Tokens :
         /\ store'[t] # None => store'[t].data = owner'[t]
         /\ t \in issued' => owner'[t] # None
         /\ t \in revoked' => t \in issued'
         /\ owner'[t] # None =>
              /\ owner'[t].at <= clock'
              /\ owner'[t].deadline = owner'[t].at + Lifetime
    BY <1>1, <1>3 DEF DataInv, OwnerInv
  <2>2. \A t \in Tokens : owner[t] # None => owner[t].deadline \in Nat
    BY DEF TypeOK, Payload
  <2>3. ASSUME NEW u \in Users, NEW t \in Tokens, t \in userSessions'[u]
        PROVE  /\ owner'[t] # None
               /\ owner'[t].user = u
               /\ owner'[t].deadline < userTTL'[u]
    <3>1. CASE t = k /\ u = a
      BY <1>1, <1>2, <1>7, <3>1
    <3>2. CASE t \in userSessions[u]
      <4>1. /\ owner[t] # None /\ owner[t].user = u
            /\ owner[t].deadline < userTTL[u]
        BY <3>2 DEF DataInv, OwnerInv
      <4> QED BY <1>2, <1>7, <2>2, <4>1
    <3> QED BY <1>5, <2>3, <3>1, <3>2
  <2>4. ASSUME NEW u \in Users, NEW d \in Devices, NEW t \in Tokens,
               t \in deviceSessions'[u][d]
        PROVE  /\ owner'[t] # None
               /\ owner'[t].user = u
               /\ owner'[t].device = d
               /\ owner'[t].deadline < deviceTTL'[u][d]
               /\ owner'[t].deadline < userTTL'[u]
    <3>1. CASE t = k /\ u = a /\ d = b
      BY <1>1, <1>2, <1>7, <1>8, <3>1
    <3>2. CASE t \in deviceSessions[u][d]
      <4>1. /\ owner[t] # None /\ owner[t].user = u /\ owner[t].device = d
            /\ owner[t].deadline < deviceTTL[u][d]
            /\ owner[t].deadline < userTTL[u]
        BY <3>2 DEF DataInv, OwnerInv
      <4> QED BY <1>2, <1>7, <1>8, <2>2, <4>1
    <3> QED BY <1>6, <2>4, <3>1, <3>2
  <2>5. \A u \in Users : userTTL'[u] <= clock' + 2 * Lifetime
    BY <1>2, <1>7
  <2>6. \A u \in Users, d \in Devices : deviceTTL'[u][d] <= clock' + 2 * Lifetime
    BY <1>2, <1>8
  <2> QED BY <2>1, <2>3, <2>4, <2>5, <2>6 DEF OwnerInv
<1>10. \A t \in Tokens : store[t] # None =>
         /\ store[t].data.user \in Users /\ store[t].data.device \in Devices
         /\ store[t].data = owner[t]
  BY NoneAssumption DEF TypeOK, Stored, Payload, DataInv, OwnerInv
<1>11. ReachableByUser'
  BY <1>1, <1>3, <1>5, <1>10 DEF DataInv, ReachableByUser, Live
<1>12. ReachableByDevice'
  BY <1>1, <1>3, <1>5, <1>6, <1>10 DEF DataInv, ReachableByDevice, Live
<1>13. RevocationHolds' /\ DeadlineKept'
  BY DEF DataInv, RevocationHolds, DeadlineKept
<1> QED BY <1>9, <1>11, <1>12, <1>13 DEF DataInv

LEMMA InvLoginAdd ==
  ASSUME TypeOK, DataInv, RequestInv, NEW r \in Requests, NEW o \in Outcomes,
         LoginAdd(r, o)
  PROVE  DataInv' /\ RequestInv'
<1> DEFINE s == req[r].session
           q == IF req[r].old = None THEN Idle
                ELSE [req[r] EXCEPT !.stage = "removeOld"]
           w == [req[r] EXCEPT !.stage = "undo"]
<1>1. /\ req[r] \in Request
      /\ req[r].stage = "add"
      /\ clock' = clock
  BY CallType DEF LoginAdd, TypeOK
<1>2. /\ s \in Session /\ s.token \in Tokens
      /\ req[r].old # None => req[r].old.token \in Tokens
  BY <1>1, HeldType DEF LoginStages
<1>3. RequestOK(r) /\ SnapshotOK(r) /\ LoggingIn(r)
  BY <1>1 DEF RequestInv, LoggingIn, LoginStages
<1>4. /\ s.token \notin issued
      /\ s.data.at <= clock
      /\ s.data.deadline = s.data.at + Lifetime
      /\ owner[s.token] = s.data
  BY <1>1, <1>3 DEF RequestOK
<1>5. /\ \A x \in Requests : x # r => req'[x] = req[x]
      /\ \/ o = "ok" /\ req'[r] = q
         \/ o = "again" /\ req'[r] = req[r]
         \/ o \notin {"ok", "again"} /\ req'[r] = w
  <2>1. Answer(r, o, req[r], q, w)
    BY DEF LoginAdd
  <2> HIDE DEF q, w
  <2> QED BY <2>1, AnswerStep
<1>6. /\ issued' = IF o = "ok" THEN issued \cup {s.token} ELSE issued
      /\ IF Done(o) THEN AddToIndex(s) ELSE UNCHANGED index
      /\ UNCHANGED <<store, owner, escape, revoked>>
  BY DEF LoginAdd
<1> HIDE DEF s
<1>7. DataInv'
  <2>1. CASE Done(o)
    <3>1. issued' \in {issued, issued \cup {s.token}}
      BY <1>6
    <3> QED BY <1>1, <1>2, <1>4, <1>6, <2>1, <3>1, AddKeepsData
  <2>2. CASE ~Done(o)
    BY <1>1, <1>6, <2>2, DataUnchanged DEF Done, history
  <2> QED BY <2>1, <2>2
<1>8. Preserved
  BY <1>1, <1>6, QuietPreserves
<1>9. ASSUME NEW x \in Requests, x # r PROVE Undisturbed(x)
  <2>1. LoggingIn(x) => req[x].session.token \notin issued
    BY DEF RequestInv, RequestOK
  <2>2. LoggingIn(x) => req[x].session.token # s.token
    BY <1>2, <1>3, <1>9, NoneAssumption DEF RequestInv, Exclusive, s
  <2> QED BY <1>6, <2>1, <2>2 DEF Undisturbed
<1>10. /\ RequestOK(r)' /\ SnapshotOK(r)'
       /\ LoggingIn(r)' => req'[r].session.token = s.token
  <2>1. req[r].hashes = {} /\ req[r].promised = {}
    BY <1>1 DEF Request, Ready, RevokeStages
  <2>2. req[r].old # None =>
          \E x \in Tokens : /\ x = req[r].old.token
                            /\ x \in issued'
                            /\ owner'[x] = req[r].old.data
                            /\ Gone(x)'
    BY <1>2, <1>3, <1>6, <1>8 DEF RequestOK, Preserved
  <2>3. CASE o = "ok" /\ req'[r] = q
    <3>1. CASE req[r].old = None
      BY <2>3, <3>1, IdleOK
    <3>2. CASE req[r].old # None
      <4>1. /\ req'[r].stage = "removeOld" /\ req'[r].session = s
            /\ req'[r].old = req[r].old
            /\ req'[r].hashes = {} /\ req'[r].promised = {}
        BY <1>1, <2>1, <2>3, <3>2 DEF Request, RequestRecord, s
      <4> HIDE DEF q, w
      <4> QED BY <1>4, <1>6, <2>2, <2>3, <4>1
        DEF RequestOK, SnapshotOK, LoggingIn, Carrying, LoginStages,
            CarryStages, Gone
    <3> QED BY <3>1, <3>2
  <2>4. CASE \/ o = "again" /\ req'[r] = req[r]
             \/ o \notin {"ok", "again"} /\ req'[r] = w
    <3>1. /\ req'[r].stage \in {"add", "undo"} /\ req'[r].session = s
          /\ req'[r].old = req[r].old
          /\ req'[r].hashes = {} /\ req'[r].promised = {}
      BY <1>1, <2>1, <2>4 DEF Request, RequestRecord, s
    <3>2. issued' = issued
      BY <1>6, <2>4
    <3> HIDE DEF q, w
    <3> QED BY <1>1, <1>4, <1>6, <2>2, <3>1, <3>2
        DEF RequestOK, SnapshotOK, LoggingIn, Carrying, LoginStages,
            CarryStages, Gone
  <2> HIDE DEF q, w
  <2> QED BY <1>5, <2>3, <2>4
<1>11. \A x \in Requests : x # r /\ LoggingIn(x) =>
          req[x].session.token # s.token
  BY <1>2, <1>3, NoneAssumption DEF RequestInv, Exclusive, s
<1> QED BY <1>5, <1>7, <1>8, <1>9, <1>10, <1>11, RequestStep DEF DataInv

\* A revocation that deletes H and shrinks the index.  What it promised is in
\* H or has escaped.
LEMMA RevokeKeepsData ==
  ASSUME TypeOK, DataInv, NEW H, NEW P, store' = Without(H),
         \A u \in Users : userSessions'[u] \subseteq userSessions[u],
         \A u \in Users, d \in Devices :
            deviceSessions'[u][d] \subseteq deviceSessions[u][d],
         UNCHANGED <<clock, userTTL, deviceTTL, issued, owner>>,
         \A t \in Tokens : escape[t] \subseteq escape'[t],
         \A t \in P : t \in issued /\ (t \in H \/ escape[t] # {}),
         revoked' \in {revoked, revoked \cup P}
  PROVE  OwnerInv' /\ RevocationHolds' /\ DeadlineKept' /\ Preserved
<1>1. \A t \in Tokens : store'[t] = IF t \in H THEN None ELSE store[t]
  BY DEF Without
<1>2. issued \subseteq Tokens /\ revoked \subseteq Tokens
  BY DEF TypeOK
<1>3. OwnerInv'
  <2>1. \A t \in Tokens :
         /\ store'[t] # None => store'[t].data = owner'[t]
         /\ t \in issued' => owner'[t] # None
         /\ t \in revoked' => t \in issued'
         /\ owner'[t] # None =>
              /\ owner'[t].at <= clock'
              /\ owner'[t].deadline = owner'[t].at + Lifetime
    BY <1>1 DEF DataInv, OwnerInv
  <2> QED BY <2>1 DEF DataInv, OwnerInv
<1>4. RevocationHolds'
  <2>1. ASSUME NEW t \in revoked' PROVE store'[t] = None \/ escape'[t] # {}
    <3>1. CASE t \in revoked
      BY <1>1, <1>2, <3>1 DEF DataInv, RevocationHolds
    <3>2. CASE t \in P
      BY <1>1, <1>2, <3>2
    <3> QED BY <2>1, <3>1, <3>2
  <2> QED BY <2>1 DEF RevocationHolds
<1>5. DeadlineKept'
  BY <1>1 DEF DataInv, DeadlineKept
<1>6. Preserved
  <2>1. clock \in Nat
    BY BoundsAssumption DEF TypeOK
  <2>2. ASSUME NEW t \in Tokens, Gone(t) PROVE Gone(t)'
    BY <1>1, <2>2 DEF Gone
  <2>3. clock <= clock' /\ clock' \in Nat
    BY <2>1
  <2> QED BY <2>1, <2>2, <2>3 DEF Preserved
<1> QED BY <1>3, <1>4, <1>5, <1>6

\* The request of a revocation goes idle or tries again.
LEMMA RevokeStep ==
  ASSUME TypeOK, OwnerInv, RequestInv, NEW r \in Requests, Preserved,
         req[r].stage \in RevokeStages,
         \A q \in Requests : q # r => req'[q] = req[q],
         req'[r] = req[r] \/ req'[r] = Idle,
         UNCHANGED <<issued, owner>>
  PROVE  RequestInv'
<1>1. \A q \in Requests : Undisturbed(q)
  BY QuietUndisturbed DEF RequestInv
<1>2. RequestOK(r)' /\ SnapshotOK(r)' /\ ~LoggingIn(r)'
  <2>1. RequestOK(r) /\ SnapshotOK(r) /\ ~LoggingIn(r)
    BY DEF RequestInv, LoggingIn, LoginStages, RevokeStages
  <2>2. CASE req'[r] = req[r]
    BY <1>1, <2>1, <2>2, UntouchedRequest DEF LoggingIn
  <2> QED BY <2>2, IdleOK
<1> QED BY <1>1, <1>2, RequestStep

LEMMA InvDeleteDeviceTx ==
  ASSUME TypeOK, DataInv, RequestInv, NEW r \in Requests, NEW o \in Outcomes,
         DeleteDeviceTx(r, o)
  PROVE  DataInv' /\ RequestInv'
<1> DEFINE u == req[r].user
           d == req[r].device
           H == req[r].hashes
           P == req[r].promised
<1>1. /\ req[r].stage = "deviceTx"
      /\ clock' = clock
      /\ u \in Users /\ d \in Devices
  BY CallType, HeldType DEF DeleteDeviceTx, TypeOK, RevokeStages
<1>2. /\ \A q \in Requests : q # r => req'[q] = req[q]
      /\ req'[r] = req[r] \/ req'[r] = Idle
  BY AnswerStep DEF DeleteDeviceTx, Return
<1>3. /\ revoked' \in {revoked, revoked \cup P}
      /\ ~Done(o) => revoked' = revoked
      /\ UNCHANGED <<clock, userTTL, deviceTTL, issued, owner>>
  BY <1>1 DEF DeleteDeviceTx, Return, Done
<1>4. \A t \in P : t \in issued /\ (t \in H \/ escape[t] # {})
  BY DEF RequestInv, SnapshotOK
<1>5. Done(o) =>
        /\ store' = Without(H)
        /\ userSessions' = [userSessions EXCEPT ![u] = @ \ H]
        /\ deviceSessions' = [deviceSessions EXCEPT ![u][d] = {}]
        /\ userDevices' = [userDevices EXCEPT ![u] = @ \ {d}]
        /\ escape' = Escaping(deviceSessions[u][d] \ H, "deviceRace")
  BY DEF DeleteDeviceTx
<1>6. ~Done(o) => UNCHANGED <<store, index, history>>
  BY <1>3 DEF DeleteDeviceTx, index, history
<1> HIDE DEF u, d, H, P
<1>7. CASE Done(o)
  <2>0. IndexType
    BY DEF TypeOK, IndexType
  <2>1. \A x \in Users :
          userSessions'[x] = IF x = u THEN userSessions[x] \ H
                             ELSE userSessions[x]
    BY <1>1, <1>5, <1>7, <2>0 DEF IndexType
  <2>2. \A x \in Users :
          userDevices'[x] = IF x = u THEN userDevices[x] \ {d}
                            ELSE userDevices[x]
    BY <1>1, <1>5, <1>7, <2>0 DEF IndexType
  <2>3. ASSUME NEW x \in Users, NEW y \in Devices
        PROVE  deviceSessions'[x][y] = IF x = u /\ y = d THEN {}
                                       ELSE deviceSessions[x][y]
    <3>1. deviceSessions' = [deviceSessions EXCEPT ![u][d] = {}]
      BY <1>5, <1>7
    <3>2. deviceSessions \in [Users -> [Devices -> SUBSET Tokens]]
      BY <2>0 DEF IndexType
    <3> QED BY <1>1, <3>1, <3>2
  <2>4. \A t \in Tokens :
          /\ escape[t] \subseteq escape'[t]
          /\ t \in deviceSessions[u][d] \ H => "deviceRace" \in escape'[t]
          /\ store'[t] = IF t \in H THEN None ELSE store[t]
    BY <1>5, <1>7 DEF Escaping, Without, TypeOK
  <2>5. \A t \in Tokens : store[t] # None =>
          store[t].data.user \in Users /\ store[t].data.device \in Devices
    BY NoneAssumption DEF TypeOK, Stored, Payload
  <2>6. OwnerInv' /\ RevocationHolds' /\ DeadlineKept' /\ Preserved
    <3>1. /\ \A x \in Users : userSessions'[x] \subseteq userSessions[x]
          /\ \A x \in Users, y \in Devices :
               deviceSessions'[x][y] \subseteq deviceSessions[x][y]
      BY <2>1, <2>3
    <3>2. /\ store' = Without(H)
          /\ UNCHANGED <<clock, userTTL, deviceTTL, issued, owner>>
          /\ revoked' \in {revoked, revoked \cup P}
      BY <1>3, <1>5, <1>7
    <3>3. \A t \in Tokens : escape[t] \subseteq escape'[t]
      BY <2>4
    <3> QED BY <1>4, <3>1, <3>2, <3>3, RevokeKeepsData
  <2>7. ReachableByUser'
    BY ZenonT(40), <1>3, <2>1, <2>4, <2>5 DEF DataInv, ReachableByUser, Live
  <2>8. ReachableByDevice'
    <3>1. ASSUME NEW t \in Tokens, Live(t)', escape'[t] = {}
          PROVE  LET p == store'[t].data IN
                 /\ t \in deviceSessions'[p.user][p.device]
                 /\ p.device \in userDevices'[p.user]
      <4> DEFINE p == store[t].data
      <4>1. t \in issued /\ store[t] # None /\ t \notin H /\ escape[t] = {}
        BY <1>3, <2>4, <3>1 DEF Live
      <4>2. t \in deviceSessions[p.user][p.device]
            /\ p.device \in userDevices[p.user]
        BY <4>1 DEF DataInv, ReachableByDevice, Live
      <4>3. ~(p.user = u /\ p.device = d)
        BY <2>4, <3>1, <4>1, <4>2
      <4>4. store'[t] = store[t]
        BY <2>4, <4>1
      <4>5. p.user \in Users /\ p.device \in Devices
        BY <2>5, <4>1
      <4>6. /\ deviceSessions'[p.user][p.device]
                 = deviceSessions[p.user][p.device]
            /\ p.device \in userDevices'[p.user]
        <5> HIDE DEF p
        <5> QED BY <2>2, <2>3, <4>2, <4>3, <4>5
      <4> QED BY <4>2, <4>4, <4>6
    <3> QED BY <3>1 DEF ReachableByDevice
  <2> QED BY <1>1, <1>2, <1>3, <2>6, <2>7, <2>8, RevokeStep
      DEF DataInv, RevokeStages
<1>8. CASE ~Done(o)
  <2>1. DataInv' /\ Preserved
    BY <1>3, <1>6, <1>8, DataUnchanged, DeletePreserves
  <2> QED BY <1>1, <1>2, <1>3, <2>1, RevokeStep DEF DataInv, RevokeStages
<1> QED BY <1>7, <1>8

LEMMA InvDeleteUserTx ==
  ASSUME TypeOK, DataInv, RequestInv, NEW r \in Requests, NEW o \in Outcomes,
         DeleteUserTx(r, o)
  PROVE  DataInv' /\ RequestInv'
<1> DEFINE u == req[r].user
           D == req[r].devices
           H == req[r].hashes
           P == req[r].promised
<1>1. /\ req[r].stage = "userTx"
      /\ clock' = clock
      /\ u \in Users
  BY CallType, HeldType DEF DeleteUserTx, TypeOK, RevokeStages
<1>2. /\ \A q \in Requests : q # r => req'[q] = req[q]
      /\ req'[r] = req[r] \/ req'[r] = Idle
  BY AnswerStep DEF DeleteUserTx, Return
<1>3. /\ revoked' \in {revoked, revoked \cup P}
      /\ ~Done(o) => revoked' = revoked
      /\ UNCHANGED <<clock, userTTL, deviceTTL, issued, owner>>
  BY <1>1 DEF DeleteUserTx, Return, Done
<1>4. \A t \in P : t \in issued /\ (t \in H \/ escape[t] # {})
  BY DEF RequestInv, SnapshotOK
<1>5. Done(o) =>
        /\ store' = Without(H)
        /\ userSessions' = [userSessions EXCEPT ![u] = {}]
        /\ userDevices' = [userDevices EXCEPT ![u] = {}]
        /\ deviceSessions' =
             [deviceSessions EXCEPT
                ![u] = [x \in Devices |-> IF x \in D THEN {} ELSE @[x]]]
        /\ escape' = Escaping(userSessions[u] \ H, "userRace")
  BY DEF DeleteUserTx
<1>6. ~Done(o) => UNCHANGED <<store, index, history>>
  BY <1>3 DEF DeleteUserTx, index, history
<1> HIDE DEF u, D, H, P
<1>7. CASE Done(o)
  <2>0. IndexType
    BY DEF TypeOK, IndexType
  <2>1. \A x \in Users :
          userSessions'[x] = IF x = u THEN {} ELSE userSessions[x]
    BY <1>1, <1>5, <1>7, <2>0 DEF IndexType
  <2>2. \A x \in Users : x # u => userDevices'[x] = userDevices[x]
    BY <1>1, <1>5, <1>7, <2>0 DEF IndexType
  <2>3. \A x \in Users, y \in Devices :
          /\ x # u => deviceSessions'[x][y] = deviceSessions[x][y]
          /\ deviceSessions'[x][y] \subseteq deviceSessions[x][y]
    <3>1. deviceSessions \in [Users -> [Devices -> SUBSET Tokens]]
      BY <2>0 DEF IndexType
    <3>2. deviceSessions' = [deviceSessions EXCEPT
             ![u] = [x \in Devices |-> IF x \in D THEN {} ELSE deviceSessions[u][x]]]
      BY <1>5, <1>7
    <3> QED BY <1>1, <3>1, <3>2
  <2>4. \A t \in Tokens :
          /\ escape[t] \subseteq escape'[t]
          /\ t \in userSessions[u] \ H => "userRace" \in escape'[t]
          /\ store'[t] = IF t \in H THEN None ELSE store[t]
    BY <1>5, <1>7 DEF Escaping, Without, TypeOK
  <2>5. OwnerInv' /\ RevocationHolds' /\ DeadlineKept' /\ Preserved
    <3>1. /\ \A x \in Users : userSessions'[x] \subseteq userSessions[x]
          /\ \A x \in Users, y \in Devices :
               deviceSessions'[x][y] \subseteq deviceSessions[x][y]
      BY <2>1, <2>3
    <3>2. /\ store' = Without(H)
          /\ UNCHANGED <<clock, userTTL, deviceTTL, issued, owner>>
          /\ revoked' \in {revoked, revoked \cup P}
      BY <1>3, <1>5, <1>7
    <3>3. \A t \in Tokens : escape[t] \subseteq escape'[t]
      BY <2>4
    <3> QED BY <1>4, <3>1, <3>2, <3>3, RevokeKeepsData
  <2>6. ASSUME NEW t \in Tokens, Live(t)', escape'[t] \subseteq {"deviceRace"}
        PROVE  /\ Live(t) /\ store'[t] = store[t]
               /\ store[t].data.user \in Users
               /\ store[t].data.device \in Devices
               /\ store[t].data.user # u
               /\ escape[t] \subseteq escape'[t]
               /\ t \in userSessions[store[t].data.user]
    <3>1. /\ Live(t) /\ store'[t] = store[t] /\ t \notin H
          /\ escape[t] \subseteq escape'[t]
      BY <1>3, <2>4, <2>6 DEF Live
    <3>2. store[t].data.user \in Users /\ store[t].data.device \in Devices
      BY <3>1, NoneAssumption DEF TypeOK, Stored, Payload, Live
    <3>3. t \in userSessions[store[t].data.user]
      BY <2>6, <3>1 DEF DataInv, ReachableByUser
    <3>4. store[t].data.user # u
      BY <2>4, <2>6, <3>1, <3>3
    <3> QED BY <3>1, <3>2, <3>3, <3>4
  <2>7. ReachableByUser'
    BY <2>1, <2>6 DEF ReachableByUser
  <2>8. ReachableByDevice'
    BY <2>2, <2>3, <2>6 DEF DataInv, ReachableByDevice
  <2> QED BY <1>1, <1>2, <1>3, <2>5, <2>7, <2>8, RevokeStep
      DEF DataInv, RevokeStages
<1>8. CASE ~Done(o)
  <2>1. DataInv' /\ Preserved
    BY <1>3, <1>6, <1>8, DataUnchanged, DeletePreserves
  <2> QED BY <1>1, <1>2, <1>3, <2>1, RevokeStep DEF DataInv, RevokeStages
<1> QED BY <1>7, <1>8

\* Time passes.  A session that is still there has an index that is, too.
LEMMA InvTick ==
  ASSUME TypeOK, DataInv, RequestInv, Tick
  PROVE  DataInv' /\ RequestInv'
<1>1. /\ clock \in Nat /\ clock >= 1 /\ clock' = clock + 1
      /\ clock' \in Nat /\ clock <= clock'
      /\ UNCHANGED <<userTTL, deviceTTL, req, issued, owner, escape, revoked>>
  BY BoundsAssumption DEF TypeOK, Tick, history
<1>2. \A t \in Tokens : store'[t] # None =>
         store'[t] = store[t] /\ store[t].expiry \notin 1..clock'
  BY DEF Tick
<1>3. /\ \A u \in Users :
           /\ userSessions'[u] = IF userTTL[u] <= clock' THEN {}
                                 ELSE userSessions[u]
           /\ userDevices'[u] = IF userTTL[u] <= clock' THEN {}
                                ELSE userDevices[u]
      /\ \A u \in Users, d \in Devices :
           deviceSessions'[u][d] = IF deviceTTL[u][d] <= clock' THEN {}
                                   ELSE deviceSessions[u][d]
  BY DEF Tick
<1>4. /\ \A u \in Users : userTTL[u] \in Nat
      /\ \A u \in Users, d \in Devices : deviceTTL[u][d] \in Nat
      /\ \A t \in Tokens : owner[t] # None => owner[t] \in Payload
      /\ \A t \in Tokens : store[t] # None => store[t] \in Stored
  BY DEF TypeOK
<1>5. OwnerInv'
  <2>1. ASSUME NEW t \in Tokens
        PROVE  /\ store'[t] # None => store'[t].data = owner'[t]
               /\ t \in issued' => owner'[t] # None
               /\ t \in revoked' => t \in issued'
               /\ owner'[t] # None =>
                    /\ owner'[t].at <= clock'
                    /\ owner'[t].deadline = owner'[t].at + Lifetime
    <3>1. owner[t] # None => /\ owner[t].at \in Nat /\ owner[t].at <= clock
                             /\ owner[t].deadline = owner[t].at + Lifetime
      BY <1>4 DEF DataInv, OwnerInv, Payload
    <3>2. owner[t] # None => owner[t].at <= clock'
      BY <1>1, <3>1
    <3> QED BY <1>1, <1>2, <3>1, <3>2 DEF DataInv, OwnerInv
  <2>2. /\ \A u \in Users : userTTL[u] <= clock + 2 * Lifetime
        /\ \A u \in Users, d \in Devices :
             deviceTTL[u][d] <= clock + 2 * Lifetime
    BY DEF DataInv, OwnerInv
  <2>3. /\ \A u \in Users : userTTL'[u] <= clock' + 2 * Lifetime
        /\ \A u \in Users, d \in Devices :
             deviceTTL'[u][d] <= clock' + 2 * Lifetime
    BY <1>1, <1>4, <2>2, TimeoutsAssumption
  <2>4. \A u \in Users, t \in Tokens :
          t \in userSessions'[u] => t \in userSessions[u]
    BY <1>3
  <2>5. \A u \in Users, d \in Devices, t \in Tokens :
          t \in deviceSessions'[u][d] => t \in deviceSessions[u][d]
    BY <1>3
  <2> QED BY <1>1, <2>1, <2>3, <2>4, <2>5 DEF DataInv, OwnerInv
<1>6. ASSUME NEW t \in Tokens, store'[t] # None, "late" \notin escape[t]
      PROVE  /\ clock' < store[t].expiry
             /\ store[t].expiry <= store[t].data.at + Lifetime
             /\ clock' < owner[t].deadline
             /\ owner[t] = store[t].data
             /\ owner[t] \in Payload
  <2>1. /\ store[t] # None /\ store[t].expiry \notin 1..clock'
        /\ store[t].expiry \in Nat
        /\ store[t].data \in Payload
    BY <1>2, <1>4, <1>6 DEF Stored
  <2>2. /\ clock < store[t].expiry
        /\ store[t].expiry <= store[t].data.at + Lifetime
    BY <1>6, <2>1 DEF DataInv, DeadlineKept
  <2>3. owner[t] = store[t].data /\ owner[t] # None
        /\ owner[t].deadline = owner[t].at + Lifetime
        /\ owner[t].at \in Nat /\ Lifetime \in Nat
    BY <2>1, NoneAssumption, TimeoutsAssumption DEF DataInv, OwnerInv, Payload
  <2>4. clock' < store[t].expiry
    BY <1>1, <2>1, <2>2
  <2>5. clock' < owner[t].deadline
    BY <1>1, <2>1, <2>2, <2>3, <2>4
  <2> QED BY <2>1, <2>2, <2>3, <2>4, <2>5
<1>7. \A t \in Tokens : Live(t)' => Live(t) /\ store'[t] = store[t]
  BY <1>1, <1>2 DEF Live
<1>8. \A u \in Users, t \in Tokens :
         owner[t] \in Payload /\ clock' < owner[t].deadline
         /\ owner[t].deadline < userTTL[u] => ~(userTTL[u] <= clock')
  BY <1>1, <1>4 DEF Payload
<1>9. ReachableByUser'
  <2>1. ASSUME NEW t \in Tokens, Live(t)', escape'[t] \subseteq {"deviceRace"}
        PROVE  t \in userSessions'[store'[t].data.user]
    <3>1. /\ Live(t) /\ store'[t] = store[t] /\ store[t] \in Stored
          /\ escape'[t] = escape[t] /\ store'[t] # None
      BY <1>1, <1>4, <1>7, <2>1 DEF Live
    <3>2. t \in userSessions[store[t].data.user]
      BY <2>1, <3>1 DEF DataInv, ReachableByUser
    <3>3. store[t].data.user \in Users
      BY <3>1 DEF Stored, Payload
    <3>4. owner[t].deadline < userTTL[store[t].data.user]
      BY <3>2, <3>3 DEF DataInv, OwnerInv
    <3>5. "late" \notin escape[t]
      BY <2>1, <3>1
    <3> QED BY <1>3, <1>6, <1>8, <3>1, <3>2, <3>3, <3>4, <3>5
  <2> QED BY <2>1 DEF ReachableByUser
<1>10. ReachableByDevice'
  <2>1. ASSUME NEW t \in Tokens, Live(t)', escape'[t] = {}
        PROVE  LET p == store'[t].data IN
               /\ t \in deviceSessions'[p.user][p.device]
               /\ p.device \in userDevices'[p.user]
    <3> DEFINE u == store[t].data.user
               d == store[t].data.device
    <3>1. /\ Live(t) /\ store'[t] = store[t] /\ store[t] \in Stored
          /\ escape[t] = {} /\ store'[t] # None
      BY <1>1, <1>4, <1>7, <2>1 DEF Live
    <3>2. t \in deviceSessions[u][d] /\ d \in userDevices[u]
      BY <3>1 DEF DataInv, ReachableByDevice
    <3>3. u \in Users /\ d \in Devices
      BY <3>1 DEF Stored, Payload
    <3>4. owner[t].deadline < userTTL[u] /\ owner[t].deadline < deviceTTL[u][d]
      BY <3>2, <3>3 DEF DataInv, OwnerInv
    <3>5. clock' < owner[t].deadline /\ owner[t].deadline \in Nat
      BY <1>6, <3>1 DEF Payload
    <3> HIDE DEF u, d
    <3>6. ~(userTTL[u] <= clock') /\ ~(deviceTTL[u][d] <= clock')
      BY <1>1, <1>4, <3>3, <3>4, <3>5
    <3>7. t \in deviceSessions'[u][d] /\ d \in userDevices'[u]
      BY <1>3, <3>2, <3>3, <3>6
    <3> QED BY <3>1, <3>7 DEF u, d
  <2> QED BY <2>1 DEF ReachableByDevice
<1>11. RevocationHolds'
  <2>1. revoked \subseteq Tokens
    BY DEF TypeOK
  <2> QED BY <1>1, <1>2, <2>1 DEF DataInv, RevocationHolds
<1>12. DeadlineKept'
  BY <1>1, <1>2, <1>6 DEF DeadlineKept
<1>13. Preserved
  <2>1. ASSUME NEW t \in Tokens, Gone(t) PROVE Gone(t)'
    BY <1>1, <1>2, <2>1 DEF Gone
  <2> QED BY <1>1, <2>1 DEF Preserved
<1>14. RequestInv'
  <2>1. \A q \in Requests : Undisturbed(q)
    BY <1>1, QuietUndisturbed DEF RequestInv
  <2>2. ASSUME NEW q \in Requests PROVE RequestOK(q)' /\ SnapshotOK(q)'
    BY <1>1, <1>13, <2>1, UntouchedRequest DEF RequestInv, DataInv
  <2>3. ASSUME NEW p \in Requests, NEW q \in Requests PROVE Exclusive(p, q)'
    BY <1>1 DEF RequestInv, Exclusive, LoggingIn
  <2> QED BY <2>2, <2>3 DEF RequestInv
<1> QED BY <1>5, <1>9, <1>10, <1>11, <1>12, <1>14 DEF DataInv

LEMMA InvCrash ==
  ASSUME TypeOK, DataInv, RequestInv, Crash
  PROVE  DataInv' /\ RequestInv'
<1>1. \A q \in Requests : req'[q] = Idle
  BY DEF Crash
<1>2. DataInv'
  BY DataUnchanged DEF Crash
<1>3. \A q \in Requests : RequestOK(q)' /\ SnapshotOK(q)' /\ ~LoggingIn(q)'
  BY <1>1, IdleOK
<1>4. ASSUME NEW p \in Requests, NEW q \in Requests PROVE Exclusive(p, q)'
  BY <1>3 DEF Exclusive
<1> QED BY <1>2, <1>3, <1>4 DEF RequestInv

-----------------------------------------------------------------------------
(* The inductive invariant and what follows from it                        *)

LEMMA InvInit == Init => IInv
<1> SUFFICES ASSUME Init PROVE IInv
  OBVIOUS
<1>1. TypeOK
  BY TypeInit
<1>2. /\ clock = 1
      /\ issued = {} /\ revoked = {}
      /\ \A t \in Tokens : store[t] = None /\ owner[t] = None
      /\ \A u \in Users : userSessions[u] = {} /\ userTTL[u] = 0
      /\ \A u \in Users, d \in Devices :
           deviceSessions[u][d] = {} /\ deviceTTL[u][d] = 0
      /\ \A q \in Requests : req[q] = Idle
  BY DEF Init
<1>3. OwnerInv
  BY <1>2, TimeoutsAssumption DEF OwnerInv
<1>4. ReachableByUser /\ ReachableByDevice /\ RevocationHolds /\ DeadlineKept
  BY <1>2 DEF ReachableByUser, ReachableByDevice, RevocationHolds, DeadlineKept,
     Live
<1>5. \A q \in Requests : RequestOK(q) /\ SnapshotOK(q) /\ ~LoggingIn(q)
  BY <1>2 DEF RequestOK, SnapshotOK, LoggingIn, Carrying, Idle, LoginStages,
     CarryStages
<1>6. RequestInv
  BY <1>5 DEF RequestInv, Exclusive
<1> QED BY <1>1, <1>3, <1>4, <1>6 DEF IInv

LEMMA InvNext == IInv /\ [Next]_vars => IInv'
<1> SUFFICES ASSUME IInv, [Next]_vars PROVE IInv'
  OBVIOUS
<1>1. TypeOK /\ DataInv /\ RequestInv
  BY DEF IInv, DataInv
<1>2. TypeOK'
  BY <1>1, TypeNext
<1>3. ASSUME NEW r \in Requests, Local(r) PROVE DataInv' /\ RequestInv'
  BY <1>1, <1>3, InvEndRequest, InvLoginBegin, InvLogoutDevice, InvLogoutUser,
     InvAuthenticateLoad
  DEF Local
<1>4. ASSUME NEW r \in Requests, NEW o \in Outcomes, Write(r, o)
      PROVE  DataInv' /\ RequestInv'
  BY <1>1, <1>4, InvLoginRotate, InvLoginCommit, InvLoginAdd, InvLoginUndo,
     InvLoginRemoveOld, InvAuthenticateCommit, InvLogoutCurrentDestroy,
     InvLogoutCurrentUnindex, InvDeleteDeviceTx, InvDeleteUserDevices,
     InvDeleteUserTx
  DEF Write
<1>5. ASSUME UNCHANGED vars PROVE DataInv' /\ RequestInv'
  <2>1. UNCHANGED <<clock, store, index, history, req>>
    BY <1>5 DEF vars
  <2>2. DataInv'
    BY <1>1, <2>1, DataUnchanged
  <2>3. /\ Preserved
        /\ \A q \in Requests : Undisturbed(q)
    BY <1>1, <2>1, DeletePreserves, QuietUndisturbed DEF RequestInv, history
  <2>4. ASSUME NEW q \in Requests PROVE RequestOK(q)' /\ SnapshotOK(q)'
    BY <1>1, <2>1, <2>3, UntouchedRequest DEF RequestInv, DataInv
  <2>5. ASSUME NEW p \in Requests, NEW q \in Requests PROVE Exclusive(p, q)'
    BY <1>1, <2>1 DEF RequestInv, Exclusive, LoggingIn
  <2> QED BY <2>2, <2>4, <2>5 DEF RequestInv
<1>6. DataInv' /\ RequestInv'
  <2>1. CASE Tick
    BY <1>1, <2>1, InvTick
  <2>2. CASE Crash
    BY <1>1, <2>2, InvCrash
  <2>3. CASE \E r \in Requests : Local(r) \/ \E o \in Outcomes : Write(r, o)
    BY <1>3, <1>4, <2>3
  <2> QED BY <1>5, <2>1, <2>2, <2>3 DEF Next
<1> QED BY <1>2, <1>6 DEF IInv, DataInv

\* The inductive invariant holds for every number of users, devices, tokens,
\* concurrent requests, faults and clock ticks (realm.go:87-229, index.go).
THEOREM Invariant == Spec => []IInv
<1> QED BY InvInit, InvNext, PTL DEF Spec

\* Whoever holds a live session can be logged out by user, except after the
\* races named in escape (index.go:94).
THEOREM UserReach == Spec => []ReachableByUser
<1>1. IInv => ReachableByUser
  BY DEF IInv
<1> QED BY <1>1, Invariant, PTL

\* Likewise by user and device (index.go:75).
THEOREM DeviceReach == Spec => []ReachableByDevice
<1>1. IInv => ReachableByDevice
  BY DEF IInv
<1> QED BY <1>1, Invariant, PTL

\* A covered session stays dead, except after those races (realm.go:184-229).
THEOREM Revocation == Spec => []RevocationHolds
<1>1. IInv => RevocationHolds
  BY DEF IInv
<1> QED BY <1>1, Invariant, PTL

\* No session outlives its login's deadline, except by a late write
\* (realm.go:118, 165).
THEOREM Deadline == Spec => []DeadlineKept
<1>1. IInv => DeadlineKept
  BY DEF IInv
<1> QED BY <1>1, Invariant, PTL

\* Only the first Commit under a token says what the token names.
LEMMA OwnerKept ==
  ASSUME TypeOK, DataInv, RequestInv, [Next]_vars,
         NEW t \in Tokens, owner[t] # None
  PROVE  owner'[t] = owner[t]
<1>1. CASE owner' = owner
  BY <1>1
<1>2. ASSUME NEW r \in Requests, NEW o \in Outcomes, LoginCommit(r, o)
      PROVE  owner'[t] = owner[t]
  <2>1. PICK k \in IF req[r].session.token = None THEN Fresh
                   ELSE {req[r].session.token} :
          owner' = [owner EXCEPT ![k] = req[r].session.data] \/ owner' = owner
    BY <1>2 DEF LoginCommit
  <2>2. req[r].stage = "commit"
    BY <1>2, CallType DEF LoginCommit
  <2>3. owner[k] \in {None, req[r].session.data}
    BY <2>2 DEF RequestInv, RequestOK, LoggingIn, LoginStages, Fresh
  <2> QED BY <2>1, <2>3 DEF TypeOK
<1>3. ASSUME NEW r \in Requests, Local(r) PROVE owner' = owner
  BY ZenonT(40), <1>3 DEF Local, EndRequest, LoginBegin, LogoutDevice, LogoutUser,
              AuthenticateLoad, history
<1>4. ASSUME NEW r \in Requests, NEW o \in Outcomes, Write(r, o),
             ~LoginCommit(r, o)
      PROVE  owner' = owner
  BY <1>4 DEF Write, LoginRotate, LoginAdd, LoginUndo, LoginRemoveOld,
              AuthenticateCommit, LogoutCurrentDestroy, LogoutCurrentUnindex,
              DeleteDeviceTx, DeleteUserDevices, DeleteUserTx, history
<1>5. CASE Tick \/ Crash \/ UNCHANGED vars
  BY <1>5 DEF Tick, Crash, vars, history
<1> QED BY <1>1, <1>2, <1>3, <1>4, <1>5 DEF Next

\* A token names one login for good, whoever writes its session back
\* (realm.go:105-118, 165).
THEOREM TokenIdentity == Spec => TokenNamesOneLogin
<1>1. ASSUME IInv, IInv', [Next]_vars
      PROVE  \A t \in Tokens : owner[t] # None =>
               /\ owner'[t] = owner[t]
               /\ store'[t] # None => store'[t].data = owner[t]
  <2>1. TypeOK /\ DataInv /\ RequestInv
    BY <1>1 DEF IInv, DataInv
  <2>2. \A t \in Tokens : store'[t] # None => store'[t].data = owner'[t]
    BY <1>1 DEF IInv, OwnerInv
  <2> QED BY <1>1, <2>1, <2>2, OwnerKept
<1> QED BY <1>1, Invariant, PTL DEF Spec, TokenNamesOneLogin

\* The steps that delete sessions, and which.
LEMMA DeletedBy ==
  ASSUME TypeOK, DataInv, RequestInv, [Next]_vars,
         NEW t \in Tokens, store[t] # None, store'[t] = None
  PROVE  \/ store[t].expiry \in 1..clock'
         \/ \E r \in Requests :
              /\ req[r].stage \in {"authed", "renew", "destroy", "undo"}
              /\ req[r].session.token = t
         \/ \E r \in Requests :
              /\ req[r].stage \in RevokeStages
              /\ req[r].user = store[t].data.user
              /\ req[r].device \in {None, store[t].data.device}
<1>1. CASE Tick
  BY <1>1 DEF Tick
<1>2. ASSUME NEW r \in Requests, NEW o \in Outcomes,
             \/ \E u \in Users, d \in Devices : LoginRotate(r, u, d, o)
             \/ LoginUndo(r, o)
             \/ LogoutCurrentDestroy(r, o)
      PROVE  /\ req[r].stage \in {"authed", "renew", "destroy", "undo"}
             /\ req[r].session.token = t
  <2>1. store' = Without({req[r].session.token})
    BY <1>2 DEF LoginRotate, LoginUndo, LogoutCurrentDestroy
  <2>2. req[r].stage \in {"authed", "renew", "destroy", "undo"}
    BY <1>2 DEF LoginRotate, LoginUndo, LogoutCurrentDestroy, Call
  <2> QED BY <2>1, <2>2 DEF Without
<1>3. ASSUME NEW r \in Requests, NEW o \in Outcomes,
             DeleteDeviceTx(r, o) \/ DeleteUserTx(r, o)
      PROVE  /\ req[r].stage \in RevokeStages
             /\ req[r].user = store[t].data.user
             /\ req[r].device \in {None, store[t].data.device}
  <2>1. store' = Without(req[r].hashes)
    BY <1>3 DEF DeleteDeviceTx, DeleteUserTx
  <2>2. req[r].stage \in RevokeStages
    BY <1>3 DEF DeleteDeviceTx, DeleteUserTx, Call, RevokeStages
  <2>3. t \in req[r].hashes
    BY <2>1 DEF Without
  <2>4. /\ req[r].user = owner[t].user
        /\ req[r].device \in {None, owner[t].device}
    BY <2>3 DEF RequestInv, SnapshotOK
  <2>5. store[t].data = owner[t]
    BY DEF DataInv, OwnerInv
  <2> QED BY <2>2, <2>4, <2>5
<1>4. ASSUME NEW r \in Requests, NEW o \in Outcomes,
             LoginCommit(r, o) \/ AuthenticateCommit(r, o)
      PROVE  FALSE
  <2> DEFINE p == req[r].session.data
  <2>1. \/ store' = store
        \/ \E k : store' = [store EXCEPT ![k] = StoredNow(p)]
    BY ZenonT(40), <1>4 DEF LoginCommit, AuthenticateCommit
  <2>2. req[r].stage \in LoginStages \cup CarryStages
    BY ZenonT(40), <1>4 DEF LoginCommit, AuthenticateCommit, Call, LoginStages, CarryStages
  <2>3. p \in Payload
    BY <2>2, HeldType, SessionType DEF TypeOK
  <2> HIDE DEF p
  <2>4. StoredNow(p) # None
    BY <2>3, StoredNowType, NoneAssumption
  <2> QED BY SMTT(40), <2>1, <2>4 DEF TypeOK
<1>5. ASSUME NEW r \in Requests, Local(r) PROVE store' = store
  BY <1>5 DEF Local, EndRequest, LoginBegin, LogoutDevice, LogoutUser,
              AuthenticateLoad
<1>6. ASSUME NEW r \in Requests, NEW o \in Outcomes,
             \/ LoginAdd(r, o)
             \/ LoginRemoveOld(r, o)
             \/ LogoutCurrentUnindex(r, o)
             \/ DeleteUserDevices(r, o)
      PROVE  store' = store
  BY <1>6 DEF LoginAdd, LoginRemoveOld, LogoutCurrentUnindex, DeleteUserDevices
<1>7. CASE Crash \/ UNCHANGED vars
  BY <1>7 DEF Crash, vars
<1>8. ASSUME NEW r \in Requests, NEW o \in Outcomes, Write(r, o)
      PROVE  \/ /\ req[r].stage \in {"authed", "renew", "destroy", "undo"}
                /\ req[r].session.token = t
             \/ /\ req[r].stage \in RevokeStages
                /\ req[r].user = store[t].data.user
                /\ req[r].device \in {None, store[t].data.device}
  BY <1>2, <1>3, <1>4, <1>6, <1>8 DEF Write
<1> QED BY <1>1, <1>5, <1>7, <1>8 DEF Next

\* A session dies only by expiry, by the request that carries it, or by a
\* revocation of its own user and device (index.go:81, 109).
THEOREM Isolation == Spec => OnlyTargetsDie
<1>1. ASSUME IInv, [Next]_vars
      PROVE  \A t \in Tokens : store[t] # None /\ store'[t] = None =>
            \/ store[t].expiry \in 1..clock'
            \/ \E r \in Requests :
                 /\ req[r].stage \in {"authed", "renew", "destroy", "undo"}
                 /\ req[r].session.token = t
            \/ \E r \in Requests :
                 /\ req[r].stage \in RevokeStages
                 /\ req[r].user = store[t].data.user
                 /\ req[r].device \in {None, store[t].data.device}
  BY <1>1, DeletedBy DEF IInv, DataInv
<1> QED BY <1>1, Invariant, PTL DEF Spec, OnlyTargetsDie
=============================================================================
